------------------------ MODULE ModelRegistryProofs ------------------------
(***************************************************************************)
(* Proofs about ModelRegistry for any processes, any number of versions to *)
(* keep, and any trainings, rollbacks and crashes.                         *)
(***************************************************************************)
EXTENDS ModelRegistry, SequenceTheorems, FiniteSetTheorems, WellFoundedInduction, TLAPS

Distinct(s) == \A i, j \in DOMAIN s : s[i] = s[j] => i = j

(* A manifest as train_model and rollback_model make it. *)
Sound(m) ==
    /\ Distinct(m.artifacts)
    /\ m.active = IF m.artifacts = << >> THEN NoArtifact ELSE m.artifacts[1]
    /\ Listed(m) \subseteq dumped

ManifestsSound ==
    /\ manifest # Torn => Sound(manifest)
    /\ \A p \in Processes : Sound(draft[p])

(* What each process is at, and what it has to prune. *)
TaskOf(p) ==
    /\ stage[p] \notin Quiet => task[p] # NoTask
    /\ stage[p] \notin Quiet \cup {"dumping"} => Subject(p) \in dumped
    /\ stage[p] \in {"dumping", "pruning", "removing"} => Training(p)
    /\ stage[p] = "reporting" => ~Training(p)
    /\ doomed[p] # << >> <=> stage[p] \in {"pruning", "removing"}
    /\ stage[p] \in {"pruned", "writing", "pruning", "removing"} =>
         draft[p].artifacts # << >> /\ draft[p].active = Subject(p)

TaskInv == \A p \in Processes : TaskOf(p)

(* Artifacts not given out leave no trace; only a complete file is whole, and
   one being dumped is of nobody else's. *)
FilesInv ==
    /\ \A a \in Artifacts : a > trained => files[a] = "absent" /\ a \notin dumped
    /\ \A a \in Artifacts : files[a] = "whole" => a \in dumped
    /\ \A p \in Processes : task[p] # NoTask => Subject(p) <= trained
    /\ \A p \in Processes : stage[p] = "dumping" => Subject(p) \notin dumped
    /\ \A p, q \in Processes : stage[p] = "dumping" /\ Training(q) /\ Subject(p) = Subject(q) => p = q

UsedInv ==
    /\ model \in dumped \cup {NoArtifact, Torn}
    /\ \A p \in Processes : cache[p] \in dumped \cup {NoArtifact}
-----------------------------------------------------------------------------
(* Processes that work one at a time. How many entries m has more than are kept: *)
Surplus(m) == IF Len(m.artifacts) > Keep THEN Len(m.artifacts) - Keep ELSE 0

(* At rest, with m for its manifest, the registry has too many files or entries
   for the crashes at most, and only entries about to be pruned lack a file. *)
Settled(m) ==
    /\ Cardinality(Stored \ Listed(m)) + Surplus(m) <= crashes
    /\ \A i \in DOMAIN m.artifacts : m.artifacts[i] \notin Stored => i >= Keep
    /\ Cardinality(Listed(m) \ Stored) <= crashes

(* The same while p trains and its artifact is not listed yet. *)
Unlisted(p) ==
    /\ Subject(p) \in Stored /\ Subject(p) \notin Listed(manifest)
    /\ Cardinality((Stored \ Listed(manifest)) \ {Subject(p)}) + Surplus(manifest) <= crashes
    /\ \A i \in DOMAIN manifest.artifacts : manifest.artifacts[i] \notin Stored => i >= Keep

(* What p has made of the manifest, while it prunes and then writes. *)
Drafted(p) ==
    /\ Len(draft[p].artifacts) <= Keep
    /\ Listed(draft[p]) \subseteq Stored /\ Listed(draft[p]) \cap ToSet(doomed[p]) = {}
    /\ Distinct(doomed[p])
    /\ Cardinality((Stored \ Listed(draft[p])) \ ToSet(doomed[p])) <= crashes
    /\ manifest # Torn =>
         \A i \in DOMAIN manifest.artifacts : manifest.artifacts[i] \in ToSet(doomed[p]) => i >= Keep
    /\ stage[p] = "removing" => Head(doomed[p]) \in Stored

Early == {"dumping", "dumped", "installing", "installed"}
Amended == {"pruning", "removing", "pruned"}

(* The registry while p alone is at work. *)
Working(p) ==
    /\ stage[p] \in Early /\ manifest # Torn =>
         IF Training(p) THEN Unlisted(p) ELSE Settled(manifest) /\ Subject(p) \in Stored
    /\ stage[p] \in Amended =>
         /\ manifest # Torn
         /\ IF Training(p) THEN Unlisted(p) /\ Drafted(p)
            ELSE Settled(manifest) /\ Settled(draft[p])
    /\ stage[p] = "writing" =>
         manifest = Torn /\ IF Training(p) THEN Drafted(p) ELSE Settled(draft[p])
    /\ stage[p] = "reporting" => manifest # Torn /\ Settled(manifest)
    /\ crashes = 0 =>
         /\ stage[p] # "writing" => manifest # Torn
         /\ stage[p] \in {"dumping", "dumped", "reporting"} => model = manifest.active
         /\ stage[p] \in {"installed", "writing"} \cup Amended => model = Subject(p)

(* The registry while nobody is at work. *)
Rest ==
    /\ manifest # Torn => Settled(manifest)
    /\ crashes = 0 => manifest # Torn /\ model = manifest.active

(* One at a time, and what they leave. *)
SoloInv ==
    ~overlapped =>
      /\ \A p, q \in Processes : stage[p] \notin Quiet /\ stage[q] \notin Quiet => p = q
      /\ \A p \in Processes : ~mixed[p] /\ (stage[p] \notin Quiet => Working(p))
      /\ AtRest => Rest

(* Without crashes, a file is cut off only while it is written. *)
PartialInv ==
    crashes = 0 => \A a \in Artifacts : files[a] = "partial" =>
        \E p \in Processes : stage[p] = "dumping" /\ Subject(p) = a

IInv ==
    /\ TypeOK /\ ManifestsSound /\ TaskInv /\ FilesInv /\ UsedInv
    /\ SoloInv /\ PartialInv
-----------------------------------------------------------------------------
(* Induction over the numbers, as a fact about sets. *)
LEMMA SetInduction ==
  ASSUME NEW T \in SUBSET Nat, 0 \in T, \A n \in T : n + 1 \in T
  PROVE  T = Nat
  <1> DEFINE Less == OpToRel(<, Nat)
  <1>1. IsWellFoundedOn(Less, Nat)
    BY NatLessThanWellFounded
  <1>2. \A x, y \in Nat : y < x => << y, x >> \in Less
    BY DEF OpToRel
  <1> HIDE DEF Less
  <1>3. SUFFICES ASSUME Nat \ T # {} PROVE FALSE
    OBVIOUS
  <1>4. PICK x \in Nat \ T : \A y \in Nat \ T : ~(<< y, x >> \in Less)
    BY <1>1, <1>3, WFMin
  <1>5. x # 0 /\ x - 1 \in Nat /\ x - 1 < x
    BY <1>4
  <1>6. x - 1 \in T
    BY <1>2, <1>4, <1>5
  <1> QED
    BY <1>4, <1>5, <1>6

(* f gives what is kept of the first i entries, for each i up to n. *)
KeepsUpTo(f, n, entries, a) ==
    /\ f[0] = << >>
    /\ \A i \in 1..n : f[i] = IF entries[i] = a THEN f[i - 1] ELSE Append(f[i - 1], entries[i])

LEMMA KeptExists ==
  ASSUME NEW S, NEW entries \in Seq(S), NEW a, NEW n \in 0..Len(entries)
  PROVE  \E f \in [0..n -> Seq(S)] : KeepsUpTo(f, n, entries, a)
  <1> DEFINE T == { k \in Nat : k <= Len(entries) =>
                      \E f \in [0..k -> Seq(S)] : KeepsUpTo(f, k, entries, a) }
  <1>1. 0 \in T
    <2>1. [i \in 0..0 |-> << >>] \in [0..0 -> Seq(S)]
      OBVIOUS
    <2>2. KeepsUpTo([i \in 0..0 |-> << >>], 0, entries, a)
      BY DEF KeepsUpTo
    <2> QED
      BY <2>1, <2>2
  <1>2. ASSUME NEW k \in T PROVE k + 1 \in T
    <2>1. SUFFICES ASSUME k + 1 <= Len(entries)
                   PROVE  \E f \in [0..(k + 1) -> Seq(S)] : KeepsUpTo(f, k + 1, entries, a)
      OBVIOUS
    <2>2. PICK f \in [0..k -> Seq(S)] : KeepsUpTo(f, k, entries, a)
      BY <2>1
    <2> DEFINE last == IF entries[k + 1] = a THEN f[k] ELSE Append(f[k], entries[k + 1])
    <2> DEFINE g == [i \in 0..(k + 1) |-> IF i = k + 1 THEN last ELSE f[i]]
    <2>3. k + 1 \in 1..Len(entries) /\ f[k] \in Seq(S) /\ entries[k + 1] \in S
      BY <2>1
    <2>4. last \in Seq(S)
      BY <2>3
    <2>5. g \in [0..(k + 1) -> Seq(S)]
      BY <2>4
    <2>6. g[k + 1] = last /\ \A i \in 0..k : g[i] = f[i]
      OBVIOUS
    <2>7. \A i \in 1..k : f[i] = IF entries[i] = a THEN f[i - 1] ELSE Append(f[i - 1], entries[i])
      BY <2>2 DEF KeepsUpTo
    <2>8. f[0] = << >>
      BY <2>2 DEF KeepsUpTo
    <2> HIDE DEF g
    <2>9. ASSUME NEW i \in 1..(k + 1)
          PROVE  g[i] = IF entries[i] = a THEN g[i - 1] ELSE Append(g[i - 1], entries[i])
      <3>1. CASE i = k + 1
        BY <2>6, <3>1
      <3>2. CASE i # k + 1
        <4>1. i \in 1..k /\ i \in 0..k /\ i - 1 \in 0..k
          BY <3>2
        <4> QED
          BY <2>6, <2>7, <4>1
      <3> QED
        BY <3>1, <3>2
    <2>10. KeepsUpTo(g, k + 1, entries, a)
      BY <2>6, <2>8, <2>9 DEF KeepsUpTo
    <2> QED
      BY <2>5, <2>10
  <1> HIDE DEF T
  <1>3. T = Nat
    BY <1>1, <1>2, SetInduction DEF T
  <1> QED
    BY <1>3 DEF T

(* Kept is that function. *)
LEMMA KeptIs ==
  ASSUME NEW S, NEW entries \in Seq(S), NEW a
  PROVE  /\ Kept(entries, a) \in [0..Len(entries) -> Seq(S)]
         /\ KeepsUpTo(Kept(entries, a), Len(entries), entries, a)
  <1> DEFINE Step(f) == [n \in 0..Len(entries) |->
                 IF n = 0 THEN << >>
                 ELSE IF entries[n] = a THEN f[n - 1] ELSE Append(f[n - 1], entries[n])]
  <1>1. PICK f \in [0..Len(entries) -> Seq(S)] : KeepsUpTo(f, Len(entries), entries, a)
    <2>1. Len(entries) \in 0..Len(entries)
      OBVIOUS
    <2> QED
      BY <2>1, KeptExists
  <1>2. f = Step(f)
    <2>1. \A n \in 0..Len(entries) : f[n] = Step(f)[n]
      <3> TAKE n \in 0..Len(entries)
      <3>1. f[0] = << >>
        BY <1>1 DEF KeepsUpTo
      <3>2. n # 0 => n \in 1..Len(entries)
        OBVIOUS
      <3>3. n # 0 => f[n] = IF entries[n] = a THEN f[n - 1] ELSE Append(f[n - 1], entries[n])
        BY <1>1, <3>2 DEF KeepsUpTo
      <3> QED
        BY <3>1, <3>3
    <2> HIDE DEF Step
    <2>2. f = [n \in 0..Len(entries) |-> f[n]] /\ Step(f) = [n \in 0..Len(entries) |-> Step(f)[n]]
      BY DEF Step
    <2> QED
      BY <2>1, <2>2
  <1>3. Kept(entries, a) = CHOOSE g : g = Step(g)
    BY DEF Kept
  <1>4. Kept(entries, a) = Step(Kept(entries, a))
    <2> HIDE DEF Step
    <2> QED BY <1>2, <1>3
  <1> DEFINE K == Kept(entries, a)
  <1> HIDE DEF K
  <1>5. K = Step(K)
    BY <1>4 DEF K
  <1>6. DOMAIN K = 0..Len(entries)
    BY <1>5
  <1>7. KeepsUpTo(K, Len(entries), entries, a)
    <2>1. 0 \in 0..Len(entries) /\ \A n \in 1..Len(entries) : n \in 0..Len(entries) /\ n # 0
      OBVIOUS
    <2>2. K[0] = << >>
      BY <1>5, <2>1
    <2>3. \A n \in 1..Len(entries) :
            K[n] = IF entries[n] = a THEN K[n - 1] ELSE Append(K[n - 1], entries[n])
      BY <1>5, <2>1
    <2> QED
      BY <2>2, <2>3 DEF KeepsUpTo
  <1>8. \A n \in 0..Len(entries) : K[n] \in Seq(S)
    <2> DEFINE T == { n \in Nat : n <= Len(entries) => K[n] \in Seq(S) }
    <2>1. 0 \in T
      <3>1. K[0] = << >> /\ << >> \in Seq(S)
        BY <1>7 DEF KeepsUpTo
      <3> QED
        BY <3>1
    <2>2. ASSUME NEW n \in T PROVE n + 1 \in T
      <3>1. SUFFICES ASSUME n + 1 <= Len(entries) PROVE K[n + 1] \in Seq(S)
        OBVIOUS
      <3>2. K[n] \in Seq(S) /\ n + 1 \in 1..Len(entries) /\ entries[n + 1] \in S
        BY <3>1
      <3>3. K[n + 1] = IF entries[n + 1] = a THEN K[n] ELSE Append(K[n], entries[n + 1])
        BY <1>7, <3>2 DEF KeepsUpTo
      <3> QED
        BY <3>2, <3>3
    <2> HIDE DEF T
    <2>3. T = Nat
      BY <2>1, <2>2, SetInduction DEF T
    <2> QED
      BY <2>3 DEF T
  <1>9. K = [n \in 0..Len(entries) |-> K[n]]
    BY <1>5
  <1> QED
    BY <1>7, <1>8, <1>9 DEF K

(* Without an entry to drop, and with one at position p, it gives ... *)
LEMMA WithoutAbsent ==
  ASSUME NEW S, NEW entries \in Seq(S), NEW a, \A i \in 1..Len(entries) : entries[i] # a
  PROVE  Without(entries, a) = entries
  <1> DEFINE K == Kept(entries, a)
  <1> HIDE DEF K
  <1>1. K \in [0..Len(entries) -> Seq(S)] /\ KeepsUpTo(K, Len(entries), entries, a)
    BY KeptIs DEF K
  <1> DEFINE T == { n \in Nat : n <= Len(entries) =>
                      Len(K[n]) = n /\ \A i \in 1..n : K[n][i] = entries[i] }
  <1> HIDE DEF T
  <1>2. 0 \in T
    BY <1>1 DEF KeepsUpTo, T
  <1>3. ASSUME NEW n \in T PROVE n + 1 \in T
    <2>1. SUFFICES ASSUME n + 1 <= Len(entries)
                   PROVE  /\ Len(K[n + 1]) = n + 1
                          /\ \A i \in 1..(n + 1) : K[n + 1][i] = entries[i]
      BY DEF T
    <2>2. n + 1 \in 1..Len(entries) /\ n \in 0..Len(entries) /\ entries[n + 1] \in S /\ n \in Nat
      BY <2>1 DEF T
    <2>3. K[n] \in Seq(S) /\ Len(K[n]) = n /\ \A i \in 1..n : K[n][i] = entries[i]
      BY <1>1, <2>1, <2>2 DEF T
    <2>4. K[n + 1] = Append(K[n], entries[n + 1])
      <3>1. n + 1 - 1 = n /\ entries[n + 1] # a
        BY <2>2
      <3>2. K[n + 1] = IF entries[n + 1] = a THEN K[n + 1 - 1] ELSE Append(K[n + 1 - 1], entries[n + 1])
        BY <1>1, <2>2 DEF KeepsUpTo
      <3> QED
        BY <3>1, <3>2
    <2> QED
      BY <2>2, <2>3, <2>4
  <1>4. T = Nat
    BY <1>2, <1>3, SetInduction DEF T
  <1>5. Len(entries) \in Nat /\ Len(entries) \in 0..Len(entries)
    OBVIOUS
  <1>6. /\ K[Len(entries)] \in Seq(S) /\ Len(K[Len(entries)]) = Len(entries)
        /\ \A i \in 1..Len(entries) : K[Len(entries)][i] = entries[i]
    BY <1>1, <1>4, <1>5 DEF T
  <1> QED
    BY <1>6 DEF Without, K

LEMMA WithoutPresent ==
  ASSUME NEW S, NEW entries \in Seq(S), Distinct(entries), NEW p \in 1..Len(entries)
  PROVE  /\ Without(entries, entries[p]) \in Seq(S)
         /\ Len(Without(entries, entries[p])) = Len(entries) - 1
         /\ \A i \in 1..(Len(entries) - 1) :
              Without(entries, entries[p])[i] = IF i < p THEN entries[i] ELSE entries[i + 1]
  <1> DEFINE K == Kept(entries, entries[p])
  <1> DEFINE Size(n) == IF n < p THEN n ELSE n - 1
  <1> DEFINE Entry(i) == IF i < p THEN entries[i] ELSE entries[i + 1]
  <1> HIDE DEF K
  <1>1. K \in [0..Len(entries) -> Seq(S)] /\ KeepsUpTo(K, Len(entries), entries, entries[p])
    BY KeptIs DEF K
  <1> DEFINE T == { n \in Nat : n <= Len(entries) =>
                      Len(K[n]) = Size(n) /\ \A i \in 1..Size(n) : K[n][i] = Entry(i) }
  <1>2. 0 \in T
    BY <1>1 DEF KeepsUpTo
  <1>3. ASSUME NEW n \in T PROVE n + 1 \in T
    <2>1. SUFFICES ASSUME n + 1 <= Len(entries)
                   PROVE  /\ Len(K[n + 1]) = Size(n + 1)
                          /\ \A i \in 1..Size(n + 1) : K[n + 1][i] = Entry(i)
      OBVIOUS
    <2>2. n + 1 \in 1..Len(entries) /\ n \in 0..Len(entries) /\ entries[n + 1] \in S /\ n \in Nat
      BY <2>1
    <2>3. K[n] \in Seq(S) /\ Len(K[n]) = Size(n) /\ \A i \in 1..Size(n) : K[n][i] = Entry(i)
      BY <1>1, <2>1, <2>2
    <2>4. K[n + 1] = IF entries[n + 1] = entries[p] THEN K[n] ELSE Append(K[n], entries[n + 1])
      BY <1>1, <2>2 DEF KeepsUpTo
    <2>5. entries[n + 1] = entries[p] => n + 1 = p
      BY <2>2 DEF Distinct
    <2>6. CASE n + 1 = p
      BY <2>2, <2>3, <2>4, <2>6
    <2>7. CASE n + 1 # p
      <3>1. K[n + 1] = Append(K[n], entries[n + 1]) /\ Size(n + 1) = Size(n) + 1
        BY <2>2, <2>4, <2>5, <2>7
      <3>2. Entry(Size(n) + 1) = entries[n + 1]
        BY <2>2, <2>7
      <3> QED
        BY <2>2, <2>3, <3>1, <3>2
    <2> QED
      BY <2>6, <2>7
  <1> HIDE DEF T
  <1>4. T = Nat
    BY <1>2, <1>3, SetInduction DEF T
  <1>5. Len(entries) \in Nat /\ Len(entries) \in 0..Len(entries) /\ Size(Len(entries)) = Len(entries) - 1
    OBVIOUS
  <1>6. /\ K[Len(entries)] \in Seq(S) /\ Len(K[Len(entries)]) = Len(entries) - 1
        /\ \A i \in 1..(Len(entries) - 1) : K[Len(entries)][i] = Entry(i)
    <2>1. Len(entries) \in T
      BY <1>4, <1>5
    <2>2. Len(K[Len(entries)]) = Size(Len(entries)) /\ \A i \in 1..Size(Len(entries)) : K[Len(entries)][i] = Entry(i)
      BY <1>5, <2>1 DEF T
    <2> HIDE DEF Size, Entry
    <2> QED
      BY <1>1, <1>5, <2>2
  <1> QED
    BY <1>6 DEF Without, K
-----------------------------------------------------------------------------
(* What upserting an entry gives. *)
LEMMA Upserted ==
  ASSUME NEW m \in Manifests, Distinct(m.artifacts), NEW a \in Artifacts
  PROVE  /\ Upsert(m, a) \in Manifests /\ Distinct(Upsert(m, a).artifacts)
         /\ Upsert(m, a).active = a
         /\ Upsert(m, a).artifacts # << >> /\ Upsert(m, a).artifacts[1] = a
         /\ Listed(Upsert(m, a)) = Listed(m) \cup {a}
         /\ Len(m.artifacts) \in Nat
         /\ a \in Listed(m) => Len(Upsert(m, a).artifacts) = Len(m.artifacts)
         /\ a \notin Listed(m) => Len(Upsert(m, a).artifacts) = Len(m.artifacts) + 1
         /\ \A j \in DOMAIN Upsert(m, a).artifacts : j # 1 =>
              \E i \in DOMAIN m.artifacts :
                Upsert(m, a).artifacts[j] = m.artifacts[i] /\ i <= j /\ (a \notin Listed(m) => j = i + 1)
  <1> DEFINE l == m.artifacts
  <1> DEFINE w == Without(l, a)
  <1> DEFINE u == << a >> \o w
  <1>1. l \in Seq(Artifacts) /\ Len(l) \in Nat /\ DOMAIN l = 1..Len(l) /\ a \in Artifacts
    BY DEF Manifests
  <1>2. Upsert(m, a) = [active |-> a, artifacts |-> u]
    BY DEF Upsert
  <1>u. /\ Upsert(m, a).artifacts = u /\ Upsert(m, a).active = a
        /\ Listed(Upsert(m, a)) = ToSet(u) /\ Listed(m) = ToSet(l)
    BY <1>2 DEF Listed, ToSet
  <1> HIDE DEF w, l
  <1>3. w \in Seq(Artifacts) => /\ u \in Seq(Artifacts) /\ Len(u) = Len(w) + 1 /\ u[1] = a /\ u # << >>
                                /\ DOMAIN u = 1..(Len(w) + 1)
                                /\ \A i \in 1..Len(w) : u[i + 1] = w[i]
    BY <1>1
  <1> HIDE DEF u
  <1>4. CASE \A i \in 1..Len(l) : l[i] # a
    <2>1. w = l
      BY <1>1, <1>4, WithoutAbsent DEF w
    <2>2. a \notin Listed(m)
      BY <1>1, <1>4 DEF Listed, l
    <2>3. \A j \in DOMAIN u : j # 1 => j - 1 \in DOMAIN l /\ u[j] = l[j - 1]
      BY <1>1, <1>3, <2>1
    <2>4. \A i, j \in DOMAIN l : l[i] = l[j] => i = j
      BY DEF Distinct, l
    <2>5. Distinct(u)
      <3> SUFFICES ASSUME NEW i \in DOMAIN u, NEW j \in DOMAIN u, u[i] = u[j] PROVE i = j
        BY DEF Distinct
      <3>1. u[1] = a /\ i \in Nat /\ j \in Nat
        BY <1>1, <1>3, <2>1
      <3>2. CASE i = 1 \/ j = 1
        BY <1>1, <1>4, <2>3, <3>1, <3>2
      <3>3. CASE i # 1 /\ j # 1
        BY <2>3, <2>4, <3>1, <3>3
      <3> QED
        BY <3>2, <3>3
    <2>6. ToSet(u) = ToSet(l) \cup {a}
      <3>1. ToSet(u) \subseteq ToSet(l) \cup {a}
        BY <1>1, <1>3, <2>1, <2>3 DEF ToSet
      <3>2. ASSUME NEW i \in DOMAIN l PROVE l[i] \in ToSet(u)
        <4>1. i + 1 \in DOMAIN u /\ u[i + 1] = l[i]
          BY <1>1, <1>3, <2>1
        <4> QED
          BY <4>1 DEF ToSet
      <3>3. a \in ToSet(u)
        BY <1>1, <1>3, <2>1 DEF ToSet
      <3> QED
        BY <3>1, <3>2, <3>3 DEF ToSet
    <2>7. u \in Seq(Artifacts) /\ Len(u) = Len(l) + 1 /\ u[1] = a /\ u # << >>
      BY <1>1, <1>3, <2>1
    <2>8. \A j \in DOMAIN u : j # 1 => \E i \in DOMAIN l : u[j] = l[i] /\ i <= j /\ j = i + 1
      <3> TAKE j \in DOMAIN u
      <3> HAVE j # 1
      <3>1. j - 1 \in DOMAIN l /\ u[j] = l[j - 1] /\ j \in Nat
        BY <2>3, <2>7
      <3> QED
        BY <3>1
    <2>9. Upsert(m, a) \in Manifests
      BY <1>1, <1>2, <2>7 DEF Manifests
    <2> QED
      BY <1>1, <1>u, <2>2, <2>5, <2>6, <2>7, <2>8, <2>9 DEF l
  <1>5. CASE \E i \in 1..Len(l) : l[i] = a
    <2>1. PICK p \in 1..Len(l) : l[p] = a
      BY <1>5
    <2>2. /\ w \in Seq(Artifacts) /\ Len(w) = Len(l) - 1
          /\ \A i \in 1..(Len(l) - 1) : w[i] = IF i < p THEN l[i] ELSE l[i + 1]
      BY <1>1, <2>1, WithoutPresent DEF w, l
    <2>3. /\ u \in Seq(Artifacts) /\ Len(u) = Len(l) /\ u[1] = a /\ u # << >> /\ DOMAIN u = 1..Len(l)
          /\ \A i \in 1..(Len(l) - 1) : u[i + 1] = w[i]
      BY <1>1, <1>3, <2>2
    <2>4. \A j \in 1..Len(l) : j # 1 => u[j] = IF j <= p THEN l[j - 1] ELSE l[j]
      <3> TAKE j \in 1..Len(l)
      <3> HAVE j # 1
      <3>1. j - 1 \in 1..(Len(l) - 1) /\ (j - 1) + 1 = j
        BY <1>1
      <3>2. u[(j - 1) + 1] = w[j - 1] /\ w[j - 1] = IF j - 1 < p THEN l[j - 1] ELSE l[(j - 1) + 1]
        BY <2>2, <2>3, <3>1
      <3>3. u[j] = w[j - 1] /\ (j - 1 < p <=> j <= p) /\ l[(j - 1) + 1] = l[j]
        BY <3>1, <3>2
      <3> QED
        BY <3>2, <3>3
    <2>5. \A i, j \in 1..Len(l) : l[i] = l[j] => i = j
      BY <1>1 DEF Distinct, l
    <2>6. Distinct(u)
      <3> SUFFICES ASSUME NEW i \in 1..Len(l), NEW j \in 1..Len(l), u[i] = u[j] PROVE i = j
        BY <2>3 DEF Distinct
      <3> DEFINE At(k) == IF k = 1 THEN p ELSE IF k <= p THEN k - 1 ELSE k
      <3>1. \A k \in 1..Len(l) : At(k) \in 1..Len(l) /\ u[k] = l[At(k)]
        BY <1>1, <2>1, <2>3, <2>4
      <3>2. At(i) = At(j)
        <4> HIDE DEF At
        <4> QED
          BY <2>5, <3>1
      <3> QED
        BY <3>2
    <2>7. a \in Listed(m)
      BY <1>1, <2>1 DEF Listed, l
    <2>8. \A j \in 1..Len(l) : j # 1 => \E i \in 1..Len(l) : u[j] = l[i] /\ i <= j
      <3> TAKE j \in 1..Len(l)
      <3> HAVE j # 1
      <3> DEFINE i == IF j <= p THEN j - 1 ELSE j
      <3>1. i \in 1..Len(l) /\ i <= j /\ u[j] = l[i]
        BY <2>4
      <3> QED
        BY <3>1
    <2>9. ToSet(u) = ToSet(l)
      <3>1. \A j \in 1..Len(l) : u[j] \in ToSet(l)
        BY <1>1, <2>1, <2>3, <2>8 DEF ToSet
      <3>2. ASSUME NEW i \in 1..Len(l) PROVE l[i] \in ToSet(u)
        <4> DEFINE j == IF i = p THEN 1 ELSE IF i < p THEN i + 1 ELSE i
        <4>1. j \in 1..Len(l) /\ u[j] = l[i]
          BY <2>1, <2>3, <2>4
        <4> QED
          BY <2>3, <4>1 DEF ToSet
      <3> QED
        BY <1>1, <2>3, <3>1, <3>2 DEF ToSet
    <2>10. Upsert(m, a) \in Manifests
      BY <1>1, <1>2, <2>3 DEF Manifests
    <2>11. Listed(Upsert(m, a)) = Listed(m) \cup {a}
      BY <1>u, <2>7, <2>9
    <2> QED
      BY <1>1, <1>u, <2>3, <2>6, <2>7, <2>8, <2>10, <2>11 DEF l
  <1> QED
    BY <1>4, <1>5

(* The two parts a pruned list falls into. *)
LEMMA Pruned ==
  ASSUME NEW m \in Manifests, Distinct(m.artifacts), m.artifacts # << >>
  PROVE  /\ Retained(m) \in Seq(Artifacts) /\ Len(Retained(m)) <= Keep /\ Len(Retained(m)) \in Nat
         /\ Retained(m) # << >> /\ Distinct(Retained(m))
         /\ \A i \in DOMAIN Retained(m) : i \in DOMAIN m.artifacts /\ Retained(m)[i] = m.artifacts[i]
         /\ Removed(m) \in Seq(Artifacts) /\ Distinct(Removed(m))
         /\ \A i \in DOMAIN Removed(m) :
              i + Keep \in DOMAIN m.artifacts /\ Removed(m)[i] = m.artifacts[i + Keep]
         /\ ToSet(Retained(m)) \cap ToSet(Removed(m)) = {}
         /\ ToSet(Retained(m)) \cup ToSet(Removed(m)) = Listed(m)
  <1> DEFINE l == m.artifacts
  <1> DEFINE k == IF Len(l) < Keep THEN Len(l) ELSE Keep
  <1>1. /\ l \in Seq(Artifacts) /\ Len(l) \in Nat /\ Len(l) # 0 /\ DOMAIN l = 1..Len(l)
        /\ Keep \in Nat /\ Keep # 0
    BY RegistryAssumption DEF Manifests
  <1>2. Retained(m) = SubSeq(l, 1, k) /\ Removed(m) = SubSeq(l, Keep + 1, Len(l))
    BY DEF Retained, Removed
  <1> HIDE DEF l
  <1>3. /\ Retained(m) \in Seq(Artifacts) /\ Len(Retained(m)) = k /\ DOMAIN Retained(m) = 1..k
        /\ \A i \in 1..k : Retained(m)[i] = l[i]
    BY <1>1, <1>2, SubSeqProperties
  <1> DEFINE d == IF Keep < Len(l) THEN Len(l) - Keep ELSE 0
  <1>4. /\ Removed(m) \in Seq(Artifacts) /\ DOMAIN Removed(m) = 1..d
        /\ \A i \in 1..d : Removed(m)[i] = l[i + Keep]
    <2>1. \A i \in (Keep + 1)..Len(l) : l[i] \in Artifacts
      BY <1>1
    <2>2. /\ Removed(m) \in Seq(Artifacts)
          /\ Len(Removed(m)) = IF Keep + 1 <= Len(l) THEN Len(l) - (Keep + 1) + 1 ELSE 0
          /\ \A i \in 1..(Len(l) - (Keep + 1) + 1) : Removed(m)[i] = l[(Keep + 1) + i - 1]
      BY <1>1, <1>2, <2>1, SubSeqProperties
    <2>3. d = IF Keep + 1 <= Len(l) THEN Len(l) - (Keep + 1) + 1 ELSE 0
      <3>1. Keep \in Int /\ Len(l) \in Int
        BY <1>1
      <3>2. \A a, b \in Int : (IF a < b THEN b - a ELSE 0)
                                = (IF a + 1 <= b THEN b - (a + 1) + 1 ELSE 0)
        OBVIOUS
      <3> QED
        BY <3>1, <3>2
    <2>4. \A i \in 1..d : (Keep + 1) + i - 1 = i + Keep
      <3>1. Keep \in Int
        BY <1>1
      <3> HIDE DEF d
      <3> QED
        BY <3>1
    <2>5. \A i \in 1..d : i \in 1..(Len(l) - (Keep + 1) + 1)
      BY <1>1
    <2>6. Len(Removed(m)) = d
      BY <2>2, <2>3
    <2> HIDE DEF d
    <2> QED
      BY <2>2, <2>4, <2>5, <2>6
  <1>5. \A i \in 1..d : i + Keep \in 1..Len(l) /\ i + Keep > k /\ i \in Nat
    BY <1>1
  <1>6. \A i, j \in 1..Len(l) : l[i] = l[j] => i = j
    BY <1>1 DEF Distinct, l
  <1>7. Distinct(Retained(m)) /\ Distinct(Removed(m))
    <2>1. Distinct(Retained(m))
      BY <1>1, <1>3, <1>6 DEF Distinct
    <2>2. ASSUME NEW i \in 1..d, NEW j \in 1..d, Removed(m)[i] = Removed(m)[j] PROVE i = j
      <3>1. i + Keep = j + Keep
        BY <1>4, <1>5, <1>6, <2>2
      <3> QED
        BY <1>1, <1>5, <3>1
    <2> QED
      BY <1>4, <2>1, <2>2 DEF Distinct
  <1>8. ToSet(Retained(m)) \cap ToSet(Removed(m)) = {}
    <2>1. ASSUME NEW i \in 1..k, NEW j \in 1..d PROVE Retained(m)[i] # Removed(m)[j]
      <3>1. i \in 1..Len(l) /\ j + Keep \in 1..Len(l) /\ i # j + Keep
        BY <1>1, <1>5
      <3> QED
        BY <1>3, <1>4, <1>6, <3>1
    <2> QED
      BY <1>3, <1>4, <2>1 DEF ToSet
  <1>9. ToSet(Retained(m)) \cup ToSet(Removed(m)) = ToSet(l)
    <2>1. ASSUME NEW i \in 1..Len(l) PROVE l[i] \in ToSet(Retained(m)) \cup ToSet(Removed(m))
      <3>1. CASE i <= Keep
        <4>1. i \in 1..k
          BY <1>1, <3>1
        <4> QED
          BY <1>3, <4>1 DEF ToSet
      <3>2. CASE i > Keep
        <4>1. i - Keep \in 1..d /\ (i - Keep) + Keep = i
          BY <1>1, <3>2
        <4> QED
          BY <1>4, <4>1 DEF ToSet
      <3> QED
        BY <1>1, <3>1, <3>2
    <2>2. \A i \in 1..k : i \in 1..Len(l)
      BY <1>1
    <2>3. ToSet(Retained(m)) \subseteq ToSet(l)
      BY <1>1, <1>3, <2>2 DEF ToSet
    <2>4. ToSet(Removed(m)) \subseteq ToSet(l)
      BY <1>1, <1>4, <1>5 DEF ToSet
    <2> QED
      BY <1>1, <2>1, <2>3, <2>4 DEF ToSet
  <1>10. Listed(m) = ToSet(l)
    BY DEF Listed, ToSet, l
  <1>11. /\ Len(Retained(m)) <= Keep /\ Len(Retained(m)) \in Nat /\ Retained(m) # << >>
         /\ \A i \in DOMAIN Retained(m) : i \in 1..Len(l) /\ Retained(m)[i] = l[i]
    BY <1>1, <1>3
  <1>12. \A i \in DOMAIN Removed(m) : i + Keep \in 1..Len(l) /\ Removed(m)[i] = l[i + Keep]
    BY <1>4, <1>5
  <1> HIDE DEF k, d
  <1> QED
    BY <1>1, <1>3, <1>4, <1>7, <1>8, <1>9, <1>10, <1>11, <1>12 DEF l
-----------------------------------------------------------------------------
(* What TypeOK says of the variables below. *)
Types == /\ files \in [Artifacts -> {"absent", "partial", "whole"}]
         /\ stage \in [Processes -> Stages] /\ task \in [Processes -> Tasks]
         /\ draft \in [Processes -> Manifests] /\ doomed \in [Processes -> Seq(Artifacts)]
         /\ mixed \in [Processes -> BOOLEAN] /\ cache \in [Processes -> Artifacts \cup {NoArtifact}]
         /\ dumped \subseteq Artifacts /\ trained \in 0..MaxTrainings /\ crashes \in 0..MaxCrashes
         /\ model \in Artifacts \cup {NoArtifact, Torn} /\ manifest \in Manifests \cup {Torn}

LEMMA TypeFacts ==
  ASSUME IInv
  PROVE  Types /\ MaxTrainings \in Nat /\ MaxRollbacks \in Nat /\ MaxCrashes \in Nat
  BY RegistryAssumption DEF Types, IInv, TypeOK

LEMMA Constants ==
  /\ DefaultManifest \in Manifests /\ NoTask \in Tasks /\ NoArtifact \notin Artifacts
  /\ \A a \in Artifacts : [kind |-> "train", artifact |-> a] \in Tasks \ {NoTask}
  /\ \A a \in Artifacts : [kind |-> "rollback", artifact |-> a] \in Tasks \ {NoTask}
  BY RegistryAssumption DEF DefaultManifest, Manifests, NoTask, Tasks, Artifacts, NoArtifact

(* A process at work is on an artifact. *)
LEMMA SubjectType ==
  ASSUME IInv, NEW p \in Processes, stage[p] \notin Quiet
  PROVE  Subject(p) \in Artifacts /\ task[p] # NoTask /\ task[p].kind \in {"train", "rollback"}
  <1>1. task[p] \in Tasks /\ task[p] # NoTask
    BY DEF IInv, TypeOK, TaskInv, TaskOf
  <1> QED
    BY <1>1 DEF Tasks, Subject

(* What p writes to the manifest and what it prunes, when it has read it. *)
LEMMA Amending ==
  ASSUME IInv, NEW p \in Processes, AmendManifest(p)
  PROVE  /\ Upsert(manifest, Subject(p)) \in Manifests /\ Distinct(Upsert(manifest, Subject(p)).artifacts)
         /\ Sound(manifest) /\ manifest \in Manifests /\ Subject(p) \in Artifacts /\ Subject(p) \in dumped
         /\ Listed(Upsert(manifest, Subject(p))) \subseteq dumped
  <1>1. manifest \in Manifests /\ Sound(manifest)
    BY DEF AmendManifest, IInv, TypeOK, ManifestsSound
  <1>2. Subject(p) \in Artifacts /\ Subject(p) \in dumped
    BY SubjectType DEF AmendManifest, Quiet, IInv, TaskInv, TaskOf
  <1> QED
    BY <1>1, <1>2, Upserted DEF Sound

LEMMA NextType == IInv /\ [Next]_vars => TypeOK'
  <1> SUFFICES ASSUME IInv, [Next]_vars PROVE TypeOK'
    OBVIOUS
  <1>t. TypeOK
    BY DEF IInv
  <1>k. MaxTrainings \in Nat /\ MaxRollbacks \in Nat /\ MaxCrashes \in Nat
    BY RegistryAssumption
  <1>1. ASSUME NEW p \in Processes, StartTraining(p) PROVE TypeOK'
    <2>1. trained + 1 \in Artifacts /\ trained + 1 \in 0..MaxTrainings
      BY <1>1, <1>t, <1>k DEF StartTraining, TypeOK, Artifacts
    <2>2. [kind |-> "train", artifact |-> trained + 1] \in Tasks
      BY <2>1, Constants
    <2> QED
      BY <1>1, <1>t, <2>1, <2>2 DEF StartTraining, Begin, GoTo, TypeOK, Stages
  <1>2. ASSUME NEW p \in Processes, NEW a \in Artifacts, StartRollback(p, a) PROVE TypeOK'
    <2>1. [kind |-> "rollback", artifact |-> a] \in Tasks
      BY Constants
    <2> QED
      BY <1>2, <1>t, <1>k, <2>1 DEF StartRollback, Begin, GoTo, TypeOK, Stages, volume
  <1>3. ASSUME NEW p \in Processes, FinishArtifact(p) PROVE TypeOK'
    <2>1. Subject(p) \in Artifacts
      BY <1>3, SubjectType DEF FinishArtifact, Quiet
    <2> QED
      BY <1>3, <1>t, <2>1 DEF FinishArtifact, GoTo, TypeOK, Stages
  <1>4. ASSUME NEW p \in Processes, OpenModel(p) PROVE TypeOK'
    BY <1>4, <1>t DEF OpenModel, Opens, GoTo, TypeOK, Stages
  <1>5. ASSUME NEW p \in Processes, FinishModel(p) PROVE TypeOK'
    <2>1. Subject(p) \in Artifacts
      BY <1>5, SubjectType DEF FinishModel, Quiet
    <2> QED
      BY <1>5, <1>t, <2>1 DEF FinishModel, CachedOnInstall, Written, GoTo, TypeOK, Stages
  <1>6. ASSUME NEW p \in Processes, AmendManifest(p) PROVE TypeOK'
    <2> DEFINE m == Upsert(manifest, Subject(p))
    <2>1. m \in Manifests /\ m.artifacts # << >> /\ Distinct(m.artifacts)
      BY <1>6, Amending, Upserted DEF Sound
    <2> HIDE DEF m
    <2>2. [m EXCEPT !.artifacts = Retained(m)] \in Manifests /\ Removed(m) \in Seq(Artifacts)
      BY <2>1, Pruned DEF Manifests
    <2>3. /\ \E e \in Manifests : draft' = [draft EXCEPT ![p] = e]
          /\ doomed' = doomed \/ \E e \in Seq(Artifacts) : doomed' = [doomed EXCEPT ![p] = e]
          /\ \E e \in Stages : stage' = [stage EXCEPT ![p] = e]
      BY <1>6, <2>1, <2>2 DEF AmendManifest, GoTo, GoOn, Stages, m
    <2>4. UNCHANGED << volume, task, mixed, cache, trained, rollbacks, crashes, dumped, overlapped >>
      BY <1>6 DEF AmendManifest
    <2> QED
      BY <1>t, <2>3, <2>4 DEF TypeOK, volume
  <1>7. ASSUME NEW p \in Processes, ReadFails(p) \/ RemoveFails(p) \/ Report(p) PROVE TypeOK'
    <2>1. /\ End(p)
          /\ UNCHANGED << volume, cache, trained, rollbacks, crashes, dumped, overlapped >>
      BY <1>7 DEF ReadFails, RemoveFails, Report
    <2> QED
      BY <1>t, <2>1, Constants DEF End, Forget, GoTo, TypeOK, Stages, volume
  <1>8. ASSUME NEW p \in Processes, CheckDoomed(p) \/ RemoveDoomed(p) PROVE TypeOK'
    <2>1. doomed[p] \in Seq(Artifacts) /\ doomed[p] # << >>
      BY <1>8 DEF CheckDoomed, RemoveDoomed, IInv, TypeOK, TaskInv, TaskOf
    <2>2. Tail(doomed[p]) \in Seq(Artifacts) /\ Head(doomed[p]) \in Artifacts
      BY <2>1
    <2>3. /\ doomed' = doomed \/ \E e \in Seq(Artifacts) : doomed' = [doomed EXCEPT ![p] = e]
          /\ \E e \in Stages : stage' = [stage EXCEPT ![p] = e]
          /\ files' = files \/ \E a \in Artifacts : files' = [files EXCEPT ![a] = "absent"]
      BY <1>8, <2>2 DEF CheckDoomed, RemoveDoomed, GoOn, GoTo, Stages, volume
    <2>4. UNCHANGED << model, manifest, task, draft, mixed, cache, trained, rollbacks, crashes, dumped, overlapped >>
      BY <1>8 DEF CheckDoomed, RemoveDoomed, volume
    <2>5. files' \in [Artifacts -> {"absent", "partial", "whole"}]
      BY <1>t, <2>3 DEF TypeOK
    <2>6. doomed' \in [Processes -> Seq(Artifacts)]
      BY <1>t, <2>3 DEF TypeOK
    <2>7. stage' \in [Processes -> Stages]
      BY <1>t, <2>3 DEF TypeOK
    <2> QED
      BY <1>t, <2>4, <2>5, <2>6, <2>7 DEF TypeOK
  <1>9. ASSUME NEW p \in Processes, OpenManifest(p) PROVE TypeOK'
    BY <1>9, <1>t DEF OpenManifest, Opens, GoTo, TypeOK, Stages
  <1>10. ASSUME NEW p \in Processes, FinishTraining(p) \/ FinishRollback(p) PROVE TypeOK'
    <2>1. Subject(p) \in Artifacts
      BY <1>10, SubjectType DEF FinishTraining, FinishRollback, Quiet
    <2>2. manifest' \in Manifests \cup {Torn}
      BY <1>10, <1>t DEF FinishTraining, FinishRollback, Written, TypeOK
    <2>3. CASE FinishTraining(p)
      BY <2>3, <1>t, <2>1, <2>2, Constants DEF FinishTraining, End, Forget, GoTo, TypeOK, Stages
    <2>4. CASE FinishRollback(p)
      BY <2>4, <1>t, <2>1, <2>2 DEF FinishRollback, GoTo, TypeOK, Stages
    <2> QED
      BY <1>10, <2>3, <2>4
  <1>11. ASSUME NEW p \in Processes, Boot(p) \/ LoadModel(p) PROVE TypeOK'
    <2>1. /\ \E e \in Artifacts \cup {NoArtifact} : cache' = [cache EXCEPT ![p] = e]
          /\ stage' = stage \/ \E e \in Stages : stage' = [stage EXCEPT ![p] = e]
      BY <1>11, <1>t DEF Boot, LoadModel, GoTo, TypeOK, Stages
    <2>2. UNCHANGED << volume, task, draft, doomed, mixed, trained, rollbacks, crashes, dumped, overlapped >>
      BY <1>11 DEF Boot, LoadModel
    <2> QED
      BY <1>t, <2>1, <2>2 DEF TypeOK, volume
  <1>12. ASSUME NEW p \in Processes, ProcessDies(p) PROVE TypeOK'
    BY <1>12, <1>t, <1>k, Constants DEF ProcessDies, Forget, GoTo, TypeOK, Stages, volume
  <1>13. CASE UNCHANGED vars
    BY <1>13, <1>t DEF vars, TypeOK
  <1> QED
    BY <1>1, <1>2, <1>3, <1>4, <1>5, <1>6, <1>7, <1>8, <1>9, <1>10, <1>11, <1>12, <1>13
    DEF Next, Continue

(* Where manifests, and what the processes hold of them, come from. *)
LEMMA ManifestSteps ==
  ASSUME IInv, [Next]_vars
  PROVE  /\ dumped \subseteq dumped'
         /\ manifest' \in {manifest, Torn} \/ \E p \in Processes : manifest' = draft[p]
         /\ \A q \in Processes : draft'[q] \in {draft[q], DefaultManifest} \/ Sound(draft'[q])
  <1>t. draft \in [Processes -> Manifests]
    BY TypeFacts DEF Types
  <1>1. ASSUME NEW p \in Processes, StartTraining(p) \/ Boot(p) \/ LoadModel(p)
                                    \/ \E a \in Artifacts : StartRollback(p, a)
        PROVE  UNCHANGED << dumped, manifest, draft >>
    BY <1>1 DEF StartTraining, StartRollback, Boot, LoadModel, volume
  <1>2. ASSUME NEW p \in Processes, FinishArtifact(p) \/ OpenModel(p) \/ FinishModel(p)
        PROVE  dumped \subseteq dumped' /\ UNCHANGED << manifest, draft >>
    BY <1>2 DEF FinishArtifact, OpenModel, FinishModel
  <1>3. ASSUME NEW p \in Processes, CheckDoomed(p) \/ RemoveDoomed(p) \/ OpenManifest(p)
        PROVE  UNCHANGED << dumped, draft >> /\ manifest' \in {manifest, Torn}
    BY <1>3 DEF CheckDoomed, RemoveDoomed, OpenManifest, volume
  <1>4. ASSUME NEW p \in Processes, ReadFails(p) \/ RemoveFails(p) \/ Report(p) \/ ProcessDies(p)
        PROVE  /\ UNCHANGED << dumped, manifest >>
               /\ draft' = [draft EXCEPT ![p] = DefaultManifest]
    BY <1>4 DEF ReadFails, RemoveFails, Report, ProcessDies, End, Forget, volume
  <1>5. ASSUME NEW p \in Processes, FinishTraining(p) \/ FinishRollback(p)
        PROVE  /\ dumped' = dumped /\ manifest' \in {draft[p], Torn}
               /\ draft' = draft \/ draft' = [draft EXCEPT ![p] = DefaultManifest]
    BY <1>5 DEF FinishTraining, FinishRollback, Written, End, Forget
  <1>6. ASSUME NEW p \in Processes, AmendManifest(p)
        PROVE  /\ UNCHANGED << dumped, manifest >>
               /\ \E m : Sound(m) /\ draft' = [draft EXCEPT ![p] = m]
    <2> DEFINE m == Upsert(manifest, Subject(p))
    <2>1. /\ m \in Manifests /\ m.artifacts # << >> /\ Distinct(m.artifacts) /\ m.active = m.artifacts[1]
          /\ Listed(m) \subseteq dumped
      BY <1>6, Amending, Upserted DEF Sound
    <2> HIDE DEF m
    <2> DEFINE k == [m EXCEPT !.artifacts = Retained(m)]
    <2>2. Sound(m)
      BY <2>1 DEF Sound
    <2>3. Sound(k)
      <3>1. k.artifacts = Retained(m) /\ k.active = m.active
        BY <2>1 DEF Manifests
      <3>2. /\ Retained(m) # << >> /\ Distinct(Retained(m)) /\ 1 \in DOMAIN Retained(m)
            /\ Retained(m)[1] = m.artifacts[1] /\ ToSet(Retained(m)) \subseteq Listed(m)
        BY <2>1, Pruned
      <3>3. Listed(k) = ToSet(Retained(m))
        BY <3>1 DEF Listed, ToSet
      <3> HIDE DEF k
      <3> QED
        BY <2>1, <3>1, <3>2, <3>3 DEF Sound
    <2>4. draft' = [draft EXCEPT ![p] = k] \/ draft' = [draft EXCEPT ![p] = m]
      BY <1>6 DEF AmendManifest, m
    <2> HIDE DEF k
    <2> QED
      BY <1>6, <2>2, <2>3, <2>4 DEF AmendManifest, volume
  <1>7. CASE UNCHANGED vars
    BY <1>7 DEF vars
  <1> QED
    BY <1>t, <1>1, <1>2, <1>3, <1>4, <1>5, <1>6, <1>7 DEF Next, Continue

LEMMA NextSound == IInv /\ [Next]_vars => ManifestsSound'
  <1> SUFFICES ASSUME IInv, [Next]_vars PROVE ManifestsSound'
    OBVIOUS
  <1>1. (manifest # Torn => Sound(manifest)) /\ \A q \in Processes : Sound(draft[q])
    BY DEF IInv, ManifestsSound
  <1>2. Sound(DefaultManifest)
    BY DEF Sound, DefaultManifest, Distinct, Listed
  <1>3. dumped \subseteq dumped'
    BY ManifestSteps
  <1>5. ASSUME manifest' # Torn PROVE Sound(manifest')
    BY <1>1, <1>5, ManifestSteps
  <1>6. ASSUME NEW q \in Processes PROVE Sound(draft'[q])
    BY <1>1, <1>2, ManifestSteps
  <1>7. ASSUME manifest' # Torn PROVE Sound(manifest)'
    BY <1>3, <1>5, <1>7 DEF Sound, Distinct, Listed
  <1>8. ASSUME NEW q \in Processes PROVE Sound(draft[q])'
    BY <1>3, <1>6 DEF Sound, Distinct, Listed
  <1> QED
    BY <1>7, <1>8 DEF ManifestsSound

(* A step of p. *)
Step(p) ==
    \/ StartTraining(p)
    \/ \E a \in Artifacts : StartRollback(p, a)
    \/ Continue(p) \/ Boot(p) \/ LoadModel(p) \/ ProcessDies(p)

(* It leaves what the other processes are at alone. *)
LEMMA OthersStay ==
  ASSUME IInv, NEW p \in Processes, Step(p), NEW q \in Processes, q # p
  PROVE  /\ stage'[q] = stage[q] /\ task'[q] = task[q] /\ draft'[q] = draft[q]
         /\ doomed'[q] = doomed[q] /\ cache'[q] = cache[q]
  <1>t. Types
    BY TypeFacts
  <1> USE DEF GoTo, volume
  <1>1. CASE StartTraining(p) \/ Boot(p) \/ LoadModel(p) \/ \E a \in Artifacts : StartRollback(p, a)
    BY <1>1, <1>t DEF StartTraining, StartRollback, Begin, Boot, LoadModel, Types
  <1>2. CASE FinishArtifact(p) \/ OpenModel(p) \/ FinishModel(p)
    BY <1>2, <1>t DEF FinishArtifact, OpenModel, FinishModel, CachedOnInstall, Types
  <1>3. CASE CheckDoomed(p) \/ RemoveDoomed(p) \/ OpenManifest(p)
    BY <1>3, <1>t DEF CheckDoomed, RemoveDoomed, GoOn, OpenManifest, Types
  <1>4. CASE ReadFails(p) \/ RemoveFails(p) \/ Report(p) \/ ProcessDies(p)
    BY <1>4, <1>t DEF ReadFails, RemoveFails, Report, ProcessDies, End, Forget, Types
  <1>5. CASE FinishTraining(p) \/ FinishRollback(p)
    BY <1>5, <1>t DEF FinishTraining, FinishRollback, End, Forget, Types
  <1>6. CASE AmendManifest(p)
    <2>1. /\ stage' = [stage EXCEPT ![p] = stage'[p]] /\ draft' = [draft EXCEPT ![p] = draft'[p]]
          /\ doomed' = [doomed EXCEPT ![p] = doomed'[p]] /\ UNCHANGED << task, cache >>
      BY <1>6, <1>t DEF AmendManifest, GoOn, Types
    <2> QED
      BY <2>1, <1>t DEF Types
  <1> QED
    BY <1>1, <1>2, <1>3, <1>4, <1>5, <1>6 DEF Step, Continue

(* When the operation of p is over or cut short. *)
Over(p) ==
    /\ stage'[p] \in Quiet /\ task'[p] = NoTask /\ doomed'[p] = << >> /\ draft'[p] = DefaultManifest

LEMMA Ends ==
  ASSUME IInv, NEW p \in Processes,
         ReadFails(p) \/ RemoveFails(p) \/ Report(p) \/ FinishTraining(p) \/ ProcessDies(p)
  PROVE  Over(p)
  <1>t. Types
    BY TypeFacts
  <1>1. GoTo(p, "idle") \/ GoTo(p, "booting")
    BY DEF ReadFails, RemoveFails, Report, FinishTraining, ProcessDies, End
  <1>2. Forget(p)
    BY DEF ReadFails, RemoveFails, Report, FinishTraining, ProcessDies, End
  <1> QED
    BY <1>t, <1>1, <1>2 DEF Types, GoTo, Forget, Over, Quiet

(* What amending the manifest leaves p with. *)
LEMMA Amends ==
  ASSUME IInv, NEW p \in Processes, AmendManifest(p)
  PROVE  LET u == Upsert(manifest, Subject(p)) IN
         /\ UNCHANGED << files, model, manifest, task, mixed, cache, trained, rollbacks, crashes, dumped, overlapped >>
         /\ draft'[p].artifacts # << >> /\ draft'[p].active = Subject(p)
         /\ IF Training(p)
            THEN /\ draft'[p].artifacts = Retained(u) /\ doomed'[p] = Removed(u)
                 /\ stage'[p] = IF Removed(u) = << >> THEN "pruned" ELSE "pruning"
            ELSE draft'[p] = u /\ doomed'[p] = doomed[p] /\ stage'[p] = "pruned"
  <1>t. Types
    BY TypeFacts
  <1> DEFINE m == Upsert(manifest, Subject(p))
  <1>1. m \in Manifests /\ m.artifacts # << >> /\ m.active = Subject(p) /\ Distinct(m.artifacts)
    BY Amending, Upserted DEF Sound
  <1>2. Retained(m) # << >>
    BY <1>1, Pruned
  <1>3. /\ UNCHANGED << files, model, manifest, task, mixed, cache, trained, rollbacks, crashes, dumped, overlapped >>
        /\ IF Training(p)
           THEN /\ draft' = [draft EXCEPT ![p] = [m EXCEPT !.artifacts = Retained(m)]]
                /\ doomed' = [doomed EXCEPT ![p] = Removed(m)]
                /\ GoOn(p, Removed(m))
           ELSE draft' = [draft EXCEPT ![p] = m] /\ GoTo(p, "pruned") /\ UNCHANGED doomed
    BY DEF AmendManifest, volume
  <1> HIDE DEF m
  <1>4. /\ [m EXCEPT !.artifacts = Retained(m)].artifacts = Retained(m)
        /\ [m EXCEPT !.artifacts = Retained(m)].active = m.active
    BY <1>1 DEF Manifests
  <1>5. Training(p) => /\ draft'[p].artifacts = Retained(m) /\ doomed'[p] = Removed(m) /\ draft'[p].active = Subject(p)
                       /\ stage'[p] = IF Removed(m) = << >> THEN "pruned" ELSE "pruning"
    BY <1>t, <1>1, <1>3, <1>4 DEF Types, GoOn, GoTo
  <1>6. ~Training(p) => draft'[p] = m /\ doomed'[p] = doomed[p] /\ stage'[p] = "pruned"
    BY <1>t, <1>3 DEF Types, GoTo
  <1> QED
    BY <1>1, <1>2, <1>3, <1>5, <1>6 DEF m

LEMMA NextTask == IInv /\ [Next]_vars => TaskInv'
  <1> SUFFICES ASSUME IInv, [Next]_vars, NEW q \in Processes PROVE TaskOf(q)'
    BY DEF TaskInv
  <1>t. Types /\ TaskOf(q) /\ dumped \subseteq dumped'
    BY TypeFacts, ManifestSteps DEF IInv, TaskInv
  <1> USE DEF Subject, Training
  <1>0. ASSUME NEW p \in Processes, Step(p), q # p PROVE TaskOf(q)'
    BY <1>0, <1>t, OthersStay DEF TaskOf
  <1>1. ASSUME StartTraining(q) PROVE TaskOf(q)'
    <2>1. trained + 1 \in Artifacts
      BY <1>1, <1>t, TypeFacts DEF StartTraining, Types, Artifacts
    <2>2. /\ stage[q] = "idle" /\ stage'[q] = "dumping" /\ task'[q] = [kind |-> "train", artifact |-> trained + 1]
          /\ doomed' = doomed
      BY <1>1, <1>t DEF StartTraining, Begin, GoTo, Types
    <2>3. task'[q] # NoTask /\ task'[q].kind = "train"
      BY <2>1, <2>2, Constants
    <2> QED
      BY <1>t, <2>2, <2>3 DEF TaskOf, Quiet
  <1>2. ASSUME NEW a \in Artifacts, StartRollback(q, a) PROVE TaskOf(q)'
    <2>1. /\ stage[q] = "idle" /\ stage'[q] = "dumped" /\ task'[q] = [kind |-> "rollback", artifact |-> a]
          /\ UNCHANGED << doomed, dumped >>
      BY <1>2, <1>t DEF StartRollback, Begin, GoTo, Types
    <2>2. task'[q] # NoTask /\ task'[q].artifact = a
      BY <2>1, Constants
    <2>3. a \in dumped
      BY <1>2 DEF StartRollback, IInv, FilesInv
    <2> QED
      BY <1>t, <2>1, <2>2, <2>3 DEF TaskOf, Quiet
  <1>3. ASSUME FinishArtifact(q) \/ OpenModel(q) \/ FinishModel(q) PROVE TaskOf(q)'
    BY <1>3, <1>t DEF FinishArtifact, OpenModel, FinishModel, GoTo, Types, TaskOf, Quiet
  <1>4. ASSUME AmendManifest(q) PROVE TaskOf(q)'
    <2>1. /\ stage[q] = "installed" /\ UNCHANGED << task, dumped >>
          /\ draft'[q].artifacts # << >> /\ draft'[q].active = Subject(q)
      BY <1>4, Amends DEF AmendManifest
    <2>2. \/ Training(q) /\ stage'[q] = IF doomed'[q] = << >> THEN "pruned" ELSE "pruning"
          \/ ~Training(q) /\ doomed'[q] = doomed[q] /\ stage'[q] = "pruned"
      <3>1. CASE Training(q)
        BY <1>4, <3>1, Amends
      <3>2. CASE ~Training(q)
        BY <1>4, <3>2, Amends
      <3> QED
        BY <3>1, <3>2
    <2> QED
      BY <1>t, <2>1, <2>2 DEF TaskOf, Quiet
  <1>5. ASSUME CheckDoomed(q) \/ RemoveDoomed(q) PROVE TaskOf(q)'
    <2>1. /\ stage[q] \in {"pruning", "removing"} /\ UNCHANGED << task, draft, dumped >>
          /\ \/ stage'[q] = "removing" /\ doomed'[q] = doomed[q]
             \/ stage'[q] = IF doomed'[q] = << >> THEN "pruned" ELSE "pruning"
      BY <1>5, <1>t DEF CheckDoomed, RemoveDoomed, GoOn, GoTo, Types
    <2> QED
      BY <1>t, <2>1 DEF TaskOf, Quiet
  <1>6. ASSUME OpenManifest(q) \/ FinishRollback(q) PROVE TaskOf(q)'
    BY <1>6, <1>t DEF OpenManifest, FinishRollback, GoTo, Types, TaskOf, Quiet
  <1>7. ASSUME ReadFails(q) \/ RemoveFails(q) \/ Report(q) \/ FinishTraining(q) \/ ProcessDies(q) PROVE TaskOf(q)'
    BY <1>7, <1>t, Ends DEF Over, TaskOf, Quiet
  <1>8. ASSUME Boot(q) \/ LoadModel(q) PROVE TaskOf(q)'
    BY <1>8, <1>t DEF Boot, LoadModel, GoTo, Types, TaskOf, Quiet
  <1>9. CASE UNCHANGED vars
    BY <1>9, <1>t DEF vars, TaskOf
  <1> QED
    BY <1>0, <1>1, <1>2, <1>3, <1>4, <1>5, <1>6, <1>7, <1>8, <1>9 DEF Next, Continue, Step

(* What a step of p that begins nothing and completes no file does to files and tasks. *)
FilesStay(p) ==
    /\ UNCHANGED << trained, dumped >>
    /\ files' = files \/ \E a \in Artifacts : files' = [files EXCEPT ![a] = "absent"]
    /\ task'[p] \in {task[p], NoTask} /\ stage'[p] # "dumping"

LEMMA FilesSteps ==
  ASSUME IInv, NEW p \in Processes, Step(p)
  PROVE  \/ StartTraining(p)
         \/ \E a \in Artifacts : StartRollback(p, a)
         \/ FinishArtifact(p)
         \/ FilesStay(p)
  <1>t. Types
    BY TypeFacts
  <1>1. CASE OpenModel(p) \/ FinishModel(p) \/ OpenManifest(p) \/ FinishRollback(p) \/ Boot(p)
    BY <1>1, <1>t DEF OpenModel, FinishModel, OpenManifest, FinishRollback, Boot, GoTo, Types, volume, FilesStay
  <1>2. CASE LoadModel(p)
    BY <1>2 DEF LoadModel, volume, FilesStay
  <1>3. CASE AmendManifest(p)
    BY <1>3, <1>t DEF AmendManifest, GoOn, GoTo, Types, volume, FilesStay
  <1>4. CASE CheckDoomed(p) \/ RemoveDoomed(p)
    <2>1. doomed[p] \in Seq(Artifacts) /\ doomed[p] # << >>
      BY <1>4, <1>t DEF CheckDoomed, RemoveDoomed, IInv, Types, TaskInv, TaskOf
    <2>2. Head(doomed[p]) \in Artifacts
      BY <2>1
    <2>3. /\ files' = files \/ files' = [files EXCEPT ![Head(doomed[p])] = "absent"]
          /\ UNCHANGED << trained, dumped, task >>
      BY <1>4 DEF CheckDoomed, RemoveDoomed, volume
    <2>4. stage'[p] # "dumping"
      BY <1>4, <1>t DEF CheckDoomed, RemoveDoomed, GoOn, GoTo, Types
    <2> QED
      BY <2>2, <2>3, <2>4 DEF FilesStay
  <1>5. CASE ReadFails(p) \/ RemoveFails(p) \/ Report(p) \/ FinishTraining(p) \/ ProcessDies(p)
    <2>1. UNCHANGED << files, trained, dumped >>
      BY <1>5 DEF ReadFails, RemoveFails, Report, FinishTraining, ProcessDies, volume
    <2> QED
      BY <1>5, <2>1, Ends DEF Over, Quiet, FilesStay
  <1> QED
    BY <1>1, <1>2, <1>3, <1>4, <1>5 DEF Step, Continue

LEMMA NextFiles == IInv /\ [Next]_vars => FilesInv'
  <1> SUFFICES ASSUME IInv, [Next]_vars PROVE FilesInv'
    OBVIOUS
  <1>t. Types /\ FilesInv /\ MaxTrainings \in Nat
    BY TypeFacts DEF IInv
  <1>s. \A p \in Processes : stage[p] \notin Quiet => Subject(p) \in Artifacts /\ task[p] # NoTask
    BY SubjectType
  <1>n. \A p \in Processes : Training(p) => task[p] # NoTask
    BY DEF Training, NoTask
  <1>1. ASSUME NEW p \in Processes, StartTraining(p) PROVE FilesInv'
    <2> DEFINE new == trained + 1
    <2>1. new \in Artifacts /\ trained \in Nat
      BY <1>1, <1>t DEF StartTraining, Types, Artifacts
    <2>2. /\ trained' = new /\ files' = [files EXCEPT ![new] = "partial"] /\ dumped' = dumped
          /\ stage' = [stage EXCEPT ![p] = "dumping"]
          /\ task' = [task EXCEPT ![p] = [kind |-> "train", artifact |-> new]]
      BY <1>1 DEF StartTraining, Begin, GoTo
    <2>3. task'[p].artifact = new /\ \A q \in Processes : q # p => task'[q] = task[q] /\ stage'[q] = stage[q]
      BY <1>t, <2>2 DEF Types
    <2>4. \A a \in Artifacts : a > new => files'[a] = "absent" /\ a \notin dumped'
      BY <1>t, <2>1, <2>2 DEF Types, FilesInv, Artifacts
    <2>5. \A a \in Artifacts : files'[a] = "whole" => a \in dumped'
      BY <1>t, <2>1, <2>2 DEF Types, FilesInv
    <2>6. ASSUME NEW q \in Processes, task'[q] # NoTask PROVE Subject(q)' <= new
      <3>1. q # p => Subject(q) <= trained /\ Subject(q) \in Nat
        <4>1. task[q] \in Tasks
          BY <1>t DEF Types
        <4> QED
          BY <1>t, <2>3, <2>6, <4>1 DEF FilesInv, Subject, Tasks, Artifacts, NoTask, NoArtifact
      <3> QED
        BY <2>1, <2>3, <3>1 DEF Subject
    <2>7. new \notin dumped
      BY <1>t, <2>1 DEF FilesInv
    <2>8. \A q \in Processes : q # p /\ task[q] # NoTask => Subject(q) # new
      <3>1. \A q \in Processes : task[q] # NoTask => Subject(q) <= trained
        BY <1>t DEF FilesInv
      <3>2. \A x : x = new => ~(x <= trained)
        BY <2>1
      <3> QED
        BY <3>1, <3>2
    <2>9. \A q \in Processes : stage'[q] = "dumping" => Subject(q)' \notin dumped'
      BY <1>t, <2>2, <2>3, <2>7 DEF FilesInv, Subject
    <2>10. ASSUME NEW q \in Processes, NEW r \in Processes, stage'[q] = "dumping", Training(r)',
                  Subject(q)' = Subject(r)'
           PROVE  q = r
      <3>1. q # p => stage[q] = "dumping" /\ task[q] # NoTask /\ Subject(q)' = Subject(q)
        BY <1>s, <2>3, <2>10 DEF Subject, Quiet
      <3>2. r # p => Training(r) /\ task[r] # NoTask /\ Subject(r)' = Subject(r)
        BY <1>n, <2>3, <2>10 DEF Subject, Training
      <3>3. Subject(p)' = new
        BY <2>3 DEF Subject
      <3> HIDE DEF new
      <3> QED
        BY <1>t, <2>8, <2>10, <3>1, <3>2, <3>3 DEF FilesInv
    <2> HIDE DEF new
    <2> QED
      BY <2>2, <2>4, <2>5, <2>6, <2>9, <2>10 DEF FilesInv
  <1>2. ASSUME NEW p \in Processes, NEW a \in Artifacts, StartRollback(p, a) PROVE FilesInv'
    <2>1. /\ UNCHANGED << files, trained, dumped >> /\ files[a] = "whole"
          /\ stage' = [stage EXCEPT ![p] = "dumped"]
          /\ task' = [task EXCEPT ![p] = [kind |-> "rollback", artifact |-> a]]
      BY <1>2 DEF StartRollback, Begin, GoTo, volume
    <2>2. /\ Subject(p)' = a /\ ~Training(p)' /\ stage'[p] = "dumped"
          /\ \A q \in Processes : q # p => task'[q] = task[q] /\ stage'[q] = stage[q]
      BY <1>t, <2>1 DEF Types, Subject, Training
    <2>3. a <= trained
      BY <1>t, <2>1 DEF Types, FilesInv, Artifacts
    <2> QED
      BY <1>t, <2>1, <2>2, <2>3 DEF FilesInv, Subject, Training
  <1>3. ASSUME NEW p \in Processes, FinishArtifact(p) PROVE FilesInv'
    <2>1. /\ stage[p] = "dumping" /\ files' = [files EXCEPT ![Subject(p)] = "whole"]
          /\ dumped' = dumped \cup {Subject(p)} /\ stage' = [stage EXCEPT ![p] = "dumped"]
          /\ UNCHANGED << task, trained >>
      BY <1>3 DEF FinishArtifact, GoTo
    <2>2. Subject(p) \in Artifacts /\ Subject(p) <= trained /\ Training(p)
      BY <1>s, <1>t, <2>1 DEF Quiet, FilesInv, IInv, TaskInv, TaskOf
    <2>3. \A a \in Artifacts : a > trained' => files'[a] = "absent" /\ a \notin dumped'
      BY <1>t, <2>1, <2>2 DEF Types, FilesInv, Artifacts
    <2>4. \A a \in Artifacts : files'[a] = "whole" => a \in dumped'
      BY <1>t, <2>1, <2>2 DEF Types, FilesInv
    <2>5. \A q \in Processes : stage'[q] = "dumping" => q # p /\ stage[q] = "dumping"
      BY <1>t, <2>1 DEF Types
    <2>6. \A q \in Processes : stage'[q] = "dumping" => Subject(q)' \notin dumped'
      BY <1>t, <2>1, <2>2, <2>5 DEF FilesInv, Subject
    <2> QED
      BY <1>t, <2>1, <2>3, <2>4, <2>5, <2>6 DEF FilesInv, Subject, Training
  <1>4. ASSUME NEW p \in Processes, Step(p), FilesStay(p) PROVE FilesInv'
    <2>1. \A q \in Processes : q # p => task'[q] = task[q] /\ stage'[q] = stage[q]
      BY <1>4, OthersStay
    <2>2. \A q \in Processes : /\ task'[q] \in {task[q], NoTask}
                               /\ stage'[q] = "dumping" => stage[q] = "dumping" /\ task'[q] = task[q]
      BY <1>4, <2>1 DEF FilesStay
    <2>3. \A a \in Artifacts : files'[a] \in {files[a], "absent"}
      BY <1>4, <1>t DEF FilesStay, Types
    <2>4. \A q \in Processes : Training(q)' => task'[q] = task[q]
      BY <2>2 DEF Training, NoTask
    <2> QED
      BY <1>4, <1>t, <2>2, <2>3, <2>4 DEF FilesStay, FilesInv, Subject, Training
  <1>5. CASE UNCHANGED vars
    BY <1>5, <1>t DEF vars, FilesInv, Subject, Training
  <1> QED
    BY <1>1, <1>2, <1>3, <1>4, <1>5, FilesSteps DEF Next, Step

LEMMA NextUsed == IInv /\ [Next]_vars => UsedInv'
  <1> SUFFICES ASSUME IInv, [Next]_vars PROVE UsedInv'
    OBVIOUS
  <1>t. Types /\ dumped \subseteq dumped' /\ UsedInv
    BY TypeFacts, ManifestSteps DEF IInv
  <1>s. \A p \in Processes : stage[p] \notin Quiet \cup {"dumping"} => Subject(p) \in dumped
    BY DEF IInv, TaskInv, TaskOf
  <1>1. ASSUME NEW p \in Processes, Step(p)
        PROVE  /\ model' \in {model, Torn} \/ model' \in dumped
               /\ cache'[p] \in {cache[p], NoArtifact} \/ cache'[p] \in dumped
    <2>1. CASE OpenModel(p) \/ FinishArtifact(p) \/ StartTraining(p) \/ \E a \in Artifacts : StartRollback(p, a)
      BY <2>1 DEF OpenModel, FinishArtifact, StartTraining, StartRollback, volume
    <2>2. CASE FinishModel(p)
      BY <2>2, <1>t, <1>s DEF FinishModel, Written, CachedOnInstall, Types, Quiet
    <2>3. CASE AmendManifest(p) \/ CheckDoomed(p) \/ RemoveDoomed(p) \/ OpenManifest(p)
      BY <2>3 DEF AmendManifest, CheckDoomed, RemoveDoomed, OpenManifest, volume
    <2>4. CASE ReadFails(p) \/ RemoveFails(p) \/ Report(p) \/ FinishRollback(p)
      BY <2>4 DEF ReadFails, RemoveFails, Report, FinishRollback, volume
    <2>5. CASE FinishTraining(p)
      BY <2>5, <1>t, <1>s DEF FinishTraining, Types, Quiet
    <2>6. CASE ProcessDies(p)
      BY <2>6, <1>t DEF ProcessDies, Types, volume
    <2>7. CASE Boot(p) \/ LoadModel(p)
      BY <2>7, <1>t DEF Boot, LoadModel, Types, volume, UsedInv
    <2> QED
      BY <1>1, <2>1, <2>2, <2>3, <2>4, <2>5, <2>6, <2>7 DEF Step, Continue
  <1>2. ASSUME NEW p \in Processes, Step(p) PROVE UsedInv'
    <2>1. \A q \in Processes : cache'[q] \in {cache[q], NoArtifact} \/ cache'[q] \in dumped
      BY <1>1, <1>2, OthersStay
    <2> QED
      BY <1>1, <1>2, <1>t, <2>1 DEF UsedInv
  <1>3. CASE UNCHANGED vars
    BY <1>3, <1>t DEF vars, UsedInv
  <1> QED
    BY <1>2, <1>3 DEF Next, Step
-----------------------------------------------------------------------------
(* Sets of artifacts are finite. *)
LEMMA ArtifactSets ==
  ASSUME NEW S \in SUBSET Artifacts
  PROVE  IsFiniteSet(S) /\ Cardinality(S) \in Nat
  <1>1. IsFiniteSet(Artifacts)
    BY RegistryAssumption, FS_Interval DEF Artifacts
  <1> QED
    BY <1>1, FS_Subset, FS_CardinalityType

LEMMA Smaller ==
  ASSUME NEW T \in SUBSET Artifacts, NEW S \in SUBSET T
  PROVE  Cardinality(S) <= Cardinality(T) /\ Cardinality(S) \in Nat /\ Cardinality(T) \in Nat
  BY ArtifactSets, FS_Subset

LEMMA OneLess ==
  ASSUME NEW T \in SUBSET Artifacts, NEW a
  PROVE  /\ Cardinality(T) \in Nat /\ Cardinality(T \ {a}) \in Nat
         /\ Cardinality(T) <= Cardinality(T \ {a}) + 1
         /\ a \in T => Cardinality(T \ {a}) = Cardinality(T) - 1
  BY ArtifactSets, FS_RemoveElement

LEMMA SurplusType ==
  ASSUME NEW m \in Manifests
  PROVE  /\ Surplus(m) \in Nat /\ Len(m.artifacts) \in Nat /\ DOMAIN m.artifacts = 1..Len(m.artifacts)
         /\ Listed(m) \subseteq Artifacts /\ Keep \in Nat /\ Keep # 0
  <1>1. /\ m.artifacts \in Seq(Artifacts) /\ Len(m.artifacts) \in Nat
        /\ DOMAIN m.artifacts = 1..Len(m.artifacts) /\ Keep \in Nat /\ Keep # 0
    BY RegistryAssumption DEF Manifests
  <1> QED
    BY <1>1 DEF Surplus, Listed

(* When only entries from position Keep on lack a file, they are not many. *)
LEMMA FewMissing ==
  ASSUME NEW m \in Manifests, Types,
         \A i \in DOMAIN m.artifacts : m.artifacts[i] \notin Stored => i >= Keep
  PROVE  Cardinality(Listed(m) \ Stored) <= Surplus(m) + 1
  <1> DEFINE l == m.artifacts
  <1> DEFINE late == Keep..Len(l)
  <1>1. /\ Len(l) \in Nat /\ DOMAIN l = 1..Len(l) /\ Keep \in Nat /\ Keep # 0
        /\ Listed(m) \subseteq Artifacts /\ Surplus(m) \in Nat
    BY SurplusType
  <1>2. Listed(m) \ Stored \subseteq { l[i] : i \in late }
    BY <1>1 DEF Listed
  <1>3. IsFiniteSet(late) /\ Cardinality(late) <= Surplus(m) + 1
    <2>1. Keep \in Int /\ Len(l) \in Int
      BY <1>1
    <2>2. IsFiniteSet(late) /\ Cardinality(late) = IF Keep > Len(l) THEN 0 ELSE Len(l) - Keep + 1
      BY <2>1, FS_Interval
    <2>3. Surplus(m) = IF Len(l) > Keep THEN Len(l) - Keep ELSE 0
      BY DEF Surplus
    <2> HIDE DEF l, late
    <2> QED
      BY <1>1, <2>2, <2>3
  <1>4. /\ IsFiniteSet({ l[i] : i \in late })
        /\ Cardinality({ l[i] : i \in late }) <= Cardinality(late)
    <2> DEFINE f == [i \in late |-> l[i]]
    <2>1. f \in Surjection(late, { l[i] : i \in late })
      BY DEF Surjection
    <2> QED
      BY <1>3, <2>1, FS_Surjection
  <1>5. Cardinality(Listed(m) \ Stored) <= Cardinality({ l[i] : i \in late })
    BY <1>2, <1>4, FS_Subset
  <1>6. /\ Cardinality(Listed(m) \ Stored) \in Nat /\ Cardinality(late) \in Nat
        /\ Cardinality({ l[i] : i \in late }) \in Nat
    BY <1>1, <1>3, <1>4, ArtifactSets, FS_CardinalityType
  <1> QED
    BY <1>1, <1>3, <1>4, <1>5, <1>6

(* What is not listed yet is settled with one crash more. *)
LEMMA UnlistedSettles ==
  ASSUME Types, NEW p \in Processes, manifest \in Manifests, Unlisted(p),
         crashes' = crashes + 1, UNCHANGED << files, manifest >>
  PROVE  Settled(manifest)'
  <1>1. Stored' = Stored /\ Listed(manifest)' = Listed(manifest) /\ Surplus(manifest)' = Surplus(manifest)
    BY DEF Stored, Listed, Surplus
  <1>2. Stored \subseteq Artifacts /\ Listed(manifest) \subseteq Artifacts /\ crashes \in Nat
    BY SurplusType DEF Stored, Types
  <1>3. Surplus(manifest) \in Nat
    BY SurplusType
  <1>4. \A i \in DOMAIN manifest.artifacts : manifest.artifacts[i] \notin Stored => i >= Keep
    BY DEF Unlisted
  <1>5. Cardinality((Stored \ Listed(manifest)) \ {Subject(p)}) + Surplus(manifest) <= crashes
    BY DEF Unlisted
  <1>6. /\ Cardinality(Stored \ Listed(manifest)) \in Nat
        /\ Cardinality((Stored \ Listed(manifest)) \ {Subject(p)}) \in Nat
        /\ Cardinality(Stored \ Listed(manifest))
             <= Cardinality((Stored \ Listed(manifest)) \ {Subject(p)}) + 1
    BY <1>2, OneLess
  <1>7. Cardinality(Stored \ Listed(manifest)) + Surplus(manifest) <= crashes + 1
    BY <1>2, <1>3, <1>5, <1>6
  <1>8. Cardinality(Listed(manifest) \ Stored) <= crashes + 1
    <2>1. Cardinality(Listed(manifest) \ Stored) <= Surplus(manifest) + 1
      BY <1>4, FewMissing
    <2>2. Cardinality(Listed(manifest) \ Stored) \in Nat
      BY <1>2, ArtifactSets
    <2> QED
      BY <1>2, <1>3, <1>5, <1>6, <2>1, <2>2
  <1> QED
    BY <1>1, <1>4, <1>7, <1>8 DEF Settled

(* The manifest of a rollback is settled if the old one was ... *)
LEMMA RollbackSettles ==
  ASSUME Types, NEW m \in Manifests, Distinct(m.artifacts), Settled(m),
         NEW a \in Artifacts, a \in Stored
  PROVE  Settled(Upsert(m, a))
  <1> DEFINE u == Upsert(m, a)
  <1>1. /\ u \in Manifests /\ Listed(u) = Listed(m) \cup {a} /\ u.artifacts[1] = a
        /\ a \in Listed(m) => Len(u.artifacts) = Len(m.artifacts)
        /\ a \notin Listed(m) => Len(u.artifacts) = Len(m.artifacts) + 1
        /\ \A j \in DOMAIN u.artifacts : j # 1 =>
             \E i \in DOMAIN m.artifacts : u.artifacts[j] = m.artifacts[i] /\ i <= j
    BY Upserted
  <1> HIDE DEF u
  <1>2. /\ Listed(m) \subseteq Artifacts /\ Stored \subseteq Artifacts /\ Keep \in Nat /\ crashes \in Nat
        /\ Len(m.artifacts) \in Nat /\ DOMAIN m.artifacts = 1..Len(m.artifacts)
        /\ DOMAIN u.artifacts = 1..Len(u.artifacts) /\ Len(u.artifacts) \in Nat
    BY <1>1, SurplusType DEF Stored, Types
  <1>3. /\ Cardinality(Stored \ Listed(m)) + Surplus(m) <= crashes
        /\ Cardinality(Listed(m) \ Stored) <= crashes
        /\ \A i \in DOMAIN m.artifacts : m.artifacts[i] \notin Stored => i >= Keep
    BY DEF Settled
  <1>4. Listed(u) \ Stored = Listed(m) \ Stored
    BY <1>1
  <1>5. Stored \ Listed(u) = (Stored \ Listed(m)) \ {a}
    BY <1>1
  <1>6. /\ Cardinality(Stored \ Listed(m)) \in Nat /\ Cardinality(Stored \ Listed(u)) \in Nat
        /\ a \notin Listed(m) => Cardinality(Stored \ Listed(u)) = Cardinality(Stored \ Listed(m)) - 1
    BY <1>2, <1>5, OneLess
  <1>7. Surplus(m) \in Nat /\ Surplus(u) \in Nat
    BY <1>1, SurplusType
  <1>8. Cardinality(Stored \ Listed(u)) + Surplus(u) <= crashes
    <2>1. CASE a \in Listed(m)
      <3>1. Stored \ Listed(u) = Stored \ Listed(m) /\ Surplus(u) = Surplus(m)
        BY <1>1, <2>1 DEF Surplus
      <3> QED
        BY <1>3, <3>1
    <2>2. CASE a \notin Listed(m)
      <3>1. Surplus(u) <= Surplus(m) + 1
        BY <1>1, <1>2, <2>2 DEF Surplus
      <3> QED
        BY <1>2, <1>3, <1>6, <1>7, <2>2, <3>1
    <2> QED
      BY <2>1, <2>2
  <1>9. \A j \in DOMAIN u.artifacts : u.artifacts[j] \notin Stored => j >= Keep
    <2> SUFFICES ASSUME NEW j \in DOMAIN u.artifacts, u.artifacts[j] \notin Stored PROVE j >= Keep
      OBVIOUS
    <2>1. j # 1
      BY <1>1
    <2>2. PICK i \in DOMAIN m.artifacts : u.artifacts[j] = m.artifacts[i] /\ i <= j
      BY <1>1, <2>1
    <2>3. i >= Keep /\ i \in Nat /\ j \in Nat
      BY <1>2, <1>3, <2>2
    <2> QED
      BY <1>2, <2>2, <2>3
  <1> QED
    BY <1>3, <1>4, <1>8, <1>9 DEF Settled, u

(* ... and what a training makes of it and prunes is as Drafted says. *)
LEMMA TrainingDrafts ==
  ASSUME Types, NEW p \in Processes, manifest \in Manifests, Distinct(manifest.artifacts),
         Unlisted(p), Subject(p) \in Artifacts,
         draft'[p].artifacts = Retained(Upsert(manifest, Subject(p))),
         doomed'[p] = Removed(Upsert(manifest, Subject(p))),
         UNCHANGED << files, manifest, task, crashes >>, stage'[p] # "removing"
  PROVE  Drafted(p)'
  <1> DEFINE a == Subject(p)
  <1> DEFINE u == Upsert(manifest, a)
  <1> DEFINE l == manifest.artifacts
  <1>1. /\ u \in Manifests /\ Distinct(u.artifacts) /\ u.artifacts # << >> /\ u.artifacts[1] = a
        /\ Listed(u) = Listed(manifest) \cup {a} /\ a \notin Listed(manifest)
        /\ \A j \in DOMAIN u.artifacts : j # 1 =>
             \E i \in DOMAIN l : u.artifacts[j] = l[i] /\ j = i + 1
    BY Upserted DEF Unlisted
  <1>2. draft'[p].artifacts = Retained(u) /\ doomed'[p] = Removed(u)
    OBVIOUS
  <1> HIDE DEF u, a
  <1>3. /\ Len(Retained(u)) <= Keep /\ Distinct(Removed(u)) /\ Retained(u) \in Seq(Artifacts)
        /\ Removed(u) \in Seq(Artifacts)
        /\ \A i \in DOMAIN Retained(u) : i \in DOMAIN u.artifacts /\ Retained(u)[i] = u.artifacts[i]
        /\ \A i \in DOMAIN Removed(u) :
             i + Keep \in DOMAIN u.artifacts /\ Removed(u)[i] = u.artifacts[i + Keep]
        /\ ToSet(Retained(u)) \cap ToSet(Removed(u)) = {}
        /\ ToSet(Retained(u)) \cup ToSet(Removed(u)) = Listed(u)
    BY <1>1, Pruned
  <1>4. /\ a \in Stored
        /\ Cardinality((Stored \ Listed(manifest)) \ {a}) + Surplus(manifest) <= crashes
        /\ \A i \in DOMAIN l : l[i] \notin Stored => i >= Keep
    BY DEF Unlisted, a
  <1>5. /\ DOMAIN l = 1..Len(l) /\ Len(l) \in Nat /\ Keep \in Nat /\ Keep # 0 /\ Surplus(manifest) \in Nat
        /\ Stored \subseteq Artifacts /\ crashes \in Nat
    BY SurplusType DEF Stored, Types
  <1>6. ToSet(Retained(u)) \subseteq Stored
    <2> SUFFICES ASSUME NEW j \in DOMAIN Retained(u) PROVE Retained(u)[j] \in Stored
      BY DEF ToSet
    <2>1. j \in DOMAIN u.artifacts /\ Retained(u)[j] = u.artifacts[j] /\ j \in Nat /\ j <= Keep
      BY <1>3, <1>5
    <2>2. CASE j = 1
      BY <1>1, <1>4, <2>1, <2>2
    <2>3. CASE j # 1
      <3>1. PICK i \in DOMAIN l : u.artifacts[j] = l[i] /\ j = i + 1
        BY <1>1, <2>1, <2>3
      <3>2. ~(i >= Keep)
        BY <1>5, <2>1, <3>1
      <3> QED
        BY <1>4, <2>1, <3>1, <3>2
    <2> QED
      BY <2>2, <2>3
  <1>7. Cardinality((Stored \ ToSet(Retained(u))) \ ToSet(Removed(u))) <= crashes
    <2>1. (Stored \ ToSet(Retained(u))) \ ToSet(Removed(u)) = (Stored \ Listed(manifest)) \ {a}
      BY <1>1, <1>3
    <2>2. Cardinality((Stored \ Listed(manifest)) \ {a}) \in Nat
      BY <1>5, ArtifactSets
    <2>3. Cardinality((Stored \ Listed(manifest)) \ {a}) <= crashes
      BY <1>4, <1>5, <2>2
    <2> QED
      BY <2>1, <2>3
  <1>8. ASSUME NEW i \in DOMAIN l, l[i] \in ToSet(Removed(u)) PROVE i >= Keep
    <2>1. PICK k \in DOMAIN Removed(u) : l[i] = Removed(u)[k]
      BY <1>8 DEF ToSet
    <2>2. k + Keep \in DOMAIN u.artifacts /\ l[i] = u.artifacts[k + Keep] /\ k \in Nat /\ k # 0
      BY <1>3, <2>1
    <2>3. k + Keep # 1
      BY <1>5, <2>2
    <2>4. PICK j \in DOMAIN l : u.artifacts[k + Keep] = l[j] /\ k + Keep = j + 1
      BY <1>1, <2>2, <2>3
    <2>5. i = j
      BY <2>2, <2>4 DEF Distinct
    <2> QED
      BY <1>5, <2>2, <2>4, <2>5
  <1>9. Listed(draft[p])' = ToSet(Retained(u)) /\ Stored' = Stored
    BY <1>2 DEF Listed, ToSet, Stored
  <1> QED
    BY <1>2, <1>3, <1>6, <1>7, <1>8, <1>9 DEF Drafted
-----------------------------------------------------------------------------
(* The solo process goes on: nobody else is at work, and no write is mixed. *)
LEMMA GoesOnAlone ==
  ASSUME IInv, ~overlapped, NEW p \in Processes, Continue(p)
  PROVE  /\ stage[p] \notin Quiet /\ Working(p) /\ overlapped' = overlapped /\ crashes' = crashes
         /\ \A q \in Processes : q # p => stage[q] \in Quiet
         /\ \A q \in Processes : ~mixed'[q]
         /\ manifest \in Manifests \cup {Torn} /\ ~mixed[p]
  <1>t. Types
    BY TypeFacts
  <1>1. stage[p] \notin Quiet
    BY DEF Continue, FinishArtifact, OpenModel, FinishModel, AmendManifest, ReadFails, CheckDoomed,
           RemoveDoomed, RemoveFails, OpenManifest, FinishTraining, FinishRollback, Report, Quiet
  <1>2. /\ Working(p) /\ \A q \in Processes : q # p => stage[q] \in Quiet
        /\ \A q \in Processes : ~mixed[q]
    BY <1>1 DEF IInv, SoloInv
  <1>3. overlapped' = overlapped /\ crashes' = crashes
    BY DEF Continue, FinishArtifact, OpenModel, FinishModel, AmendManifest, ReadFails, CheckDoomed,
           RemoveDoomed, RemoveFails, OpenManifest, FinishTraining, FinishRollback, Report
  <1>4. \A q \in Processes : ~mixed'[q]
    <2>1. CASE OpenModel(p)
      <3>1. { q \in Processes \ {p} : stage[q] = "installing" } = {}
        BY <1>2 DEF Quiet
      <3> QED
        BY <1>2, <2>1, <3>1 DEF OpenModel, Opens
    <2>2. CASE OpenManifest(p)
      <3>1. { q \in Processes \ {p} : stage[q] = "writing" } = {}
        BY <1>2 DEF Quiet
      <3> QED
        BY <1>2, <2>2, <3>1 DEF OpenManifest, Opens
    <2>3. CASE ~OpenModel(p) /\ ~OpenManifest(p)
      <3>1. mixed' = mixed \/ mixed' = [mixed EXCEPT ![p] = FALSE]
        BY <2>3 DEF Continue, FinishArtifact, FinishModel, AmendManifest, ReadFails, CheckDoomed,
             RemoveDoomed, RemoveFails, FinishTraining, FinishRollback, Report, End, Forget
      <3> QED
        BY <1>2, <1>t, <3>1 DEF Types
    <2> QED
      BY <2>1, <2>2, <2>3
  <1> QED
    BY <1>t, <1>1, <1>2, <1>3, <1>4 DEF Types

(* What Unlisted, Drafted and Settled say depends on this only. *)
LEMMA Unchanged ==
  ASSUME NEW p \in Processes, UNCHANGED << files, crashes >>
  PROVE  /\ manifest' = manifest /\ task'[p] = task[p] => (Unlisted(p)' <=> Unlisted(p))
         /\ manifest' = manifest => (Settled(manifest)' <=> Settled(manifest))
         /\ draft'[p] = draft[p] => (Settled(draft[p])' <=> Settled(draft[p]))
         /\ \A m : m = manifest' /\ Settled(m) => Settled(manifest)'
         /\ /\ draft'[p] = draft[p] /\ doomed'[p] = doomed[p] /\ manifest' \in {manifest, Torn}
            /\ stage'[p] # "removing" /\ Drafted(p)
            => Drafted(p)'
  BY DEF Unlisted, Settled, Drafted, Stored, Listed, Surplus, Subject

(* Up to the end of the write of model.joblib. *)
LEMMA InstallsAlone ==
  ASSUME IInv, ~overlapped, NEW p \in Processes, Continue(p),
         FinishArtifact(p) \/ OpenModel(p) \/ FinishModel(p)
  PROVE  Working(p)' /\ stage'[p] \notin Quiet
  <1>t. Types /\ Working(p) /\ ~mixed[p] /\ crashes' = crashes
    BY TypeFacts, GoesOnAlone
  <1>1. /\ UNCHANGED << manifest, task >>
        /\ stage[p] \in {"dumping", "dumped", "installing"}
        /\ stage'[p] \in {"dumped", "installing", "installed"}
    BY <1>t DEF FinishArtifact, OpenModel, FinishModel, GoTo, Types
  <1>2. /\ stage'[p] = "dumped" => stage[p] = "dumping" /\ model' = model
        /\ stage'[p] = "installed" => model' = Subject(p)
    BY <1>t DEF FinishArtifact, OpenModel, FinishModel, GoTo, Types, Written
  <1>3. manifest # Torn => Stored' = Stored
    <2>1. CASE FinishArtifact(p)
      <3>1. stage[p] = "dumping" /\ Training(p) /\ files' = [files EXCEPT ![Subject(p)] = "whole"]
        BY <2>1 DEF FinishArtifact, IInv, TaskInv, TaskOf
      <3>2. manifest # Torn => Subject(p) \in Stored
        BY <1>t, <3>1 DEF Working, Early, Unlisted
      <3> QED
        BY <1>t, <3>1, <3>2 DEF Stored, Types
    <2>2. CASE OpenModel(p) \/ FinishModel(p)
      BY <2>2 DEF OpenModel, FinishModel, Stored
    <2> QED
      BY <2>1, <2>2
  <1>4. manifest # Torn => IF Training(p) THEN Unlisted(p) ELSE Settled(manifest) /\ Subject(p) \in Stored
    BY <1>t, <1>1 DEF Working, Early
  <1>5. manifest # Torn => (IF Training(p) THEN Unlisted(p) ELSE Settled(manifest) /\ Subject(p) \in Stored)'
    BY <1>t, <1>1, <1>3, <1>4 DEF Unlisted, Settled, Listed, Surplus, Subject, Training
  <1>6. crashes = 0 => /\ manifest # Torn
                       /\ stage[p] \in {"dumping", "dumped", "reporting"} => model = manifest.active
    BY <1>t, <1>1 DEF Working
  <1> QED
    BY <1>t, <1>1, <1>2, <1>5, <1>6 DEF Working, Early, Amended, Quiet, Subject

(* Reading the manifest. *)
LEMMA AmendsAlone ==
  ASSUME IInv, ~overlapped, NEW p \in Processes, Continue(p), AmendManifest(p)
  PROVE  Working(p)' /\ stage'[p] \notin Quiet
  <1>t. Types /\ Working(p) /\ crashes' = crashes
    BY TypeFacts, GoesOnAlone
  <1>1. /\ stage[p] = "installed" /\ manifest # Torn /\ manifest \in Manifests
        /\ Distinct(manifest.artifacts) /\ Subject(p) \in Artifacts
    BY Amending DEF AmendManifest, Sound
  <1>2. /\ UNCHANGED << files, model, manifest, task >>
        /\ stage'[p] \in {"pruned", "pruning"}
    <2>1. CASE Training(p)
      BY <2>1, Amends
    <2>2. CASE ~Training(p)
      BY <2>2, Amends
    <2> QED
      BY <2>1, <2>2
  <1>3. ASSUME Training(p) PROVE Unlisted(p)' /\ Drafted(p)'
    <2>1. Unlisted(p)
      BY <1>t, <1>1, <1>3 DEF Working, Early
    <2>2. /\ draft'[p].artifacts = Retained(Upsert(manifest, Subject(p)))
          /\ doomed'[p] = Removed(Upsert(manifest, Subject(p)))
      BY <1>3, Amends
    <2> QED
      BY <1>t, <1>1, <1>2, <2>1, <2>2, TrainingDrafts, Unchanged
  <1>4. ASSUME ~Training(p) PROVE Settled(manifest)' /\ Settled(draft[p])'
    <2>1. Settled(manifest) /\ Subject(p) \in Stored
      BY <1>t, <1>1, <1>4 DEF Working, Early
    <2>2. draft'[p] = Upsert(manifest, Subject(p))
      BY <1>4, Amends
    <2>3. Settled(draft'[p])
      BY <1>t, <1>1, <2>1, <2>2, RollbackSettles
    <2> QED
      BY <1>t, <1>2, <2>1, <2>3 DEF Settled, Stored, Listed, Surplus
  <1>5. crashes = 0 => model = Subject(p)
    BY <1>t, <1>1 DEF Working
  <1> QED
    BY <1>t, <1>1, <1>2, <1>3, <1>4, <1>5 DEF Working, Early, Amended, Quiet, Subject, Training

(* Pruning. *)
LEMMA PrunesAlone ==
  ASSUME IInv, ~overlapped, NEW p \in Processes, Continue(p), CheckDoomed(p) \/ RemoveDoomed(p)
  PROVE  Working(p)' /\ stage'[p] \notin Quiet
  <1>t. Types /\ Working(p) /\ crashes' = crashes /\ crashes \in Nat
    BY TypeFacts, GoesOnAlone DEF Types
  <1> DEFINE h == Head(doomed[p])
  <1> DEFINE rest == Tail(doomed[p])
  <1> DEFINE D == Listed(draft[p])
  <1> DEFINE L == Listed(manifest)
  <1>1. /\ stage[p] \in {"pruning", "removing"} /\ Training(p) /\ doomed[p] # << >>
        /\ doomed[p] \in Seq(Artifacts)
        /\ draft[p].artifacts # << >> /\ draft[p].active = Subject(p) /\ Sound(draft[p])
    BY <1>t DEF CheckDoomed, RemoveDoomed, IInv, TaskInv, TaskOf, Types, ManifestsSound
  <1>2. /\ UNCHANGED << model, manifest, task, draft >>
        /\ stage'[p] \in {"pruned", "pruning", "removing"}
    BY <1>t DEF CheckDoomed, RemoveDoomed, GoOn, GoTo, Types, volume
  <1>3. manifest # Torn /\ manifest \in Manifests /\ Unlisted(p) /\ Drafted(p)
    BY <1>t, <1>1 DEF Working, Amended, Types
  <1>4. /\ h \in Artifacts /\ rest \in Seq(Artifacts) /\ ToSet(doomed[p]) = {h} \cup ToSet(rest)
        /\ h \notin ToSet(rest) /\ Distinct(rest)
    <2>1. /\ h \in Artifacts /\ rest \in Seq(Artifacts) /\ Len(doomed[p]) \in Nat /\ Len(doomed[p]) # 0
          /\ DOMAIN rest = 1..(Len(doomed[p]) - 1) /\ DOMAIN doomed[p] = 1..Len(doomed[p])
          /\ \A i \in 1..(Len(doomed[p]) - 1) : rest[i] = doomed[p][i + 1]
          /\ h = doomed[p][1]
      BY <1>1
    <2>2. \A i, j \in DOMAIN doomed[p] : doomed[p][i] = doomed[p][j] => i = j
      BY <1>3 DEF Drafted, Distinct
    <2> HIDE DEF h, rest
    <2>3. \A i \in 1..(Len(doomed[p]) - 1) : i + 1 \in DOMAIN doomed[p] /\ i + 1 # 1 /\ i \in Nat
      BY <2>1
    <2>4. h \notin ToSet(rest)
      <3>1. \A i \in 1..(Len(doomed[p]) - 1) : rest[i] # h
        <4>1. 1 \in DOMAIN doomed[p]
          BY <2>1
        <4> QED
          BY <2>1, <2>2, <2>3, <4>1
      <3> QED
        BY <2>1, <3>1 DEF ToSet
    <2>5. Distinct(rest)
      <3> SUFFICES ASSUME NEW i \in 1..(Len(doomed[p]) - 1), NEW j \in 1..(Len(doomed[p]) - 1),
                          rest[i] = rest[j]
                   PROVE  i = j
        BY <2>1 DEF Distinct
      <3>1. i + 1 = j + 1
        BY <2>1, <2>2, <2>3
      <3> QED
        BY <2>3, <3>1
    <2>6. ToSet(doomed[p]) = {h} \cup ToSet(rest)
      <3>1. ASSUME NEW i \in 1..Len(doomed[p]) PROVE doomed[p][i] \in {h} \cup ToSet(rest)
        <4>1. CASE i = 1
          BY <2>1, <4>1
        <4>2. CASE i # 1
          <5>1. i - 1 \in 1..(Len(doomed[p]) - 1) /\ (i - 1) + 1 = i
            BY <2>1, <4>2
          <5> QED
            BY <2>1, <5>1 DEF ToSet
        <4> QED
          BY <4>1, <4>2
      <3>2. \A i \in 1..(Len(doomed[p]) - 1) : rest[i] \in ToSet(doomed[p])
        BY <2>1, <2>3 DEF ToSet
      <3>3. h \in ToSet(doomed[p])
        BY <2>1 DEF ToSet
      <3>4. ToSet(doomed[p]) \subseteq {h} \cup ToSet(rest)
        BY <2>1, <3>1 DEF ToSet
      <3>5. ToSet(rest) \subseteq ToSet(doomed[p])
        BY <2>1, <3>2 DEF ToSet
      <3> QED
        BY <3>3, <3>4, <3>5
    <2> QED
      BY <2>1, <2>4, <2>5, <2>6
  <1>5. Subject(p) \in D
    BY <1>1 DEF Sound, Listed
  <1> HIDE DEF h, rest
  <1>6. CASE CheckDoomed(p) /\ h \in Stored
    <2>1. UNCHANGED << files, doomed, manifest, task, draft >> /\ stage'[p] = "removing"
      BY <1>t, <1>6, <1>2 DEF CheckDoomed, GoTo, volume, Stored, Types, h
    <2>2. Unlisted(p)' /\ Drafted(p)'
      BY <1>3, <1>6, <1>t, <2>1 DEF Unlisted, Drafted, Stored, Listed, Surplus, Subject, h
    <2> QED
      BY <1>t, <1>1, <1>2, <1>3, <2>1, <2>2 DEF Working, Early, Amended, Quiet, Subject, Training
  <1>7. CASE ~(CheckDoomed(p) /\ h \in Stored)
    <2>1. /\ doomed'[p] = rest /\ stage'[p] \in {"pruned", "pruning"}
          /\ Stored' = Stored \ {h}
      <3>1. CASE CheckDoomed(p)
        <4>1. files[h] = "absent" /\ files' = files /\ doomed' = [doomed EXCEPT ![p] = rest] /\ GoOn(p, rest)
          BY <1>4, <1>7, <3>1 DEF CheckDoomed, volume, Stored, h, rest
        <4> QED
          BY <1>t, <4>1 DEF GoOn, GoTo, Types, Stored
      <3>2. CASE RemoveDoomed(p)
        <4>1. files' = [files EXCEPT ![h] = "absent"] /\ doomed' = [doomed EXCEPT ![p] = rest] /\ GoOn(p, rest)
          BY <3>2 DEF RemoveDoomed, h, rest
        <4> QED
          BY <1>t, <1>4, <4>1 DEF GoOn, GoTo, Types, Stored
      <3> QED
        BY <3>1, <3>2
    <2>2. h \notin D /\ h # Subject(p)
      BY <1>3, <1>4, <1>5 DEF Drafted
    <2>3. /\ Listed(manifest)' = L /\ Listed(draft[p])' = D /\ Surplus(manifest)' = Surplus(manifest)
          /\ Subject(p)' = Subject(p) /\ Surplus(manifest) \in Nat /\ Stored \subseteq Artifacts
      BY <1>2, <1>3, SurplusType DEF Listed, Surplus, Subject, Stored
    <2>4. /\ Subject(p) \in Stored /\ Subject(p) \notin L
          /\ Cardinality((Stored \ L) \ {Subject(p)}) + Surplus(manifest) <= crashes
          /\ \A i \in DOMAIN manifest.artifacts : manifest.artifacts[i] \notin Stored => i >= Keep
      BY <1>3 DEF Unlisted
    <2>5. /\ Len(draft[p].artifacts) <= Keep /\ D \subseteq Stored /\ D \cap ToSet(doomed[p]) = {}
          /\ Cardinality((Stored \ D) \ ToSet(doomed[p])) <= crashes
          /\ \A i \in DOMAIN manifest.artifacts : manifest.artifacts[i] \in ToSet(doomed[p]) => i >= Keep
      BY <1>3 DEF Drafted
    <2>6. Unlisted(p)'
      <3>1. ((Stored \ {h}) \ L) \ {Subject(p)} \subseteq (Stored \ L) \ {Subject(p)}
        OBVIOUS
      <3>2. /\ Cardinality(((Stored \ {h}) \ L) \ {Subject(p)}) <= Cardinality((Stored \ L) \ {Subject(p)})
            /\ Cardinality(((Stored \ {h}) \ L) \ {Subject(p)}) \in Nat
            /\ Cardinality((Stored \ L) \ {Subject(p)}) \in Nat
        <4>1. (Stored \ L) \ {Subject(p)} \in SUBSET Artifacts
          BY <2>3
        <4> QED
          BY <3>1, <4>1, Smaller
      <3> HIDE DEF L
      <3>3. Cardinality(((Stored \ {h}) \ L) \ {Subject(p)}) + Surplus(manifest) <= crashes
        BY <1>t, <2>3, <2>4, <3>2
      <3>4. \A i \in DOMAIN manifest.artifacts : manifest.artifacts[i] \notin Stored \ {h} => i >= Keep
        BY <1>4, <2>4, <2>5
      <3> QED
        BY <1>t, <1>2, <2>1, <2>2, <2>3, <2>4, <3>3, <3>4 DEF Unlisted
    <2>7. Drafted(p)'
      <3>1. (((Stored \ {h}) \ D) \ ToSet(rest)) = (Stored \ D) \ ToSet(doomed[p])
        BY <1>4
      <3>2. D \subseteq Stored \ {h} /\ D \cap ToSet(rest) = {}
        BY <1>4, <2>2, <2>5
      <3>3. \A i \in DOMAIN manifest.artifacts : manifest.artifacts[i] \in ToSet(rest) => i >= Keep
        BY <1>4, <2>5
      <3> HIDE DEF D
      <3> QED
        BY <1>t, <1>2, <1>4, <2>1, <2>3, <2>5, <3>1, <3>2, <3>3 DEF Drafted
    <2> QED
      BY <1>t, <1>1, <1>2, <1>3, <2>1, <2>6, <2>7 DEF Working, Early, Amended, Quiet, Subject, Training
  <1> QED
    BY <1>6, <1>7

(* Opening manifest.json. *)
LEMMA OpensManifestAlone ==
  ASSUME IInv, ~overlapped, NEW p \in Processes, Continue(p), OpenManifest(p)
  PROVE  Working(p)' /\ stage'[p] \notin Quiet
  <1>t. Types /\ Working(p) /\ crashes' = crashes
    BY TypeFacts, GoesOnAlone
  <1>1. /\ stage[p] = "pruned" /\ manifest' = Torn /\ stage'[p] = "writing"
        /\ UNCHANGED << files, model, task, draft, doomed >>
    BY <1>t DEF OpenManifest, GoTo, Types
  <1>2. IF Training(p) THEN Drafted(p) ELSE Settled(draft[p])
    BY <1>t, <1>1 DEF Working, Amended
  <1>3. Training(p) => Drafted(p)'
    BY <1>t, <1>1, <1>2, Unchanged
  <1>4. ~Training(p) => Settled(draft[p])'
    BY <1>t, <1>1, <1>2, Unchanged
  <1>5. crashes = 0 => model = Subject(p)
    BY <1>t, <1>1 DEF Working, Amended
  <1> QED
    BY <1>t, <1>1, <1>3, <1>4, <1>5 DEF Working, Early, Amended, Quiet, Subject, Training

(* A rollback has written its manifest. *)
LEMMA RollsBackAlone ==
  ASSUME IInv, ~overlapped, NEW p \in Processes, Continue(p), FinishRollback(p)
  PROVE  Working(p)' /\ stage'[p] \notin Quiet
  <1>t. Types /\ Working(p) /\ crashes' = crashes /\ ~mixed[p] /\ TaskOf(p)
    BY TypeFacts, GoesOnAlone DEF IInv, TaskInv
  <1>1. /\ stage[p] = "writing" /\ ~Training(p) /\ manifest' = draft[p] /\ stage'[p] = "reporting"
        /\ UNCHANGED << files, model >>
    BY <1>t DEF FinishRollback, Written, GoTo, Types
  <1>2. Settled(draft[p])
    BY <1>t, <1>1 DEF Working
  <1>3. manifest' # Torn
    BY <1>t, <1>1, TornAssumption DEF Types
  <1>4. Settled(manifest)'
    BY <1>t, <1>1, <1>2, Unchanged
  <1>5. draft[p].active = Subject(p)
    BY <1>t, <1>1 DEF TaskOf
  <1>6. crashes = 0 => model = Subject(p)
    BY <1>t, <1>1 DEF Working
  <1> QED
    BY <1>t, <1>1, <1>3, <1>4, <1>5, <1>6 DEF Working, Early, Amended, Quiet

(* A training has written its manifest. *)
LEMMA TrainsAlone ==
  ASSUME IInv, ~overlapped, NEW p \in Processes, Continue(p), FinishTraining(p)
  PROVE  Rest'
  <1>t. Types /\ Working(p) /\ crashes' = crashes /\ ~mixed[p] /\ TaskOf(p)
    BY TypeFacts, GoesOnAlone DEF IInv, TaskInv
  <1>1. /\ stage[p] = "writing" /\ Training(p) /\ manifest' = draft[p]
        /\ UNCHANGED << files, model >>
    BY <1>t DEF FinishTraining, Written
  <1>2. draft[p] \in Manifests /\ manifest' # Torn
    BY <1>t, <1>1, TornAssumption DEF Types
  <1>3. doomed[p] = << >> /\ draft[p].active = Subject(p)
    BY <1>t, <1>1 DEF TaskOf
  <1>4. Settled(draft[p])
    <2>1. Drafted(p)
      BY <1>t, <1>1 DEF Working
    <2>2. /\ Len(draft[p].artifacts) <= Keep /\ Listed(draft[p]) \subseteq Stored
          /\ Cardinality((Stored \ Listed(draft[p])) \ ToSet(doomed[p])) <= crashes
      BY <2>1 DEF Drafted
    <2>3. ToSet(doomed[p]) = {}
      BY <1>3 DEF ToSet
    <2>4. Surplus(draft[p]) = 0
      BY <1>2, <2>2, SurplusType DEF Surplus
    <2>5. Stored \subseteq Artifacts /\ crashes \in Nat
      BY <1>t DEF Stored, Types
    <2>6. Cardinality(Stored \ Listed(draft[p])) <= crashes /\ Cardinality(Stored \ Listed(draft[p])) \in Nat
      <3>1. (Stored \ Listed(draft[p])) \ ToSet(doomed[p]) = Stored \ Listed(draft[p])
        BY <2>3
      <3> QED
        BY <2>2, <2>5, <3>1, ArtifactSets
    <2>7. Cardinality(Listed(draft[p]) \ Stored) <= crashes
      <3>1. Listed(draft[p]) \ Stored = {}
        BY <2>2
      <3> QED
        BY <2>5, <3>1, FS_EmptySet
    <2>8. \A i \in DOMAIN draft[p].artifacts : draft[p].artifacts[i] \in Stored
      BY <2>2 DEF Listed
    <2> QED
      BY <2>4, <2>5, <2>6, <2>7, <2>8 DEF Settled
  <1>5. Settled(manifest)'
    BY <1>t, <1>1, <1>4, Unchanged
  <1>6. crashes = 0 => model = Subject(p)
    BY <1>t, <1>1 DEF Working
  <1> QED
    BY <1>t, <1>1, <1>2, <1>3, <1>5, <1>6 DEF Rest

(* The other ends. *)
LEMMA EndsAlone ==
  ASSUME IInv, ~overlapped, NEW p \in Processes, Continue(p), ReadFails(p) \/ RemoveFails(p) \/ Report(p)
  PROVE  Rest'
  <1>t. Types /\ Working(p) /\ crashes' = crashes /\ TaskOf(p)
    BY TypeFacts, GoesOnAlone DEF IInv, TaskInv
  <1>1. UNCHANGED << files, model, manifest >>
    BY DEF ReadFails, RemoveFails, Report, volume
  <1>2. CASE ReadFails(p)
    BY <1>t, <1>1, <1>2 DEF ReadFails, Working, Amended, Rest
  <1>3. CASE Report(p)
    <2>1. stage[p] = "reporting" /\ manifest # Torn /\ Settled(manifest)
      BY <1>t, <1>3 DEF Report, Working
    <2>2. crashes = 0 => model = manifest.active
      BY <1>t, <2>1 DEF Working
    <2>3. Settled(manifest)'
      BY <1>t, <1>1, <2>1, Unchanged
    <2> QED
      BY <1>t, <1>1, <2>1, <2>2, <2>3 DEF Rest
  <1>4. CASE RemoveFails(p)
    <2>1. stage[p] = "removing" /\ files[Head(doomed[p])] = "absent" /\ Training(p)
      BY <1>t, <1>4 DEF RemoveFails, TaskOf
    <2>2. Head(doomed[p]) \in Stored
      BY <1>t, <2>1 DEF Working, Amended, Drafted
    <2> QED
      BY <2>1, <2>2 DEF Stored
  <1> QED
    BY <1>2, <1>3, <1>4

(* All steps of an operation. *)
LEMMA Alone ==
  ASSUME IInv, ~overlapped, NEW p \in Processes, Continue(p)
  PROVE  IF stage'[p] \in Quiet THEN Rest' ELSE Working(p)'
  <1>1. CASE FinishArtifact(p) \/ OpenModel(p) \/ FinishModel(p)
    BY <1>1, InstallsAlone
  <1>2. CASE AmendManifest(p) \/ CheckDoomed(p) \/ RemoveDoomed(p)
    BY <1>2, AmendsAlone, PrunesAlone
  <1>3. CASE OpenManifest(p) \/ FinishRollback(p)
    BY <1>3, OpensManifestAlone, RollsBackAlone
  <1>4. CASE FinishTraining(p) \/ ReadFails(p) \/ RemoveFails(p) \/ Report(p)
    <2>1. Rest'
      BY <1>4, TrainsAlone, EndsAlone
    <2>2. stage'[p] \in Quiet
      BY <1>4, Ends DEF Over
    <2> QED
      BY <2>1, <2>2
  <1> QED
    BY <1>1, <1>2, <1>3, <1>4 DEF Continue

(* An operation that begins when the registry is at rest. *)
LEMMA TrainingBeginsAlone ==
  ASSUME IInv, Rest, NEW p \in Processes, StartTraining(p)
  PROVE  Working(p)' /\ stage'[p] \notin Quiet
  <1> DEFINE new == trained + 1
  <1> DEFINE L == Listed(manifest)
  <1>t. Types /\ FilesInv /\ ManifestsSound
    BY TypeFacts DEF IInv
  <1>1. /\ new \in Artifacts /\ new > trained
        /\ files' = [files EXCEPT ![new] = "partial"] /\ UNCHANGED << model, manifest, crashes >>
        /\ stage'[p] = "dumping" /\ task'[p] = [kind |-> "train", artifact |-> new]
    BY <1>t, TypeFacts DEF StartTraining, Begin, GoTo, Types, Artifacts
  <1>2. Subject(p)' = new /\ Training(p)'
    BY <1>1 DEF Subject, Training
  <1>3. new \notin Stored /\ new \notin dumped
    BY <1>t, <1>1 DEF FilesInv, Stored
  <1> HIDE DEF new
  <1>4. Stored' = Stored \cup {new}
    BY <1>t, <1>1 DEF Stored, Types
  <1>5. ASSUME manifest # Torn PROVE Unlisted(p)'
    <2>1. Listed(manifest)' = L /\ Surplus(manifest)' = Surplus(manifest)
      BY <1>1 DEF Listed, Surplus
    <2>2. new \notin L
      BY <1>t, <1>3, <1>5 DEF ManifestsSound, Sound
    <2>3. /\ Cardinality(Stored \ L) + Surplus(manifest) <= crashes
          /\ \A i \in DOMAIN manifest.artifacts : manifest.artifacts[i] \notin Stored => i >= Keep
      BY <1>5 DEF Rest, Settled
    <2>4. (Stored' \ L) \ {new} = Stored \ L
      BY <1>3, <1>4
    <2> HIDE DEF L
    <2> QED
      BY <1>1, <1>2, <1>4, <2>1, <2>2, <2>3, <2>4 DEF Unlisted
  <1>6. crashes = 0 => manifest # Torn /\ model = manifest.active
    BY DEF Rest
  <1> QED
    BY <1>1, <1>2, <1>5, <1>6 DEF Working, Early, Amended, Quiet

LEMMA RollbackBeginsAlone ==
  ASSUME IInv, Rest, NEW p \in Processes, NEW a \in Artifacts, StartRollback(p, a)
  PROVE  Working(p)' /\ stage'[p] \notin Quiet
  <1>t. Types
    BY TypeFacts
  <1>1. /\ UNCHANGED << files, model, manifest, crashes >> /\ files[a] = "whole"
        /\ stage'[p] = "dumped" /\ task'[p] = [kind |-> "rollback", artifact |-> a]
    BY <1>t DEF StartRollback, Begin, GoTo, Types, volume
  <1>2. Subject(p)' = a /\ ~Training(p)'
    BY <1>1 DEF Subject, Training
  <1>3. a \in Stored' /\ (manifest # Torn => Settled(manifest)')
    BY <1>1, Unchanged DEF Stored, Rest
  <1>4. crashes = 0 => manifest # Torn /\ model = manifest.active
    BY DEF Rest
  <1> QED
    BY <1>1, <1>2, <1>3, <1>4 DEF Working, Early, Amended, Quiet

(* A process that is killed at work leaves one artifact more out of place. *)
LEMMA DiesAlone ==
  ASSUME IInv, NEW p \in Processes, ProcessDies(p), Rest \/ (stage[p] \notin Quiet /\ Working(p))
  PROVE  Rest'
  <1>t. Types
    BY TypeFacts
  <1>1. UNCHANGED << files, model, manifest >> /\ crashes' = crashes + 1 /\ crashes' # 0
    BY <1>t DEF ProcessDies, volume, Types
  <1>2. ASSUME manifest # Torn PROVE Settled(manifest)'
    <2>1. manifest \in Manifests
      BY <1>t, <1>2 DEF Types
    <2>2. CASE Settled(manifest)
      <3> DEFINE m == manifest
      <3>1. m \in Manifests /\ Settled(m)
        BY <2>1, <2>2
      <3>2. Stored' = Stored
        BY <1>1 DEF Stored
      <3>3. /\ Cardinality(Stored \ Listed(m)) + Surplus(m) <= crashes
            /\ \A i \in DOMAIN m.artifacts : m.artifacts[i] \notin Stored => i >= Keep
            /\ Cardinality(Listed(m) \ Stored) <= crashes
        BY <2>2 DEF Settled
      <3>4. /\ Cardinality(Stored \ Listed(m)) \in Nat /\ Cardinality(Listed(m) \ Stored) \in Nat
            /\ Surplus(m) \in Nat /\ crashes \in Nat
        BY <1>t, <2>1, SurplusType, ArtifactSets DEF Types, Stored
      <3>5. Listed(manifest)' = Listed(manifest) /\ Surplus(manifest)' = Surplus(manifest)
        BY <1>1 DEF Listed, Surplus
      <3> QED
        BY <1>1, <3>2, <3>3, <3>4, <3>5 DEF Settled
    <2>3. CASE Unlisted(p)
      BY <1>t, <1>1, <2>1, <2>3, UnlistedSettles
    <2>4. Settled(manifest) \/ Unlisted(p)
      <3>1. CASE Rest
        BY <1>2, <3>1 DEF Rest
      <3>2. CASE stage[p] \notin Quiet /\ Working(p)
        <4>1. stage[p] \in Early \cup Amended \cup {"writing", "reporting"}
          BY <1>t, <3>2 DEF Types, Stages, Early, Amended, Quiet
        <4> QED
          BY <1>2, <3>2, <4>1 DEF Working
      <3> QED
        BY <3>1, <3>2
    <2> QED
      BY <2>2, <2>3, <2>4
  <1> QED
    BY <1>1, <1>2 DEF Rest

(* The solo process stays as it is while an idle one is killed or loads the model. *)
LEMMA StaysAlone ==
  ASSUME Types, NEW p \in Processes, Working(p), UNCHANGED << files, model, manifest >>,
         stage'[p] = stage[p], task'[p] = task[p], draft'[p] = draft[p], doomed'[p] = doomed[p],
         crashes' \in {crashes, crashes + 1}
  PROVE  Working(p)'
  <1>1. /\ Stored' = Stored /\ Listed(manifest)' = Listed(manifest) /\ Surplus(manifest)' = Surplus(manifest)
        /\ Listed(draft[p])' = Listed(draft[p]) /\ Surplus(draft[p])' = Surplus(draft[p])
        /\ Subject(p)' = Subject(p) /\ (Training(p)' <=> Training(p))
    BY DEF Stored, Listed, Surplus, Subject, Training
  <1>2. crashes \in Nat /\ (crashes' = 0 => crashes = 0) /\ Stored \subseteq Artifacts /\ draft[p] \in Manifests
    BY DEF Types, Stored
  <1>3. \A n \in Nat : n <= crashes => n <= crashes'
    BY <1>2
  <1>4. ASSUME manifest \in Manifests, Settled(manifest) PROVE Settled(manifest)'
    <2>1. /\ Cardinality(Stored \ Listed(manifest)) \in Nat /\ Cardinality(Listed(manifest) \ Stored) \in Nat
          /\ Surplus(manifest) \in Nat
      BY <1>2, <1>4, SurplusType, ArtifactSets
    <2>2. Cardinality(Stored \ Listed(manifest)) + Surplus(manifest) \in Nat
      BY <2>1
    <2> QED
      BY <1>1, <1>3, <1>4, <2>1, <2>2 DEF Settled
  <1>5. ASSUME Settled(draft[p]) PROVE Settled(draft[p])'
    <2>1. /\ Cardinality(Stored \ Listed(draft[p])) \in Nat /\ Cardinality(Listed(draft[p]) \ Stored) \in Nat
          /\ Surplus(draft[p]) \in Nat
      BY <1>2, SurplusType, ArtifactSets
    <2>2. Cardinality(Stored \ Listed(draft[p])) + Surplus(draft[p]) \in Nat
      BY <2>1
    <2> QED
      BY <1>1, <1>3, <1>5, <2>1, <2>2 DEF Settled
  <1>6. ASSUME manifest \in Manifests, Unlisted(p) PROVE Unlisted(p)'
    <2>1. Cardinality((Stored \ Listed(manifest)) \ {Subject(p)}) \in Nat /\ Surplus(manifest) \in Nat
      BY <1>2, <1>6, SurplusType, ArtifactSets
    <2>2. Cardinality((Stored \ Listed(manifest)) \ {Subject(p)}) + Surplus(manifest) \in Nat
      BY <2>1
    <2> QED
      BY <1>1, <1>3, <1>6, <2>2 DEF Unlisted
  <1>7. ASSUME Drafted(p) PROVE Drafted(p)'
    <2>1. Cardinality((Stored \ Listed(draft[p])) \ ToSet(doomed[p])) \in Nat
      BY <1>2, ArtifactSets
    <2> QED
      BY <1>1, <1>3, <1>7, <2>1 DEF Drafted
  <1>8. manifest # Torn => manifest \in Manifests
    BY DEF Types
  <1>9. stage[p] \in Early /\ manifest # Torn =>
          IF Training(p) THEN Unlisted(p)' ELSE Settled(manifest)' /\ Subject(p) \in Stored
    BY <1>4, <1>6, <1>8 DEF Working
  <1>10. stage[p] \in Amended =>
          /\ manifest # Torn
          /\ IF Training(p) THEN Unlisted(p)' /\ Drafted(p)' ELSE Settled(manifest)' /\ Settled(draft[p])'
    BY <1>4, <1>5, <1>6, <1>7, <1>8 DEF Working
  <1>11. /\ stage[p] = "writing" => manifest = Torn /\ IF Training(p) THEN Drafted(p)' ELSE Settled(draft[p])'
         /\ stage[p] = "reporting" => manifest # Torn /\ Settled(manifest)'
    BY <1>4, <1>5, <1>7, <1>8 DEF Working
  <1>12. crashes = 0 =>
         /\ stage[p] # "writing" => manifest # Torn
         /\ stage[p] \in {"dumping", "dumped", "reporting"} => model = manifest.active
         /\ stage[p] \in {"installed", "writing"} \cup Amended => model = Subject(p)
    BY DEF Working
  <1> QED
    BY <1>1, <1>2, <1>9, <1>10, <1>11, <1>12 DEF Working, Early, Amended

LEMMA RestStays ==
  ASSUME Rest, UNCHANGED << files, model, manifest, crashes >>
  PROVE  Rest'
  BY DEF Rest, Settled, Stored, Listed, Surplus

LEMMA NextSolo == IInv /\ [Next]_vars => SoloInv'
  <1> SUFFICES ASSUME IInv, [Next]_vars, ~overlapped' PROVE SoloInv'
    BY DEF SoloInv
  <1>t. Types
    BY TypeFacts
  <1>o. ASSUME ~overlapped
        PROVE  /\ \A q, r \in Processes : stage[q] \notin Quiet /\ stage[r] \notin Quiet => q = r
               /\ \A q \in Processes : ~mixed[q] /\ (stage[q] \notin Quiet => Working(q))
               /\ AtRest => Rest
    BY <1>o DEF IInv, SoloInv
  <1>1. ASSUME NEW p \in Processes, Continue(p) PROVE SoloInv'
    <2>1. overlapped' = overlapped
      BY <1>1 DEF Continue, FinishArtifact, OpenModel, FinishModel, AmendManifest, ReadFails, CheckDoomed,
             RemoveDoomed, RemoveFails, OpenManifest, FinishTraining, FinishRollback, Report
    <2>2. /\ \A q \in Processes : q # p => stage[q] \in Quiet
          /\ \A q \in Processes : ~mixed'[q]
      BY <1>1, <2>1, GoesOnAlone
    <2>3. \A q \in Processes : q # p => stage'[q] \in Quiet
      BY <1>1, <2>2, OthersStay DEF Step
    <2>4. IF stage'[p] \in Quiet THEN Rest' ELSE Working(p)'
      BY <1>1, <2>1, Alone
    <2> QED
      BY <2>2, <2>3, <2>4 DEF SoloInv, AtRest
  <1>2. ASSUME NEW p \in Processes, StartTraining(p) \/ \E a \in Artifacts : StartRollback(p, a)
        PROVE  SoloInv'
    <2>1. /\ ~overlapped /\ \A q \in Processes : stage[q] \in Quiet
          /\ mixed' = mixed
      BY <1>2 DEF StartTraining, StartRollback, Begin
    <2>2. Rest
      BY <1>o, <2>1 DEF AtRest
    <2>3. Working(p)' /\ stage'[p] \notin Quiet
      BY <1>2, <2>2, TrainingBeginsAlone, RollbackBeginsAlone
    <2>4. \A q \in Processes : q # p => stage'[q] \in Quiet
      BY <1>2, <2>1, OthersStay DEF Step
    <2> QED
      BY <1>o, <2>1, <2>3, <2>4 DEF SoloInv, AtRest
  <1>3. ASSUME NEW p \in Processes, Boot(p) \/ LoadModel(p) \/ ProcessDies(p)
        PROVE  SoloInv'
    <2>1. /\ UNCHANGED << files, model, manifest >> /\ overlapped' = overlapped /\ stage'[p] \in Quiet
          /\ crashes' \in {crashes, crashes + 1}
          /\ ~ProcessDies(p) => stage[p] \in Quiet /\ crashes' = crashes
      BY <1>3, <1>t DEF Boot, LoadModel, ProcessDies, GoTo, Types, Quiet, volume
    <2>2. \A q \in Processes : ~mixed'[q]
      <3>1. mixed' = mixed \/ mixed' = [mixed EXCEPT ![p] = FALSE]
        BY <1>3 DEF Boot, LoadModel, ProcessDies, Forget
      <3> QED
        BY <1>o, <1>t, <2>1, <3>1 DEF Types
    <2>3. \A q \in Processes : stage'[q] \notin Quiet => q # p /\ stage[q] \notin Quiet
      BY <1>3, <2>1, OthersStay DEF Step
    <2>4. ASSUME NEW q \in Processes, stage'[q] \notin Quiet PROVE Working(q)'
      BY <1>3, <1>o, <1>t, <2>1, <2>3, <2>4, OthersStay, StaysAlone DEF Step
    <2>5. ASSUME AtRest' PROVE Rest'
      <3>1. \A q \in Processes : q # p => stage[q] \in Quiet
        BY <1>3, <2>5, OthersStay DEF Step, AtRest
      <3>2. Rest \/ (stage[p] \notin Quiet /\ Working(p))
        BY <1>o, <2>1, <3>1 DEF AtRest
      <3>3. CASE ProcessDies(p)
        BY <3>2, <3>3, DiesAlone
      <3>4. CASE ~ProcessDies(p)
        <4>1. Rest
          BY <2>1, <3>2, <3>4
        <4> QED
          BY <2>1, <3>4, <4>1, RestStays
      <3> QED
        BY <3>3, <3>4
    <2>6. \A q, r \in Processes : stage'[q] \notin Quiet /\ stage'[r] \notin Quiet => q = r
      BY <1>o, <2>1, <2>3
    <2> QED
      BY <2>2, <2>4, <2>5, <2>6 DEF SoloInv
  <1>4. CASE UNCHANGED vars
    <2>1. /\ UNCHANGED << files, model, manifest, crashes >> /\ UNCHANGED << stage, mixed, overlapped >>
          /\ UNCHANGED << task, draft, doomed >>
      BY <1>4 DEF vars
    <2>2. \A q \in Processes : Working(q) => Working(q)'
      BY <1>t, <2>1, StaysAlone
    <2>3. Rest => Rest'
      BY <2>1, RestStays
    <2> QED
      BY <1>o, <2>1, <2>2, <2>3 DEF SoloInv, AtRest
  <1> QED
    BY <1>1, <1>2, <1>3, <1>4 DEF Next

LEMMA NextPartial == IInv /\ [Next]_vars => PartialInv'
  <1> SUFFICES ASSUME IInv, [Next]_vars, crashes' = 0, NEW a \in Artifacts, files'[a] = "partial"
               PROVE  \E p \in Processes : stage'[p] = "dumping" /\ Subject(p)' = a
    BY DEF PartialInv
  <1>t. Types
    BY TypeFacts
  <1>1. CASE UNCHANGED vars
    <2>1. \E p \in Processes : stage[p] = "dumping" /\ Subject(p) = a
      BY <1>1 DEF vars, IInv, PartialInv
    <2> QED
      BY <1>1, <2>1 DEF vars, Subject
  <1>2. ASSUME NEW p \in Processes, Step(p)
        PROVE  \E q \in Processes : stage'[q] = "dumping" /\ Subject(q)' = a
    <2>1. crashes = 0 /\ ~ProcessDies(p)
      BY <1>2, <1>t DEF Step, Continue, StartTraining, StartRollback, FinishArtifact, OpenModel, FinishModel,
             AmendManifest, ReadFails, CheckDoomed, RemoveDoomed, RemoveFails, OpenManifest,
             FinishTraining, FinishRollback, Report, Boot, LoadModel, ProcessDies, Types
    <2>2. stage[p] = "dumping" => FinishArtifact(p)
      BY <1>2, <2>1 DEF Step, Continue, StartTraining, StartRollback, Begin, OpenModel, FinishModel,
             AmendManifest, ReadFails, CheckDoomed, RemoveDoomed, RemoveFails, OpenManifest,
             FinishTraining, FinishRollback, Report, Boot, LoadModel
    <2>3. ASSUME files[a] = "partial", ~(FinishArtifact(p) /\ Subject(p) = a)
          PROVE  \E q \in Processes : stage'[q] = "dumping" /\ Subject(q)' = a
      <3>1. PICK q \in Processes : stage[q] = "dumping" /\ Subject(q) = a
        BY <2>1, <2>3 DEF IInv, PartialInv
      <3>2. q # p
        BY <2>2, <2>3, <3>1
      <3> QED
        BY <1>2, <3>1, <3>2, OthersStay DEF Subject
    <2>4. CASE StartTraining(p)
      <3>1. /\ files' = [files EXCEPT ![trained + 1] = "partial"] /\ stage'[p] = "dumping"
            /\ task'[p] = [kind |-> "train", artifact |-> trained + 1]
        BY <1>t, <2>4 DEF StartTraining, Begin, GoTo, Types
      <3>2. Subject(p)' = trained + 1 /\ files'[a] = IF a = trained + 1 THEN "partial" ELSE files[a]
        BY <1>t, <3>1 DEF Subject, Types
      <3>3. ~FinishArtifact(p)
        BY <2>4 DEF StartTraining, Begin, FinishArtifact
      <3> QED
        BY <2>3, <3>1, <3>2, <3>3
    <2>5. CASE \E b \in Artifacts : StartRollback(p, b)
      <3>1. files' = files /\ ~FinishArtifact(p)
        BY <2>5 DEF StartRollback, Begin, FinishArtifact, volume
      <3> QED
        BY <2>3, <3>1
    <2>6. CASE FinishArtifact(p)
      <3>1. files'[a] = IF a = Subject(p) THEN "whole" ELSE files[a]
        BY <1>t, <2>6 DEF FinishArtifact, Types
      <3> QED
        BY <2>3, <3>1
    <2>7. CASE FilesStay(p) /\ ~FinishArtifact(p)
      <3>1. files'[a] \in {files[a], "absent"}
        BY <1>t, <2>7 DEF FilesStay, Types
      <3> QED
        BY <2>3, <2>7, <3>1
    <2> QED
      BY <1>2, <2>4, <2>5, <2>6, <2>7, FilesSteps
  <1> QED
    BY <1>1, <1>2 DEF Next, Step

LEMMA InitIInv == Init => IInv
  <1> SUFFICES ASSUME Init PROVE IInv
    OBVIOUS
  <1>c. DefaultManifest \in Manifests /\ NoTask \in Tasks
    BY Constants
  <1>k. MaxTrainings \in Nat /\ MaxRollbacks \in Nat /\ MaxCrashes \in Nat /\ Keep \in Nat \ {0}
    BY RegistryAssumption
  <1>1. TypeOK
    <2>1. /\ files \in [Artifacts -> {"absent", "partial", "whole"}] /\ dumped \subseteq Artifacts
          /\ model \in Artifacts \cup {NoArtifact, Torn} /\ manifest \in Manifests \cup {Torn}
      BY <1>c DEF Init
    <2>2. /\ stage \in [Processes -> Stages] /\ task \in [Processes -> Tasks]
          /\ draft \in [Processes -> Manifests]
      BY <1>c DEF Init, Stages
    <2>3. /\ doomed \in [Processes -> Seq(Artifacts)] /\ mixed \in [Processes -> BOOLEAN]
          /\ cache \in [Processes -> Artifacts \cup {NoArtifact}]
      BY DEF Init
    <2>4. trained \in 0..MaxTrainings /\ rollbacks \in 0..MaxRollbacks /\ crashes \in 0..MaxCrashes
      BY <1>k DEF Init
    <2> QED
      BY <2>1, <2>2, <2>3, <2>4 DEF Init, TypeOK
  <1>2. Sound(DefaultManifest)
    BY DEF Sound, DefaultManifest, Distinct, Listed
  <1>3. ManifestsSound
    BY <1>2 DEF Init, ManifestsSound
  <1>4. TaskInv
    BY DEF Init, TaskInv, TaskOf, Quiet
  <1>5. FilesInv
    BY DEF Init, FilesInv
  <1>6. UsedInv
    BY DEF Init, UsedInv
  <1>7. Rest
    <2>1. /\ manifest = DefaultManifest /\ Stored = {} /\ crashes = 0 /\ model = NoArtifact
      BY DEF Init, Stored
    <2>2. Listed(manifest) = {} /\ manifest.artifacts = << >> /\ manifest.active = NoArtifact
      BY <2>1 DEF Listed, DefaultManifest
    <2>3. Surplus(manifest) = 0
      BY <1>k, <2>2 DEF Surplus
    <2>4. Cardinality(Stored \ Listed(manifest)) = 0 /\ Cardinality(Listed(manifest) \ Stored) = 0
      <3>1. Stored \ Listed(manifest) = {} /\ Listed(manifest) \ Stored = {}
        BY <2>1, <2>2
      <3> QED
        BY <3>1, FS_EmptySet
    <2>5. Settled(manifest)
      BY <2>1, <2>2, <2>3, <2>4 DEF Settled
    <2>6. manifest # Torn
      BY <2>1, <1>c, TornAssumption
    <2> QED
      BY <2>1, <2>2, <2>5, <2>6 DEF Rest
  <1>8. SoloInv
    BY <1>7 DEF Init, SoloInv, Quiet
  <1>9. PartialInv
    BY DEF Init, PartialInv
  <1> QED
    BY <1>1, <1>3, <1>4, <1>5, <1>6, <1>8, <1>9 DEF IInv

LEMMA NextIInv == IInv /\ [Next]_vars => IInv'
  BY NextType, NextSound, NextTask, NextFiles, NextUsed, NextSolo, NextPartial DEF IInv
-----------------------------------------------------------------------------
(* What every reachable state of the registry satisfies. *)
THEOREM InductiveInvariant == Spec => []IInv
  <1>1. Init => IInv
    BY InitIInv
  <1>2. IInv /\ [Next]_vars => IInv'
    BY NextIInv
  <1> QED
    BY <1>1, <1>2, PTL DEF Spec

(* Files, manifest copies and caches keep their types, and no cache ever holds
   a torn model.joblib. *)
THEOREM TypeCorrect == Spec => []TypeOK
  <1>1. IInv => TypeOK
    BY DEF IInv
  <1> QED
    BY <1>1, InductiveInvariant, PTL

(* Whatever processes write over each other's updates and wherever they are
   killed, a manifest.json that can be read lists no artifact twice and its
   active artifact first. *)
THEOREM ManifestCoherent == Spec => []ManifestIsCoherent
  <1>1. IInv => ManifestIsCoherent
    BY DEF IInv, ManifestsSound, Sound, Distinct, ManifestIsCoherent
  <1> QED
    BY <1>1, InductiveInvariant, PTL

(* No process lists, installs or serves an artifact whose file was never
   complete, not even by a rollback to the file a killed training leaves. *)
THEOREM OnlyDumped == Spec => []OnlyDumpedIsUsed
  <1>1. IInv => OnlyDumpedIsUsed
    BY DEF IInv, ManifestsSound, Sound, UsedInv, OnlyDumpedIsUsed
  <1> QED
    BY <1>1, InductiveInvariant, PTL

(* Undisturbed trainings and rollbacks leave manifest, files and model.joblib
   in agreement, however many there have been. *)
THEOREM Agrees == Spec => []RegistryAgrees
  <1>1. IInv => RegistryAgrees
    <2> SUFFICES ASSUME IInv, AtRest, ~overlapped, crashes = 0
                 PROVE  /\ manifest # Torn
                        /\ Listed(manifest) = Whole /\ Stored = Whole
                        /\ Len(manifest.artifacts) <= Keep
                        /\ model = manifest.active
      BY DEF RegistryAgrees
    <2>t. Types
      BY TypeFacts
    <2>1. manifest # Torn /\ Settled(manifest) /\ model = manifest.active
      BY DEF IInv, SoloInv, Rest
    <2>2. manifest \in Manifests /\ Listed(manifest) \subseteq Artifacts /\ Stored \subseteq Artifacts
      BY <2>t, <2>1, SurplusType DEF Types, Stored
    <2>3. /\ Cardinality(Stored \ Listed(manifest)) \in Nat /\ Cardinality(Listed(manifest) \ Stored) \in Nat
          /\ Surplus(manifest) \in Nat /\ Len(manifest.artifacts) \in Nat /\ Keep \in Nat
      BY <2>2, SurplusType, ArtifactSets
    <2>4. /\ Cardinality(Stored \ Listed(manifest)) = 0 /\ Cardinality(Listed(manifest) \ Stored) = 0
          /\ Surplus(manifest) = 0
      BY <2>1, <2>3 DEF Settled
    <2>5. Stored \ Listed(manifest) = {} /\ Listed(manifest) \ Stored = {}
      BY <2>2, <2>4, ArtifactSets, FS_EmptySet
    <2>6. Len(manifest.artifacts) <= Keep
      BY <2>3, <2>4 DEF Surplus
    <2>7. Stored = Whole
      <3>1. \A a \in Artifacts : files[a] # "partial"
        BY DEF IInv, PartialInv, AtRest, Quiet
      <3> QED
        BY <2>t, <3>1 DEF Stored, Whole, Types
    <2> QED
      BY <2>1, <2>5, <2>6, <2>7
  <1> QED
    BY <1>1, InductiveInvariant, PTL

(* Killing processes that work one at a time leaves at most one file unlisted
   and one entry without its file for each kill. *)
THEOREM DeathCosts == Spec => []DeathCostsOneArtifact
  <1>1. IInv => DeathCostsOneArtifact
    <2> SUFFICES ASSUME IInv, AtRest, ~overlapped, manifest # Torn
                 PROVE  /\ Cardinality(Stored \ Listed(manifest)) <= crashes
                        /\ Cardinality(Listed(manifest) \ Stored) <= crashes
      BY DEF DeathCostsOneArtifact
    <2>t. Types
      BY TypeFacts
    <2>1. Settled(manifest)
      BY DEF IInv, SoloInv, Rest
    <2>2. /\ Cardinality(Stored \ Listed(manifest)) \in Nat /\ Surplus(manifest) \in Nat /\ crashes \in Nat
      BY <2>t, SurplusType, ArtifactSets DEF Types, Stored
    <2> QED
      BY <2>1, <2>2 DEF Settled
  <1> QED
    BY <1>1, InductiveInvariant, PTL
=============================================================================
