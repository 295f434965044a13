--------------------------- MODULE AccountsProofs ---------------------------
(***************************************************************************)
(* Proofs about Accounts for any requests, e-mails, Google users, initial  *)
(* collections, faults, restarts and outages.                              *)
(***************************************************************************)
EXTENDS Accounts, SequenceTheorems, TLAPS

(* What each goroutine is there for, and what it can answer. *)
HandlerInv ==
    \A r \in Requests :
      /\ pc[r] = "idle" => input[r] = NoInput
      /\ pc[r] = "looking" => Op(r) \in {"register", "login", "google"}
      /\ pc[r] = "inserting" => Op(r) = "register"
      /\ pc[r] \in {"verifying", "creating", "refreshing"} => Op(r) = "google"
      /\ answer[r] # 0 => pc[r] = "done"
      /\ answer[r] = 201 => Op(r) = "register"
      /\ answer[r] = 200 => Op(r) \in {"login", "google"}

(* The index is there only when no two accounts share an e-mail. *)
IndexInv == indexed => EmailsDiffer

(* Who has not come to its insert, or was refused, has created no account. *)
NotYet(r) ==
    pc[r] \in {"idle", "verifying", "looking", "inserting", "creating"} \/ answer[r] \in {400, 401, 409}

CreatorsInv == \A r \in Requests : NotYet(r) => \A i \in DOMAIN users : users[i].by # r

(* Account i is one of Google's, for the e-mail asked for. *)
IsGoogles(r, i) ==
    /\ i \in DOMAIN users
    /\ users[i].Email = input[r].email /\ users[i].AuthProvider = "google"

(* Two logins have read account i before it had a subject. *)
Rivals(i) == \E p, q \in Claimants(i) : p # q

(* The subject a login that refreshes has read: its own when there was one. *)
SubjectRead(r) == IF r \in blank THEN None ELSE input[r].subject

(* A refresh is of such an account, which has still the subject that was read
   unless there are rivals. *)
RefreshInv == \A r \in Requests : pc[r] = "refreshing" =>
    /\ IsGoogles(r, found[r])
    /\ users[found[r]].OAuthSubject = SubjectRead(r) \/ Rivals(found[r])
    /\ r \notin blank => input[r].subject # None

(* Only logins that have come to the refresh have read a missing subject. *)
BlankInv == \A r \in blank : r \in Requests /\ pc[r] \in {"refreshing", "done", "broken"}

RegisteredInv ==
    \A r \in Requests : answer[r] = 201 => found[r] \in DOMAIN users /\ users[found[r]] = NewAccount(r)

IInv ==
    /\ TypeOK /\ HandlerInv /\ IndexInv /\ CreatorsInv /\ BlankInv
    /\ RefreshInv /\ RegisteredInv /\ TokenGoesToOwner
-----------------------------------------------------------------------------
LEMMA InputShape ==
  ASSUME TypeOK, NEW r \in Requests
  PROVE  /\ Op(r) \in {"register", "login"} => input[r].email \in Emails /\ input[r].password \in Passwords
         /\ Op(r) = "google" => input[r].email \in Emails /\ input[r].subject \in Subjects \cup {None}
  <1>1. input[r] \in Inputs \cup {NoInput}
    BY DEF TypeOK
  <1>2. CASE input[r] \in [op : {"register", "login"}, email : Emails, password : Passwords]
    BY <1>2 DEF Op
  <1>3. CASE input[r] \in [op : {"google"}, email : Emails, subject : Subjects \cup {None}, valid : BOOLEAN]
    BY <1>3 DEF Op
  <1>4. CASE input[r] \in [op : {"malformed", "blank"}]
    BY <1>4 DEF Op
  <1>5. CASE input[r] = NoInput
    BY <1>5 DEF Op, NoInput
  <1> QED
    BY <1>1, <1>2, <1>3, <1>4, <1>5 DEF Inputs

(* A refresh touches the subject of its account, and nothing else. *)
LEMMA RefreshOnly ==
  ASSUME IInv, NEW r \in Requests, pc[r] = "refreshing"
  PROVE  /\ Refreshed(r) \in Seq(AccountsSet) /\ Len(Refreshed(r)) = Len(users)
         /\ DOMAIN Refreshed(r) = DOMAIN users /\ found[r] \in DOMAIN users
         /\ \A i \in DOMAIN users : i # found[r] => Refreshed(r)[i] = users[i]
         /\ Refreshed(r)[found[r]] = [users[found[r]] EXCEPT !.OAuthSubject = input[r].subject]
         /\ users[found[r]] \in AccountsSet /\ users[found[r]].AuthProvider = "google"
  <1>1. /\ users \in Seq(AccountsSet) /\ found[r] \in DOMAIN users
        /\ users[found[r]].AuthProvider = "google"
    BY DEF IInv, TypeOK, RefreshInv, IsGoogles
  <1>2. users[found[r]] \in AccountsSet
    BY <1>1
  <1>3. input[r].subject \in Subjects \cup {None}
    BY InputShape DEF IInv, HandlerInv
  <1>4. [users[found[r]] EXCEPT !.AuthProvider = "google"] = users[found[r]]
    BY <1>1, <1>2 DEF AccountsSet
  <1> DEFINE once == [users EXCEPT ![found[r]].AuthProvider = "google"]
             new == [users[found[r]] EXCEPT !.OAuthSubject = input[r].subject]
  <1>5. once = users
    BY <1>1, <1>4
  <1>6. new \in AccountsSet
    BY <1>2, <1>3 DEF AccountsSet
  <1>7. Refreshed(r) = [once EXCEPT ![found[r]].OAuthSubject = input[r].subject]
    BY DEF Refreshed
  <1>8. Refreshed(r) = [users EXCEPT ![found[r]] = new]
    BY <1>5, <1>7
  <1> HIDE DEF new
  <1>9. [users EXCEPT ![found[r]] = new] \in Seq(AccountsSet)
    BY <1>1, <1>6
  <1>10. /\ Len([users EXCEPT ![found[r]] = new]) = Len(users)
         /\ DOMAIN [users EXCEPT ![found[r]] = new] = DOMAIN users
         /\ \A i \in DOMAIN users : i # found[r] => [users EXCEPT ![found[r]] = new][i] = users[i]
         /\ [users EXCEPT ![found[r]] = new][found[r]] = new
    BY <1>1, <1>6
  <1> QED
    BY <1>1, <1>2, <1>8, <1>9, <1>10 DEF new
-----------------------------------------------------------------------------
(* The steps after which the handler goes on. *)
GoesOn(r) ==
    /\ UNCHANGED << users, answer, token >>
    /\ \/ /\ pc[r] = "verifying" /\ pc'[r] = "looking" /\ UNCHANGED << found, blank >>
       \/ /\ pc[r] = "looking" /\ Op(r) = "register" /\ pc'[r] = "inserting"
          /\ UNCHANGED << found, blank >>
       \/ /\ pc[r] = "looking" /\ Op(r) = "google" /\ pc'[r] = "creating"
          /\ found'[r] = 0 /\ blank' = blank
       \/ /\ pc[r] = "looking" /\ Op(r) = "google" /\ pc'[r] = "refreshing"
          /\ IsGoogles(r, found'[r])
          /\ \/ users[found'[r]].OAuthSubject = None /\ blank' = blank \cup {r}
             \/ /\ users[found'[r]].OAuthSubject = input[r].subject /\ input[r].subject # None
                /\ blank' = blank

(* The account that login finds. *)
IsOwn(r, i) ==
    /\ i \in DOMAIN users
    /\ users[i].Email = input[r].email /\ users[i].Password = input[r].password

Creates(r) == Inserting(r) /\ Accepted(r) /\ users' = Inserted(r)

Refreshes(r) == pc[r] = "refreshing" /\ users' = Refreshed(r)

(* The steps that answer, by what they answer. *)
Answers(r) ==
    /\ pc'[r] = "done" /\ blank' = blank
    /\ \/ /\ answer'[r] \in {400, 401, 409} /\ UNCHANGED << users, token >>
          /\ pc[r] \in {"verifying", "looking", "inserting", "creating"}
          /\ found'[r] \in 0..Len(users)
       \/ /\ answer'[r] = 500 /\ UNCHANGED << found, token >>
          /\ users' = users \/ Creates(r) \/ Refreshes(r)
       \/ /\ answer'[r] = 201 /\ Op(r) = "register" /\ Creates(r)
          /\ found'[r] = Len(users') /\ token' = token
       \/ /\ answer'[r] = 200 /\ Op(r) = "google" /\ Creates(r)
          /\ found'[r] = Len(users') /\ token'[r] = Len(users')
       \/ /\ answer'[r] = 200 /\ Op(r) = "login" /\ IsOwn(r, token'[r])
          /\ UNCHANGED << users, found >>
       \/ /\ answer'[r] = 200 /\ Op(r) = "google" /\ Refreshes(r)
          /\ found' = found /\ token'[r] = found[r]

(* A step of r after its first one: it concerns r's own state only, apart from
   the collection, where it adds r's account or refreshes the one it found. *)
OwnStep(r) ==
    /\ pc[r] \in InFlight
    /\ UNCHANGED << input, indexed >>
    /\ pc' = [pc EXCEPT ![r] = pc'[r]] /\ answer' = [answer EXCEPT ![r] = answer'[r]]
    /\ found' = [found EXCEPT ![r] = found'[r]] /\ token' = [token EXCEPT ![r] = token'[r]]
    /\ GoesOn(r) \/ Answers(r)

LEMMA MatchesFound ==
  ASSUME TypeOK, NEW r \in Requests, NEW i \in Matches(r)
  PROVE  /\ i \in 0..Len(users)
         /\ i # 0 => i \in DOMAIN users /\ users[i].Email = input[r].email
  BY DEF Matches, TypeOK

LEMMA HandleCases ==
  ASSUME IInv, NEW r \in Requests, Handle(r)
  PROVE  Arrive(r) \/ OwnStep(r)
  <1>t. /\ pc \in [Requests -> {"idle", "done", "broken"} \cup InFlight]
        /\ answer \in [Requests -> {0, 200, 201, 400, 401, 409, 500}]
        /\ found \in [Requests -> 0..Len(users)] /\ token \in [Requests -> 0..Len(users)]
    BY DEF IInv, TypeOK
  <1>h. /\ pc[r] = "looking" => Op(r) \in {"register", "login", "google"}
        /\ pc[r] = "inserting" => Op(r) = "register"
        /\ pc[r] \in {"verifying", "creating", "refreshing"} => Op(r) = "google"
    BY DEF IInv, HandlerInv
  <1>m. /\ \A i \in Matches(r) : i \in 0..Len(users)
        /\ \A i \in Matches(r) : i # 0 => i \in DOMAIN users /\ users[i].Email = input[r].email
    BY MatchesFound DEF IInv
  <1> USE DEF OwnStep, InFlight, GoTo, Respond
  <1>1. CASE RegisterLooks(r)
    BY <1>1, <1>t DEF RegisterLooks, GoesOn, Answers
  <1>2. CASE LoginAnswers(r)
    <2>1. PICK i \in Matches(r) :
            IF i # 0 /\ users[i].Password = input[r].password
            THEN Respond(r, 200) /\ token' = [token EXCEPT ![r] = i]
            ELSE Respond(r, 401) /\ UNCHANGED token
      BY <1>2 DEF LoginAnswers
    <2>2. CASE i # 0 /\ users[i].Password = input[r].password
      <3>1. IsOwn(r, i) /\ token'[r] = i
        BY <1>m, <1>t, <2>1, <2>2 DEF IsOwn
      <3> QED
        BY <1>2, <1>t, <2>1, <2>2, <3>1 DEF LoginAnswers, Answers
    <2>3. CASE ~(i # 0 /\ users[i].Password = input[r].password)
      BY <1>2, <1>t, <2>1, <2>3 DEF LoginAnswers, Answers
    <2> QED
      BY <2>2, <2>3
  <1>3. CASE LookFails(r)
    BY <1>3, <1>t DEF LookFails, Answers
  <1>4. CASE CreateUser(r)
    BY <1>4, <1>t, <1>h DEF CreateUser, Answers, Creates, Inserting
  <1>5. CASE CreateRefused(r)
    BY <1>5, <1>t DEF CreateRefused, Answers, Inserting
  <1>6. CASE CreateFails(r)
    BY <1>6, <1>t DEF CreateFails, Answers, Creates, Inserting
  <1>7. CASE VerifyToken(r)
    BY <1>7, <1>t DEF VerifyToken, GoesOn, Answers
  <1>8. CASE GoogleLooks(r)
    <2>1. PICK i \in Matches(r) :
            /\ found' = [found EXCEPT ![r] = i]
            /\ blank' = IF i # 0 /\ MayRefresh(r, i) /\ users[i].OAuthSubject = None
                        THEN blank \cup {r} ELSE blank
            /\ IF i = 0 THEN GoTo(r, "creating") /\ UNCHANGED answer
               ELSE IF MayRefresh(r, i) THEN GoTo(r, "refreshing") /\ UNCHANGED answer
               ELSE Respond(r, 409)
      BY <1>8 DEF GoogleLooks
    <2>2. ASSUME i # 0, MayRefresh(r, i)
          PROVE  IsGoogles(r, i) /\ users[i].OAuthSubject \in {None, input[r].subject}
      BY <1>m, <2>2 DEF MayRefresh, IsGoogles
    <2>3. found'[r] = i /\ i \in 0..Len(users)
      BY <1>m, <1>t, <2>1
    <2>4. CASE i # 0 /\ MayRefresh(r, i)
      <3>1. CASE users[i].OAuthSubject = None
        BY <1>8, <1>t, <2>1, <2>2, <2>3, <2>4, <3>1 DEF GoogleLooks, GoesOn
      <3>2. CASE users[i].OAuthSubject # None
        BY <1>8, <1>t, <2>1, <2>2, <2>3, <2>4, <3>2 DEF GoogleLooks, GoesOn
      <3> QED
        BY <3>1, <3>2
    <2>5. CASE ~(i # 0 /\ MayRefresh(r, i))
      BY <1>8, <1>t, <2>1, <2>3, <2>5 DEF GoogleLooks, GoesOn, Answers
    <2> QED
      BY <2>4, <2>5
  <1>9. CASE RefreshUser(r)
    BY <1>9, <1>t, <1>h DEF RefreshUser, Answers, Refreshes
  <1>10. CASE RefreshFails(r)
    BY <1>10, <1>t DEF RefreshFails, Answers, Refreshes
  <1> QED
    BY <1>1, <1>2, <1>3, <1>4, <1>5, <1>6, <1>7, <1>8, <1>9, <1>10 DEF Handle

(* Arrive in the form of its outcomes. *)
LEMMA ArriveCases ==
  ASSUME IInv, NEW r \in Requests, Arrive(r)
  PROVE  /\ pc[r] = "idle" /\ answer[r] = 0
         /\ UNCHANGED << users, indexed, found, blank, token, verifier, environment >>
         /\ input' = [input EXCEPT ![r] = input'[r]] /\ input'[r] \in Inputs
         /\ pc' = [pc EXCEPT ![r] = pc'[r]] /\ answer' = [answer EXCEPT ![r] = answer'[r]]
         /\ \/ pc'[r] = "done" /\ answer'[r] \in {400, 401}
            \/ answer'[r] = 0 /\ pc'[r] = "verifying" /\ input'[r].op = "google"
            \/ answer'[r] = 0 /\ pc'[r] = "looking" /\ input'[r].op \in {"register", "login"}
  <1>t. /\ pc \in [Requests -> {"idle", "done", "broken"} \cup InFlight]
        /\ answer \in [Requests -> {0, 200, 201, 400, 401, 409, 500}]
        /\ input \in [Requests -> Inputs \cup {NoInput}]
    BY DEF IInv, TypeOK
  <1>1. pc[r] = "idle" /\ answer[r] = 0
    BY <1>t DEF Arrive, IInv, HandlerInv
  <1>2. \A in \in Inputs : in.op \in {"malformed", "blank", "google", "register", "login"}
    BY DEF Inputs
  <1> QED
    BY <1>t, <1>1, <1>2 DEF Arrive, Respond, GoTo
-----------------------------------------------------------------------------
(* A new account is well-formed, and is added at the end. *)
LEMMA Created ==
  ASSUME IInv, NEW r \in Requests, Creates(r)
  PROVE  /\ NewAccount(r) \in AccountsSet
         /\ NewAccount(r).Email = input[r].email /\ NewAccount(r).by = r
         /\ users' \in Seq(AccountsSet) /\ Len(users) \in Nat /\ Len(users') = Len(users) + 1
         /\ \A i \in DOMAIN users : i \in DOMAIN users' /\ users'[i] = users[i]
         /\ \A i \in DOMAIN users' : i \in DOMAIN users \/ i = Len(users')
         /\ Len(users') \in DOMAIN users' /\ users'[Len(users')] = NewAccount(r)
  <1>1. Op(r) = "register" \/ Op(r) = "google"
    BY DEF Creates, Inserting, IInv, HandlerInv
  <1>2. /\ Op(r) = "register" => input[r].email \in Emails /\ input[r].password \in Passwords
        /\ Op(r) = "google" => input[r].email \in Emails /\ input[r].subject \in Subjects \cup {None}
    BY InputShape DEF IInv
  <1>3. /\ NewAccount(r) \in AccountsSet
        /\ NewAccount(r).Email = input[r].email /\ NewAccount(r).by = r
    BY <1>1, <1>2 DEF NewAccount, AccountsSet
  <1>5. users \in Seq(AccountsSet) /\ users' = Append(users, NewAccount(r))
    BY DEF IInv, TypeOK, Creates, Inserted
  <1> QED
    BY <1>3, <1>5

(* An account that is there stays, as it is but for a subject of Google's. *)
Stays(i) ==
    /\ i \in DOMAIN users'
    /\ users'[i] = [users[i] EXCEPT !.OAuthSubject = users'[i].OAuthSubject]
    /\ users[i].AuthProvider # "google" => users'[i] = users[i]

LEMMA StaysSame ==
  ASSUME TypeOK, NEW i \in DOMAIN users, Stays(i)
  PROVE  /\ i \in DOMAIN users'
         /\ users'[i].Email = users[i].Email /\ users'[i].Password = users[i].Password
         /\ users'[i].AuthProvider = users[i].AuthProvider /\ users'[i].by = users[i].by
         /\ users[i].AuthProvider # "google" => users'[i] = users[i]
  <1>1. users[i] \in AccountsSet
    BY DEF TypeOK
  <1> QED
    BY <1>1 DEF Stays, AccountsSet

(* The collection is the same, one account longer or refreshed in one. *)
LEMMA StepOnUsers ==
  ASSUME IInv, NEW r \in Requests, Arrive(r) \/ OwnStep(r)
  PROVE  users' = users \/ Creates(r) \/ Refreshes(r)
  BY ArriveCases DEF OwnStep, GoesOn, Answers

(* No step removes an account or changes one in more than the subject. *)
LEMMA NextGrows ==
  ASSUME IInv, [Next]_vars
  PROVE  /\ users' \in Seq(AccountsSet) /\ Len(users) \in Nat /\ Len(users) <= Len(users')
         /\ \A i \in DOMAIN users : Stays(i)
  <1>t. users \in Seq(AccountsSet) /\ Len(users) \in Nat
    BY DEF IInv, TypeOK
  <1>a. \A i \in DOMAIN users : users[i] = [users[i] EXCEPT !.OAuthSubject = users[i].OAuthSubject]
    <2>1. \A u \in AccountsSet : u = [u EXCEPT !.OAuthSubject = u.OAuthSubject]
      BY DEF AccountsSet
    <2> QED
      BY <1>t, <2>1
  <1>1. CASE users' = users
    BY <1>1, <1>t, <1>a DEF Stays
  <1>2. ASSUME NEW r \in Requests, Creates(r)
        PROVE  /\ users' \in Seq(AccountsSet) /\ Len(users) <= Len(users')
               /\ \A i \in DOMAIN users : Stays(i)
    <2>1. /\ users' \in Seq(AccountsSet) /\ Len(users') = Len(users) + 1
          /\ \A i \in DOMAIN users : i \in DOMAIN users' /\ users'[i] = users[i]
      BY <1>2, Created
    <2> QED
      BY <1>t, <1>a, <2>1 DEF Stays
  <1>3. ASSUME NEW r \in Requests, Refreshes(r)
        PROVE  /\ users' \in Seq(AccountsSet) /\ Len(users) <= Len(users')
               /\ \A i \in DOMAIN users : Stays(i)
    <2>1. /\ users' \in Seq(AccountsSet) /\ Len(users') = Len(users)
          /\ DOMAIN users' = DOMAIN users
          /\ \A i \in DOMAIN users : i # found[r] => users'[i] = users[i]
          /\ users'[found[r]] = [users[found[r]] EXCEPT !.OAuthSubject = input[r].subject]
          /\ users[found[r]] \in AccountsSet /\ users[found[r]].AuthProvider = "google"
      BY <1>3, RefreshOnly DEF Refreshes
    <2>2. ASSUME NEW i \in DOMAIN users PROVE Stays(i)
      <3>1. CASE i # found[r]
        BY <1>a, <2>1, <3>1 DEF Stays
      <3>2. CASE i = found[r]
        <4>1. users'[i].OAuthSubject = input[r].subject
          BY <2>1, <3>2 DEF AccountsSet
        <4> QED
          BY <2>1, <3>2, <4>1 DEF Stays
      <3> QED
        BY <3>1, <3>2
    <2> QED
      BY <1>t, <2>1, <2>2
  <1>4. CASE GoogleGoesDown \/ GoogleComesBack \/ Restart \/ UNCHANGED vars
    BY <1>1, <1>4 DEF GoogleGoesDown, GoogleComesBack, Restart, vars
  <1>5. ASSUME NEW r \in Requests, Handle(r)
        PROVE  users' = users \/ Creates(r) \/ Refreshes(r)
    BY <1>5, HandleCases, StepOnUsers
  <1> QED
    BY <1>t, <1>1, <1>2, <1>3, <1>4, <1>5 DEF Next

(* The variables that are not the collection or a request's own. *)
LEMMA NextEnvironment ==
  ASSUME IInv, [Next]_vars
  PROVE  /\ verifier' \in {"unset", "ready", "failed"} /\ google' \in {"up", "down"}
         /\ faults' \in 0..MaxFaults /\ restarts' \in 0..MaxRestarts /\ outages' \in 0..MaxOutages
  <1>t. /\ verifier \in {"unset", "ready", "failed"} /\ google \in {"up", "down"}
        /\ faults \in 0..MaxFaults /\ restarts \in 0..MaxRestarts /\ outages \in 0..MaxOutages
        /\ MaxFaults \in Nat /\ MaxRestarts \in Nat /\ MaxOutages \in Nat
    BY AccountsAssumption DEF IInv, TypeOK
  <1>1. ASSUME NEW r \in Requests, Handle(r)
        PROVE  /\ verifier' \in {"unset", "ready", "failed"} /\ google' = google
               /\ faults' \in 0..MaxFaults /\ restarts' = restarts /\ outages' = outages
    BY <1>1, <1>t
    DEF Handle, Arrive, RegisterLooks, LoginAnswers, LookFails, CreateUser, CreateRefused, CreateFails,
        VerifyToken, VerifierAfter, GoogleLooks, RefreshUser, RefreshFails, Fault, environment
  <1>2. CASE GoogleGoesDown \/ GoogleComesBack \/ Restart \/ UNCHANGED vars
    BY <1>2, <1>t DEF GoogleGoesDown, GoogleComesBack, Restart, vars
  <1> QED
    BY <1>t, <1>1, <1>2 DEF Next

LEMMA NextType == IInv /\ [Next]_vars => TypeOK'
  <1> SUFFICES ASSUME IInv, [Next]_vars PROVE TypeOK'
    OBVIOUS
  <1>t. /\ pc \in [Requests -> {"idle", "done", "broken"} \cup InFlight]
        /\ answer \in [Requests -> {0, 200, 201, 400, 401, 409, 500}]
        /\ input \in [Requests -> Inputs \cup {NoInput}] /\ indexed \in BOOLEAN
        /\ found \in [Requests -> 0..Len(users)] /\ token \in [Requests -> 0..Len(users)]
        /\ blank \subseteq Requests
    BY DEF IInv, TypeOK
  <1>p. pc \in [Requests -> {"idle", "done", "broken"} \cup InFlight]
    BY <1>t
  <1>a. answer \in [Requests -> {0, 200, 201, 400, 401, 409, 500}]
    BY <1>t
  <1>g. /\ users' \in Seq(AccountsSet) /\ Len(users) \in Nat /\ Len(users') \in Nat
        /\ 0..Len(users) \subseteq 0..Len(users')
    BY NextGrows
  <1>w. found \in [Requests -> 0..Len(users')] /\ token \in [Requests -> 0..Len(users')]
    BY <1>t, <1>g
  <1>1. ASSUME NEW r \in Requests, Arrive(r) PROVE TypeOK'
    <2>1. /\ UNCHANGED << indexed, found, blank, token >>
          /\ input' = [input EXCEPT ![r] = input'[r]] /\ input'[r] \in Inputs
          /\ pc' = [pc EXCEPT ![r] = pc'[r]] /\ answer' = [answer EXCEPT ![r] = answer'[r]]
          /\ answer'[r] \in {0, 400, 401} /\ pc'[r] \in {"done", "verifying", "looking"}
      BY <1>1, ArriveCases
    <2>2. pc'[r] \in {"idle", "done", "broken"} \cup InFlight /\ pc' = [pc EXCEPT ![r] = pc'[r]]
      BY <2>1 DEF InFlight
    <2>3. answer'[r] \in {0, 400, 401} /\ answer' = [answer EXCEPT ![r] = answer'[r]]
      BY <2>1
    <2>4. pc' \in [Requests -> {"idle", "done", "broken"} \cup InFlight]
      BY <1>p, <2>2
    <2>5. answer' \in [Requests -> {0, 200, 201, 400, 401, 409, 500}]
      BY <1>a, <2>3
    <2>6. input' \in [Requests -> Inputs \cup {NoInput}]
      BY <1>t, <2>1
    <2> QED
      BY <1>t, <1>g, <1>w, <2>1, <2>4, <2>5, <2>6, NextEnvironment DEF TypeOK
  <1>2. ASSUME NEW r \in Requests, OwnStep(r) PROVE TypeOK'
    <2>1. /\ pc' \in [Requests -> {"idle", "done", "broken"} \cup InFlight]
          /\ answer' \in [Requests -> {0, 200, 201, 400, 401, 409, 500}]
      <3>1. /\ pc'[r] \in {"idle", "done", "broken"} \cup InFlight
            /\ answer'[r] \in {0, 200, 201, 400, 401, 409, 500}
        BY <1>2, <1>t DEF OwnStep, GoesOn, Answers, InFlight
      <3>2. pc' = [pc EXCEPT ![r] = pc'[r]] /\ answer' = [answer EXCEPT ![r] = answer'[r]]
        BY <1>2 DEF OwnStep
      <3>3. pc' \in [Requests -> {"idle", "done", "broken"} \cup InFlight]
        BY <1>p, <3>1, <3>2
      <3>4. answer' \in [Requests -> {0, 200, 201, 400, 401, 409, 500}]
        BY <1>a, <3>1, <3>2
      <3> QED
        BY <3>3, <3>4
    <2>2. found'[r] \in 0..Len(users') /\ token'[r] \in 0..Len(users') /\ blank' \subseteq Requests
      BY <1>2, <1>t, <1>g, <1>w DEF OwnStep, GoesOn, Answers, IsGoogles, IsOwn
    <2>3. found' \in [Requests -> 0..Len(users')] /\ token' \in [Requests -> 0..Len(users')]
      BY <1>2, <1>w, <2>2 DEF OwnStep
    <2> QED
      BY <1>2, <1>t, <1>g, <2>1, <2>2, <2>3, NextEnvironment DEF TypeOK, OwnStep
  <1>3. CASE Restart
    <2>1. pc' \in [Requests -> {"idle", "done", "broken"} \cup InFlight] /\ indexed' \in BOOLEAN
      BY <1>3, <1>t DEF Restart, IndexAfterStart
    <2> QED
      BY <1>3, <1>t, <1>g, <2>1, NextEnvironment DEF TypeOK, Restart
  <1>4. CASE GoogleGoesDown \/ GoogleComesBack \/ UNCHANGED vars
    BY <1>4, <1>t, <1>g, NextEnvironment
    DEF TypeOK, GoogleGoesDown, GoogleComesBack, requestVars, vars
  <1> QED
    BY <1>1, <1>2, <1>3, <1>4, HandleCases DEF Next
-----------------------------------------------------------------------------
(* The kinds of step the invariants below tell apart. *)
Quiet == UNCHANGED << users, indexed, requestVars >>

LEMMA NextCases ==
  ASSUME IInv, [Next]_vars
  PROVE  \/ \E r \in Requests : Arrive(r) \/ OwnStep(r)
         \/ Restart
         \/ Quiet
  BY HandleCases DEF Next, GoogleGoesDown, GoogleComesBack, vars, Quiet, requestVars

(* What a request's own step leaves alone of the others. *)
LEMMA OthersStay ==
  ASSUME IInv, NEW r \in Requests, Arrive(r) \/ OwnStep(r), NEW q \in Requests, q # r
  PROVE  /\ pc'[q] = pc[q] /\ answer'[q] = answer[q] /\ input'[q] = input[q]
         /\ found'[q] = found[q] /\ token'[q] = token[q]
         /\ q \in blank' <=> q \in blank
  <1>1. /\ pc' = [pc EXCEPT ![r] = pc'[r]] /\ answer' = [answer EXCEPT ![r] = answer'[r]]
        /\ input' = input \/ input' = [input EXCEPT ![r] = input'[r]]
        /\ found' = found \/ found' = [found EXCEPT ![r] = found'[r]]
        /\ token' = token \/ token' = [token EXCEPT ![r] = token'[r]]
        /\ blank' = blank \/ blank' = blank \cup {r}
    BY ArriveCases DEF OwnStep, GoesOn, Answers
  <1> QED
    BY <1>1 DEF IInv, TypeOK

(* Restart leaves everything but the stages, the index and the verifier. *)
LEMMA RestartStays ==
  ASSUME IInv, Restart
  PROVE  /\ UNCHANGED << users, input, found, blank, answer, token >>
         /\ \A q \in Requests : /\ pc[q] \in InFlight => pc'[q] = "broken"
                                /\ pc[q] \notin InFlight => pc'[q] = pc[q]
  BY DEF Restart

LEMMA NextHandler == IInv /\ [Next]_vars => HandlerInv'
  <1> SUFFICES ASSUME IInv, [Next]_vars PROVE HandlerInv'
    OBVIOUS
  <1>h. HandlerInv /\ answer \in [Requests -> {0, 200, 201, 400, 401, 409, 500}]
    BY DEF IInv, TypeOK
  <1>1. ASSUME NEW r \in Requests, Arrive(r) \/ OwnStep(r), NEW q \in Requests
        PROVE  /\ pc'[q] = "idle" => input'[q] = NoInput
               /\ pc'[q] = "looking" => Op(q)' \in {"register", "login", "google"}
               /\ pc'[q] = "inserting" => Op(q)' = "register"
               /\ pc'[q] \in {"verifying", "creating", "refreshing"} => Op(q)' = "google"
               /\ answer'[q] # 0 => pc'[q] = "done"
               /\ answer'[q] = 201 => Op(q)' = "register"
               /\ answer'[q] = 200 => Op(q)' \in {"login", "google"}
    <2>1. CASE q # r
      BY <1>1, <1>h, <2>1, OthersStay DEF HandlerInv, Op
    <2>2. CASE q = r /\ Arrive(r)
      BY <2>2, ArriveCases DEF Op
    <2>3. CASE q = r /\ OwnStep(r)
      BY <1>h, <2>3 DEF OwnStep, GoesOn, Answers, HandlerInv, Op, InFlight
    <2> QED
      BY <1>1, <2>1, <2>2, <2>3
  <1>2. CASE Restart
    BY <1>2, <1>h, RestartStays DEF HandlerInv, Op, InFlight
  <1>3. CASE Quiet
    BY <1>3, <1>h DEF Quiet, requestVars, HandlerInv, Op
  <1> QED
    BY <1>1, <1>2, <1>3, NextCases DEF HandlerInv

LEMMA NextIndex == IInv /\ [Next]_vars => IndexInv'
  <1> SUFFICES ASSUME IInv, [Next]_vars PROVE IndexInv'
    OBVIOUS
  <1>i. indexed => EmailsDiffer
    BY DEF IInv, IndexInv
  <1>1. ASSUME NEW r \in Requests, Arrive(r) \/ OwnStep(r) PROVE IndexInv'
    <2>1. indexed' = indexed /\ (users' = users \/ Creates(r) \/ Refreshes(r))
      BY <1>1, ArriveCases DEF OwnStep, GoesOn, Answers
    <2>2. CASE users' = users
      BY <1>i, <2>1, <2>2 DEF IndexInv, EmailsDiffer
    <2>3. CASE Creates(r)
      <3>1. ASSUME indexed
            PROVE  EmailsDiffer'
        <4>1. \A i \in DOMAIN users : users[i].Email # input[r].email
          BY <2>3, <3>1 DEF Creates, Accepted
        <4> QED
          BY <1>i, <2>3, <3>1, <4>1, Created DEF EmailsDiffer
      <3> QED
        BY <2>1, <3>1 DEF IndexInv
    <2>4. CASE Refreshes(r)
      <3>1. \A i \in DOMAIN users : users'[i].Email = users[i].Email
        BY NextGrows, StaysSame DEF IInv
      <3>2. DOMAIN users' = DOMAIN users
        BY <2>4, RefreshOnly DEF Refreshes
      <3> QED
        BY <1>i, <2>1, <3>1, <3>2 DEF IndexInv, EmailsDiffer
    <2> QED
      BY <2>1, <2>2, <2>3, <2>4
  <1>2. CASE Restart
    BY <1>2, <1>i DEF Restart, IndexAfterStart, IndexInv, EmailsDiffer
  <1>3. CASE Quiet
    BY <1>3, <1>i DEF Quiet, IndexInv, EmailsDiffer
  <1> QED
    BY <1>1, <1>2, <1>3, NextCases

LEMMA NextCreators == IInv /\ [Next]_vars => CreatorsInv'
  <1> SUFFICES ASSUME IInv, [Next]_vars, NEW q \in Requests, NotYet(q)'
               PROVE  \A i \in DOMAIN users' : users'[i].by # q
    BY DEF CreatorsInv
  <1>c. NotYet(q) => \A i \in DOMAIN users : users[i].by # q
    BY DEF IInv, CreatorsInv
  <1>h. answer[q] # 0 => pc[q] = "done"
    BY DEF IInv, HandlerInv
  <1>1. ASSUME NEW r \in Requests, Arrive(r) PROVE NotYet(q) /\ users' = users
    <2>1. CASE q = r
      BY <1>1, <2>1, ArriveCases DEF NotYet
    <2>2. CASE q # r
      BY <1>1, <2>2, ArriveCases, OthersStay DEF NotYet
    <2> QED
      BY <1>1, <2>1, <2>2, ArriveCases
  <1>2. ASSUME NEW r \in Requests, OwnStep(r) PROVE \A i \in DOMAIN users' : users'[i].by # q
    <2>1. CASE q = r
      <3>1. users' = users /\ (NotYet(q) \/ pc'[q] = "refreshing")
        BY <1>2, <1>h, <2>1 DEF OwnStep, GoesOn, Answers, NotYet, InFlight
      <3>2. NotYet(q)
        BY <1>2, <2>1, <3>1 DEF OwnStep, GoesOn, Answers, NotYet
      <3> QED
        BY <1>c, <3>1, <3>2
    <2>2. CASE q # r
      <3>1. NotYet(q)
        BY <1>2, <2>2, OthersStay DEF NotYet
      <3>2. users' = users \/ Creates(r) \/ Refreshes(r)
        BY <1>2, StepOnUsers
      <3>3. CASE users' = users
        BY <1>c, <3>1, <3>3
      <3>4. CASE Creates(r)
        BY <1>c, <2>2, <3>1, <3>4, Created
      <3>5. CASE Refreshes(r)
        <4>1. DOMAIN users' = DOMAIN users
          BY <3>5, RefreshOnly DEF Refreshes
        <4>2. \A i \in DOMAIN users : users'[i].by = users[i].by
          BY NextGrows, StaysSame DEF IInv
        <4> QED
          BY <1>c, <3>1, <4>1, <4>2
      <3> QED
        BY <3>2, <3>3, <3>4, <3>5
    <2> QED
      BY <2>1, <2>2
  <1>3. CASE Restart
    <2>1. NotYet(q) /\ users' = users
      BY <1>3, RestartStays DEF NotYet, InFlight
    <2> QED
      BY <1>c, <2>1
  <1>4. CASE Quiet
    BY <1>4, <1>c DEF Quiet, requestVars, NotYet
  <1> QED
    BY <1>c, <1>1, <1>2, <1>3, <1>4, NextCases
-----------------------------------------------------------------------------
LEMMA NextBlank == IInv /\ [Next]_vars => BlankInv'
  <1> SUFFICES ASSUME IInv, [Next]_vars, NEW q \in blank'
               PROVE  q \in Requests /\ pc'[q] \in {"refreshing", "done", "broken"}
    BY DEF BlankInv
  <1>b. q \in blank => q \in Requests /\ pc[q] \in {"refreshing", "done", "broken"}
    BY DEF IInv, BlankInv
  <1>q. q \in Requests
    BY NextType DEF TypeOK
  <1>1. ASSUME NEW r \in Requests, Arrive(r) \/ OwnStep(r), q # r
        PROVE  pc'[q] \in {"refreshing", "done", "broken"}
    BY <1>1, <1>b, <1>q, OthersStay
  <1>2. ASSUME Arrive(q) PROVE FALSE
    BY <1>2, <1>b, <1>q, ArriveCases
  <1>3. ASSUME OwnStep(q) PROVE pc'[q] \in {"refreshing", "done", "broken"}
    BY <1>3, <1>b, <1>q DEF OwnStep, GoesOn, Answers, InFlight
  <1>4. CASE Restart
    BY <1>4, <1>b, <1>q, RestartStays DEF InFlight
  <1>5. CASE Quiet
    BY <1>5, <1>b DEF Quiet, requestVars
  <1> QED
    BY <1>q, <1>1, <1>2, <1>3, <1>4, <1>5, NextCases

(* Who has read an account without a subject goes on having read it. *)
LEMMA ClaimantsStay ==
  ASSUME IInv, [Next]_vars, NEW i
  PROVE  \A q \in Claimants(i) : q \in blank' /\ found'[q] = i
  <1>1. ASSUME NEW q \in Claimants(i) PROVE q \in blank' /\ found'[q] = i
    <2>1. q \in blank /\ found[q] = i /\ q \in Requests /\ pc[q] \in {"refreshing", "done", "broken"}
      BY DEF Claimants, IInv, BlankInv
    <2>2. ASSUME NEW r \in Requests, Arrive(r) \/ OwnStep(r), q # r
          PROVE  q \in blank' /\ found'[q] = i
      BY <2>1, <2>2, OthersStay
    <2>3. ASSUME Arrive(q) PROVE FALSE
      BY <2>1, <2>3, ArriveCases
    <2>4. ASSUME OwnStep(q) PROVE q \in blank' /\ found'[q] = i
      BY <2>1, <2>4 DEF OwnStep, GoesOn, Answers, Creates, Inserting, InFlight
    <2>5. CASE Restart
      BY <2>1, <2>5, RestartStays
    <2>6. CASE Quiet
      BY <2>1, <2>6 DEF Quiet, requestVars
    <2> QED
      BY <2>1, <2>2, <2>3, <2>4, <2>5, <2>6, NextCases
  <1> QED
    BY <1>1

(* Without rivals a refresh either fills in a missing subject or changes
   nothing at all. *)
LEMMA RefreshChanges ==
  ASSUME IInv, NEW r \in Requests, pc[r] = "refreshing", ~Rivals(found[r])
  PROVE  \/ /\ r \in Claimants(found[r])
            /\ users[found[r]].OAuthSubject = None
         \/ /\ r \notin blank /\ input[r].subject # None
            /\ users[found[r]].OAuthSubject = input[r].subject
            /\ \A i \in DOMAIN users : Refreshed(r)[i] = users[i]
  <1>1. /\ users[found[r]].OAuthSubject = SubjectRead(r)
        /\ r \notin blank => input[r].subject # None
    BY DEF IInv, RefreshInv
  <1>2. CASE r \in blank
    BY <1>1, <1>2 DEF SubjectRead, Claimants
  <1>3. CASE r \notin blank
    <2>1. users[found[r]].OAuthSubject = input[r].subject
      BY <1>1, <1>3 DEF SubjectRead
    <2>2. [users[found[r]] EXCEPT !.OAuthSubject = input[r].subject] = users[found[r]]
      BY <2>1, RefreshOnly DEF AccountsSet
    <2> QED
      BY <1>1, <1>3, <2>1, <2>2, RefreshOnly
  <1> QED
    BY <1>2, <1>3

(* What a login that is about to refresh has found stays as it read it, or it
   has rivals. *)
LEMMA NextRefresh == IInv /\ [Next]_vars => RefreshInv'
  <1> SUFFICES ASSUME IInv, [Next]_vars, NEW q \in Requests, pc'[q] = "refreshing"
               PROVE  /\ IsGoogles(q, found[q])'
                      /\ users'[found'[q]].OAuthSubject = SubjectRead(q)' \/ Rivals(found[q])'
                      /\ q \notin blank' => input'[q].subject # None
    BY DEF RefreshInv
  <1>r. pc[q] = "refreshing" =>
          /\ IsGoogles(q, found[q])
          /\ users[found[q]].OAuthSubject = SubjectRead(q) \/ Rivals(found[q])
          /\ q \notin blank => input[q].subject # None
    BY DEF IInv, RefreshInv
  <1>g. \A i \in DOMAIN users :
          /\ i \in DOMAIN users' /\ users'[i].Email = users[i].Email
          /\ users'[i].AuthProvider = users[i].AuthProvider
    BY NextGrows, StaysSame DEF IInv
  <1>1. ASSUME NEW r \in Requests, Arrive(r) \/ OwnStep(r), q # r
        PROVE  /\ IsGoogles(q, found[q])'
               /\ users'[found'[q]].OAuthSubject = SubjectRead(q)' \/ Rivals(found[q])'
               /\ q \notin blank' => input'[q].subject # None
    <2>1. /\ pc[q] = "refreshing" /\ input'[q] = input[q] /\ found'[q] = found[q]
          /\ q \in blank' <=> q \in blank
      BY <1>1, OthersStay
    <2>2. IsGoogles(q, found[q])' /\ found[q] \in DOMAIN users
      BY <1>r, <1>g, <2>1 DEF IsGoogles
    <2>3. SubjectRead(q)' = SubjectRead(q)
      BY <2>1 DEF SubjectRead
    <2>4. CASE Rivals(found[q])
      <3>1. PICK p1, p2 \in Claimants(found[q]) : p1 # p2
        BY <2>4 DEF Rivals
      <3>2. \A p \in Claimants(found[q]) : p \in blank' /\ found'[p] = found[q]
        BY ClaimantsStay
      <3>3. Rivals(found[q])'
        BY <2>1, <3>1, <3>2 DEF Rivals, Claimants
      <3> QED
        BY <1>r, <2>1, <2>2, <3>3
    <2>5. CASE ~Rivals(found[q])
      <3>1. users[found[q]].OAuthSubject = SubjectRead(q)
        BY <1>r, <2>1, <2>5
      <3>2. users'[found[q]] = users[found[q]]
        <4>1. CASE users' = users
          BY <4>1
        <4>2. CASE Creates(r)
          BY <2>2, <4>2, Created
        <4>3. CASE Refreshes(r)
          <5>1. CASE found[r] # found[q]
            BY <2>2, <4>3, <5>1, RefreshOnly DEF Refreshes
          <5>2. CASE found[r] = found[q]
            <6>1. r \notin Claimants(found[r]) \/ users[found[r]].OAuthSubject # None
              BY <1>1, <1>r, <2>1, <2>5, <3>1, <5>2 DEF Claimants, Rivals, SubjectRead
            <6>2. \A i \in DOMAIN users : Refreshed(r)[i] = users[i]
              BY <2>5, <4>3, <5>2, <6>1, RefreshChanges DEF Refreshes
            <6> QED
              BY <2>2, <4>3, <6>2 DEF Refreshes
          <5> QED
            BY <5>1, <5>2
        <4> QED
          BY <1>1, <4>1, <4>2, <4>3, StepOnUsers
      <3> QED
        BY <1>r, <2>1, <2>2, <2>3, <3>1, <3>2
    <2> QED
      BY <2>4, <2>5
  <1>2. ASSUME Arrive(q) PROVE FALSE
    BY <1>2, ArriveCases
  <1>3. ASSUME OwnStep(q)
        PROVE  /\ IsGoogles(q, found[q])'
               /\ users'[found'[q]].OAuthSubject = SubjectRead(q)'
               /\ q \notin blank' => input'[q].subject # None
    <2>1. /\ users' = users /\ input' = input /\ IsGoogles(q, found'[q]) /\ pc[q] = "looking"
          /\ \/ users[found'[q]].OAuthSubject = None /\ blank' = blank \cup {q}
             \/ /\ users[found'[q]].OAuthSubject = input[q].subject /\ input[q].subject # None
                /\ blank' = blank
      BY <1>3 DEF OwnStep, GoesOn, Answers
    <2>2. q \notin blank
      BY <2>1 DEF IInv, BlankInv
    <2> QED
      BY <2>1, <2>2 DEF IsGoogles, SubjectRead
  <1>4. CASE Restart
    BY <1>4, <1>r, RestartStays DEF IsGoogles, InFlight, SubjectRead, Rivals, Claimants
  <1>5. CASE Quiet
    BY <1>5, <1>r DEF Quiet, requestVars, IsGoogles, SubjectRead, Rivals, Claimants
  <1> QED
    BY <1>1, <1>2, <1>3, <1>4, <1>5, NextCases

LEMMA NextRegistered == IInv /\ [Next]_vars => RegisteredInv'
  <1> SUFFICES ASSUME IInv, [Next]_vars, NEW q \in Requests, answer'[q] = 201
               PROVE  found'[q] \in DOMAIN users' /\ users'[found'[q]] = NewAccount(q)'
    BY DEF RegisteredInv
  <1>r. answer[q] = 201 => /\ found[q] \in DOMAIN users /\ users[found[q]] = NewAccount(q)
                           /\ Op(q) = "register"
    BY DEF IInv, RegisteredInv, HandlerInv
  <1>h. answer[q] # 0 => pc[q] = "done"
    BY DEF IInv, HandlerInv
  <1>g. answer[q] = 201 => found[q] \in DOMAIN users' /\ users'[found[q]] = NewAccount(q)
    <2>1. NewAccount(q).AuthProvider = "google" => Op(q) # "register"
      BY DEF NewAccount
    <2> QED
      BY <1>r, <2>1, NextGrows, StaysSame DEF IInv
  <1>1. ASSUME NEW r \in Requests, Arrive(r) \/ OwnStep(r), q # r
        PROVE  found'[q] \in DOMAIN users' /\ users'[found'[q]] = NewAccount(q)'
    BY <1>1, <1>g, OthersStay DEF NewAccount, Op
  <1>2. ASSUME Arrive(q) PROVE FALSE
    BY <1>2, ArriveCases
  <1>3. ASSUME OwnStep(q) PROVE found'[q] \in DOMAIN users' /\ users'[found'[q]] = NewAccount(q)'
    <2>1. Creates(q) /\ found'[q] = Len(users') /\ input' = input
      BY <1>3, <1>h DEF OwnStep, GoesOn, Answers, InFlight
    <2> QED
      BY <2>1, Created DEF NewAccount, Op
  <1>4. CASE Restart
    BY <1>4, <1>g, RestartStays DEF NewAccount, Op
  <1>5. CASE Quiet
    BY <1>5, <1>g DEF Quiet, requestVars, NewAccount, Op
  <1> QED
    BY <1>1, <1>2, <1>3, <1>4, <1>5, NextCases
-----------------------------------------------------------------------------
(* The account a token is for. *)
Owns(r, i) ==
    /\ i \in DOMAIN users
    /\ users[i].Email = input[r].email
    /\ IF Op(r) = "login" THEN users[i].Password = input[r].password
       ELSE /\ users[i].AuthProvider = "google"
            /\ users[i].OAuthSubject = input[r].subject \/ Claimants(i) \ {r} # {}

(* A step of another request leaves an account with its owner. *)
LEMMA OwnerStays ==
  ASSUME IInv, [Next]_vars, NEW q \in Requests, NEW i, Owns(q, i), Op(q) \in {"login", "google"},
         NEW r \in Requests, Arrive(r) \/ OwnStep(r), q # r
  PROVE  Owns(q, i)'
  <1>1. input'[q] = input[q] /\ Op(q)' = Op(q)
    BY OthersStay DEF Op
  <1>2. /\ i \in DOMAIN users /\ i \in DOMAIN users' /\ users'[i].Email = users[i].Email
        /\ users'[i].Password = users[i].Password /\ users'[i].AuthProvider = users[i].AuthProvider
    BY NextGrows, StaysSame DEF IInv, Owns
  <1>3. CASE Op(q) = "login"
    BY <1>1, <1>2, <1>3 DEF Owns
  <1>4. CASE Op(q) = "google"
    <2>1. users[i].OAuthSubject = input[q].subject \/ Claimants(i) \ {q} # {}
      BY <1>4 DEF Owns
    <2>2. CASE Claimants(i) \ {q} # {}
      <3>1. Claimants(i)' \ {q} # {}
        BY <2>2, ClaimantsStay DEF Claimants
      <3> QED
        BY <1>1, <1>2, <1>4, <3>1 DEF Owns
    <2>3. CASE Claimants(i) \ {q} = {}
      <3>1. users'[i] = users[i]
        <4>1. CASE users' = users
          BY <4>1
        <4>2. CASE Creates(r)
          BY <1>2, <4>2, Created
        <4>3. CASE Refreshes(r)
          <5>1. CASE found[r] # i
            BY <1>2, <4>3, <5>1, RefreshOnly DEF Refreshes
          <5>2. CASE found[r] = i
            <6>1. ~Rivals(found[r]) /\ r \notin Claimants(found[r])
              BY <2>3, <5>2 DEF Rivals
            <6> QED
              BY <1>2, <4>3, <6>1, RefreshChanges DEF Refreshes
          <5> QED
            BY <5>1, <5>2
        <4> QED
          BY <4>1, <4>2, <4>3, StepOnUsers
      <3> QED
        BY <1>1, <1>2, <1>4, <2>1, <2>3, <3>1 DEF Owns
    <2> QED
      BY <2>2, <2>3
  <1> QED
    BY <1>3, <1>4

LEMMA NextToken == IInv /\ [Next]_vars => TokenGoesToOwner'
  <1> SUFFICES ASSUME IInv, [Next]_vars, NEW q \in Requests, answer'[q] = 200
               PROVE  Owns(q, token[q])'
    BY DEF TokenGoesToOwner, Owns
  <1>r. answer[q] = 200 => Owns(q, token[q]) /\ Op(q) \in {"login", "google"}
    BY DEF IInv, TokenGoesToOwner, Owns, HandlerInv
  <1>h. answer[q] # 0 => pc[q] = "done"
    BY DEF IInv, HandlerInv
  <1>1. ASSUME NEW r \in Requests, Arrive(r) \/ OwnStep(r), q # r PROVE Owns(q, token[q])'
    <2>1. answer[q] = 200 /\ token'[q] = token[q]
      BY <1>1, OthersStay
    <2>2. \A i : i = token[q] => Owns(q, i)'
      BY <1>1, <1>r, <2>1, OwnerStays
    <2> QED
      BY <2>1, <2>2 DEF Owns, Claimants
  <1>2. ASSUME Arrive(q) PROVE FALSE
    BY <1>2, ArriveCases
  <1>3. ASSUME OwnStep(q) PROVE Owns(q, token[q])'
    <2>1. /\ input' = input /\ pc[q] # "done"
          /\ \/ Op(q) = "google" /\ Creates(q) /\ token'[q] = Len(users')
             \/ Op(q) = "login" /\ IsOwn(q, token'[q]) /\ users' = users
             \/ Op(q) = "google" /\ Refreshes(q) /\ token'[q] = found[q]
      BY <1>3, <1>h DEF OwnStep, GoesOn, Answers, InFlight
    <2>2. CASE Op(q) = "google" /\ Creates(q) /\ token'[q] = Len(users')
      <3>1. /\ token'[q] \in DOMAIN users' /\ users'[token'[q]] = NewAccount(q)
            /\ NewAccount(q).Email = input[q].email
        BY <2>2, Created
      <3>2. /\ NewAccount(q).AuthProvider = "google"
            /\ NewAccount(q).OAuthSubject = input[q].subject
        BY <2>2 DEF NewAccount
      <3>3. input'[q] = input[q] /\ Op(q)' = "google"
        BY <2>1, <2>2 DEF Op
      <3> QED
        BY <3>1, <3>2, <3>3 DEF Owns
    <2>3. CASE Op(q) = "login" /\ IsOwn(q, token'[q]) /\ users' = users
      BY <2>1, <2>3 DEF IsOwn, Op, Owns
    <2>4. CASE Op(q) = "google" /\ Refreshes(q) /\ token'[q] = found[q]
      <3>1. IsGoogles(q, found[q])
        BY <2>4 DEF Refreshes, IInv, RefreshInv
      <3>2. /\ found[q] \in DOMAIN users' /\ users'[found[q]].Email = input[q].email
            /\ users'[found[q]].AuthProvider = "google"
        BY <3>1, NextGrows, StaysSame DEF IInv, IsGoogles
      <3>3. users'[found[q]].OAuthSubject = input[q].subject
        BY <2>4, RefreshOnly DEF Refreshes, AccountsSet
      <3> QED
        BY <2>1, <2>4, <3>2, <3>3 DEF Op, Owns
    <2> QED
      BY <2>1, <2>2, <2>3, <2>4
  <1>4. CASE Restart
    BY <1>4, <1>r, RestartStays DEF Owns, Op, Claimants
  <1>5. CASE Quiet
    BY <1>5, <1>r DEF Quiet, requestVars, Owns, Op, Claimants
  <1> QED
    BY <1>1, <1>2, <1>3, <1>4, <1>5, NextCases
-----------------------------------------------------------------------------
LEMMA InitIInv == Init => IInv
  <1> SUFFICES ASSUME Init PROVE IInv
    OBVIOUS
  <1>1. users \in Seq(AccountsSet) /\ indexed \in IndexAfterStart(FALSE)
    BY AccountsAssumption DEF Init
  <1>2. indexed \in BOOLEAN /\ IndexInv
    BY <1>1 DEF IndexAfterStart, IndexInv
  <1>3. TypeOK
    BY <1>1, <1>2, AccountsAssumption DEF Init, TypeOK
  <1>4. CreatorsInv
    BY AccountsAssumption, InitialsAssumption DEF Init, CreatorsInv
  <1>5. HandlerInv /\ BlankInv /\ RefreshInv /\ RegisteredInv /\ TokenGoesToOwner
    BY DEF Init, HandlerInv, BlankInv, RefreshInv, RegisteredInv, TokenGoesToOwner
  <1> QED
    BY <1>2, <1>3, <1>4, <1>5 DEF IInv

LEMMA NextIInv == IInv /\ [Next]_vars => IInv'
  BY NextType, NextHandler, NextIndex, NextCreators, NextBlank, NextRefresh, NextRegistered, NextToken DEF IInv

(* What the theorems below rest on: the handlers' stages, the index, who has
   created what, and what a refresh may assume of the account it once read. *)
THEOREM InductiveInvariant == Spec => []IInv
  BY InitIInv, NextIInv, PTL DEF Spec

(* Accounts, requests and the verifier keep their types. *)
THEOREM TypeCorrect == Spec => []TypeOK
  <1>1. IInv => TypeOK
    BY DEF IInv
  <1> QED
    BY <1>1, InductiveInvariant, PTL

(* Register's 201 is for an account of one's own, as asked for, and nobody else
   has one with that e-mail once the index is there. *)
THEOREM RegistrationExclusive == Spec => []RegistrationIsExclusive
  <1>1. IInv => RegistrationIsExclusive
    <2> SUFFICES ASSUME IInv, NEW r \in Requests, answer[r] = 201
                 PROVE  /\ found[r] \in DOMAIN users
                        /\ users[found[r]] = NewAccount(r)
                        /\ indexed => \A i \in DOMAIN users :
                                        users[i].Email = input[r].email => i = found[r]
      BY DEF RegistrationIsExclusive
    <2>1. found[r] \in DOMAIN users /\ users[found[r]] = NewAccount(r)
      BY DEF IInv, RegisteredInv
    <2>2. NewAccount(r).Email = input[r].email
      BY DEF NewAccount
    <2> QED
      BY <2>1, <2>2 DEF IInv, IndexInv, EmailsDiffer
  <1> QED
    BY <1>1, InductiveInvariant, PTL

(* Who is turned away, before or at the insert, has created no account. *)
THEOREM RefusedCreatesNothing == Spec => []RefusedLeavesNoAccount
  <1>1. IInv => RefusedLeavesNoAccount
    BY DEF IInv, CreatorsInv, NotYet, RefusedLeavesNoAccount
  <1> QED
    BY <1>1, InductiveInvariant, PTL

(* A token is for an account with the e-mail and the password or the Google
   subject of who asked for it, and stays so, whatever the accounts are at first
   and unless another login has read the account without a subject. *)
THEOREM TokenForOwner == Spec => []TokenGoesToOwner
  <1>1. IInv => TokenGoesToOwner
    BY DEF IInv
  <1> QED
    BY <1>1, InductiveInvariant, PTL

(* What a step does to an account that is there. *)
StepOn(i) ==
    /\ i \in DOMAIN users'
    /\ users'[i] = [users[i] EXCEPT !.OAuthSubject = users'[i].OAuthSubject]
    /\ users'[i] # users[i] =>
         /\ users[i].AuthProvider = "google"
         /\ \E q \in Claimants(i) : users[i].OAuthSubject # None => Claimants(i) \ {q} # {}

(* UpdateGoogleIdentity touches the subjects of Google's accounts alone, and one
   that is there only when two logins have read the account without one. *)
THEOREM IdentityStays == Spec => IdentityIsStable
  <1>1. ASSUME IInv, [Next]_vars, NEW i \in DOMAIN users
        PROVE  StepOn(i)
    <2>1. Stays(i)
      BY <1>1, NextGrows
    <2>2. ASSUME users'[i] # users[i]
          PROVE  \E q \in Claimants(i) : users[i].OAuthSubject # None => Claimants(i) \ {q} # {}
      <3>1. PICK r \in Requests : Arrive(r) \/ OwnStep(r)
        BY <1>1, <2>2, NextCases, RestartStays DEF Quiet
      <3>2. Refreshes(r)
        BY <1>1, <2>2, <3>1, StepOnUsers, Created
      <3>3. found[r] = i /\ pc[r] = "refreshing" /\ users' = Refreshed(r)
        BY <1>1, <2>2, <3>2, RefreshOnly DEF Refreshes
      <3>4. CASE Rivals(i)
        BY <3>4 DEF Rivals
      <3>5. CASE ~Rivals(i)
        BY <1>1, <2>2, <3>3, <3>5, RefreshChanges
      <3> QED
        BY <3>4, <3>5
    <2> QED
      BY <2>1, <2>2 DEF Stays, StepOn
  <1>2. IInv /\ [Next]_vars => [\A i \in DOMAIN users : StepOn(i)]_vars
    BY <1>1
  <1> QED
    BY <1>2, InductiveInvariant, PTL DEF Spec, IdentityIsStable, StepOn
=============================================================================
