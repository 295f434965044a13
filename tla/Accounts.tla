------------------------------ MODULE Accounts ------------------------------
(***************************************************************************)
(* auth-service: the users collection and the requests that read and write *)
(* it, POST /auth/register, /auth/login and /auth/google.                  *)
(*                                                                         *)
(* Each request is a goroutine of its own; its calls to MongoDB and to     *)
(* Google are separate steps. Passwords stand for their bcrypt hashes and  *)
(* a token for the account whose id it carries.                            *)
(***************************************************************************)
EXTENDS Naturals, Sequences, SequencesExt

CONSTANTS
    Requests,       \* requests; each is sent at most once
    Emails,
    Passwords,      \* passwords a request may have; each account has one or none
    Unhashable,     \* those bcrypt refuses (more than 72 bytes)
    Subjects,       \* Google's ids of its users
    None,           \* no password, no subject, no request
    Initials,       \* what the collection may hold at first, sequences of accounts
    MaxFaults,      \* bound: MongoDB calls that fail
    MaxRestarts,    \* bound: restarts of the process
    MaxOutages      \* bound: times Google cannot be reached

VARIABLES
    users,     \* the users collection, in the order of insertion
    indexed,   \* whether it has its unique index on email
    pc,        \* where the goroutine of each request is
    input,     \* what each request asks
    found,     \* the account each handler has read, by position, 0 for none
    answer,    \* HTTP status of each answer, 0 while there is none
    blank,     \* history: Google logins that found an account without a subject
    token,     \* account the token in the answer is for, 0 for no token
    verifier,  \* googleVerifier: "unset", "ready", or "failed" for good
    google,    \* whether Google can be reached: "up" or "down"
    faults, restarts, outages

vars == << users, indexed, pc, input, found, blank, answer, token, verifier, google,
           faults, restarts, outages >>

requestVars == << pc, input, found, blank, answer, token >>
environment == << google, faults, restarts, outages >>

(* models.User. AuthProvider is empty in documents older than the field; "by"
   is history: the request that created the account. *)
AccountsSet ==
    [ Email : Emails, Password : Passwords \cup {None},
      AuthProvider : {"local", "google", ""}, OAuthSubject : Subjects \cup {None},
      by : Requests \cup {None} ]

ASSUME AccountsAssumption ==
    /\ Unhashable \subseteq Passwords
    /\ None \notin Passwords \cup Subjects \cup Requests
    /\ Initials \subseteq Seq(AccountsSet)
    /\ MaxFaults \in Nat /\ MaxRestarts \in Nat /\ MaxOutages \in Nat

(* What the collection holds at first none of the requests has created. *)
ASSUME InitialsAssumption ==
    \A s \in Initials : \A i \in DOMAIN s : s[i].by = None

(* Nothing asks for a subject in a token of Google's. "blank" is a Google login
   whose token is white space. *)
Inputs ==
    [op : {"register", "login"}, email : Emails, password : Passwords]
      \cup [op : {"google"}, email : Emails, subject : Subjects \cup {None}, valid : BOOLEAN]
      \cup [op : {"malformed", "blank"}]

NoInput == [op |-> "none"]
InFlight == {"verifying", "looking", "inserting", "creating", "refreshing"}

EmailsDiffer ==
    \A i, j \in DOMAIN users : users[i].Email = users[j].Email => i = j

(* The index is created at every start; a failure (MongoDB, or accounts that
   share an e-mail already) is only logged. *)
IndexAfterStart(before) == {before} \cup (IF EmailsDiffer THEN {TRUE} ELSE {})

Init ==
    /\ users \in Initials
    /\ indexed \in IndexAfterStart(FALSE)
    /\ pc = [r \in Requests |-> "idle"]
    /\ input = [r \in Requests |-> NoInput]
    /\ found = [r \in Requests |-> 0]
    /\ blank = {}
    /\ answer = [r \in Requests |-> 0]
    /\ token = [r \in Requests |-> 0]
    /\ verifier = "unset"
    /\ google = "up"
    /\ faults = 0
    /\ restarts = 0
    /\ outages = 0
-----------------------------------------------------------------------------
GoTo(r, stage) == pc' = [pc EXCEPT ![r] = stage]

Respond(r, status) ==
    /\ GoTo(r, "done")
    /\ answer' = [answer EXCEPT ![r] = status]

(* A call to MongoDB fails. *)
Fault == faults < MaxFaults /\ faults' = faults + 1

(* The request is bound to its struct; roles are part of what is checked. A
   blank token passes that and is refused before the verifier is looked at. *)
Arrive(r) ==
    /\ pc[r] = "idle"
    /\ \E in \in Inputs :
         /\ input' = [input EXCEPT ![r] = in]
         /\ CASE in.op = "malformed" -> Respond(r, 400)
              [] in.op = "blank" -> Respond(r, 401)
              [] in.op = "google" -> GoTo(r, "verifying") /\ UNCHANGED answer
              [] OTHER -> GoTo(r, "looking") /\ UNCHANGED answer
    /\ UNCHANGED << users, indexed, found, blank, token, verifier, environment >>

Op(r) == input[r].op

(* FindUserByEmail: one of the accounts with the e-mail, or none. *)
Matches(r) ==
    LET with == { i \in DOMAIN users : users[i].Email = input[r].email }
    IN IF with = {} THEN {0} ELSE with

(* Register: the e-mail must be free and the password hashable. *)
RegisterLooks(r) ==
    /\ pc[r] = "looking" /\ Op(r) = "register"
    /\ \E i \in Matches(r) :
         IF i # 0 THEN Respond(r, 409)
         ELSE IF input[r].password \in Unhashable THEN Respond(r, 500)
         ELSE GoTo(r, "inserting") /\ UNCHANGED answer
    /\ UNCHANGED << users, indexed, input, found, blank, token, verifier, environment >>

(* Login: MongoDB errors and unknown e-mails get the same answer as a wrong
   password, and an account without a password matches none. *)
LoginAnswers(r) ==
    /\ pc[r] = "looking" /\ Op(r) = "login"
    /\ \E i \in Matches(r) :
         IF i # 0 /\ users[i].Password = input[r].password
         THEN Respond(r, 200) /\ token' = [token EXCEPT ![r] = i]
         ELSE Respond(r, 401) /\ UNCHANGED token
    /\ UNCHANGED << users, indexed, input, found, blank, verifier, environment >>

LookFails(r) ==
    /\ pc[r] = "looking"
    /\ Fault
    /\ Respond(r, IF Op(r) = "login" THEN 401 ELSE 500)
    /\ UNCHANGED << users, indexed, input, found, blank, token, verifier, google, restarts, outages >>

NewAccount(r) ==
    IF Op(r) = "register"
    THEN [ Email |-> input[r].email, Password |-> input[r].password,
           AuthProvider |-> "local", OAuthSubject |-> None, by |-> r ]
    ELSE [ Email |-> input[r].email, Password |-> None,
           AuthProvider |-> "google", OAuthSubject |-> input[r].subject, by |-> r ]

Inserting(r) == pc[r] \in {"inserting", "creating"}

(* Mutant: only the earlier look-up keeps e-mails apart. *)
Accepted_Unchecked(r) == TRUE

(* What the index lets in. *)
Accepted(r) == ~indexed \/ \A i \in DOMAIN users : users[i].Email # input[r].email

Inserted(r) == Append(users, NewAccount(r))

(* CreateUser of Register (201) and of LoginWithGoogle (200 with a token). *)
CreateUser(r) ==
    /\ Inserting(r)
    /\ Accepted(r)
    /\ users' = Inserted(r)
    /\ found' = [found EXCEPT ![r] = Len(users')]
    /\ IF Op(r) = "register"
       THEN Respond(r, 201) /\ UNCHANGED token
       ELSE Respond(r, 200) /\ token' = [token EXCEPT ![r] = Len(users')]
    /\ UNCHANGED << indexed, input, blank, verifier, environment >>

(* isDuplicateKeyError *)
CreateRefused(r) ==
    /\ Inserting(r)
    /\ ~Accepted(r)
    /\ Respond(r, 409)
    /\ UNCHANGED << users, indexed, input, found, blank, token, verifier, environment >>

(* Mutant: an insert that failed is answered as a duplicate. *)
CreateFails_AsDuplicate(r) ==
    /\ Inserting(r)
    /\ Fault
    /\ users' \in {users} \cup (IF Accepted(r) THEN {Inserted(r)} ELSE {})
    /\ Respond(r, 409)
    /\ UNCHANGED << indexed, input, found, blank, token, verifier, google, restarts, outages >>

(* Mutant: after a failed insert the newest account is removed again. *)
CreateFails_CleansUp(r) ==
    /\ Inserting(r)
    /\ Fault
    /\ users' = (IF users = << >> THEN users ELSE Front(users))
    /\ Respond(r, 500)
    /\ UNCHANGED << indexed, input, found, blank, token, verifier, google, restarts, outages >>

(* Another failure, after which the account may be there all the same. *)
CreateFails(r) ==
    /\ Inserting(r)
    /\ Fault
    /\ users' \in {users} \cup (IF Accepted(r) THEN {Inserted(r)} ELSE {})
    /\ Respond(r, 500)
    /\ UNCHANGED << indexed, input, found, blank, token, verifier, google, restarts, outages >>
-----------------------------------------------------------------------------
(* getVerifier: the first request that gets here asks Google for its keys'
   place, the others wait for it; what came out stays for good. The request's
   own context can be cancelled, so that it fails with Google up. *)
VerifierAfter ==
    IF verifier # "unset" THEN {verifier}
    ELSE IF google = "up" THEN {"ready", "failed"} ELSE {"failed"}

(* VerifyIDToken; the keys may have been fetched before Google went down. *)
VerifyToken(r) ==
    /\ pc[r] = "verifying"
    /\ verifier' \in VerifierAfter
    /\ \/ /\ verifier' = "ready" /\ input[r].valid
          /\ GoTo(r, "looking") /\ UNCHANGED answer
       \/ /\ verifier' = "failed" \/ ~input[r].valid \/ google = "down"
          /\ Respond(r, 401)
    /\ UNCHANGED << users, indexed, input, found, blank, token, environment >>

(* Mutant: an account with a password is taken over like a Google one. *)
MayRefresh_AnyProvider(r, i) == users[i].OAuthSubject \in {None, input[r].subject}

(* Mutant: the subject is not compared. *)
MayRefresh_AnySubject(r, i) == users[i].AuthProvider = "google"

(* An account with a password, of old or of another Google user is refused. *)
MayRefresh(r, i) ==
    /\ users[i].AuthProvider = "google"
    /\ users[i].OAuthSubject \in {None, input[r].subject}

GoogleLooks(r) ==
    /\ pc[r] = "looking" /\ Op(r) = "google"
    /\ \E i \in Matches(r) :
         /\ found' = [found EXCEPT ![r] = i]
         /\ blank' = IF i # 0 /\ MayRefresh(r, i) /\ users[i].OAuthSubject = None
                     THEN blank \cup {r} ELSE blank
         /\ IF i = 0 THEN GoTo(r, "creating") /\ UNCHANGED answer
            ELSE IF MayRefresh(r, i) THEN GoTo(r, "refreshing") /\ UNCHANGED answer
            ELSE Respond(r, 409)
    /\ UNCHANGED << users, indexed, input, token, verifier, environment >>

Refreshed(r) ==
    [users EXCEPT ![found[r]].AuthProvider = "google",
                  ![found[r]].OAuthSubject = input[r].subject]

(* UpdateGoogleIdentity, by _id and whatever the account is by now. *)
RefreshUser(r) ==
    /\ pc[r] = "refreshing"
    /\ users' = Refreshed(r)
    /\ Respond(r, 200)
    /\ token' = [token EXCEPT ![r] = found[r]]
    /\ UNCHANGED << indexed, input, found, blank, verifier, environment >>

RefreshFails(r) ==
    /\ pc[r] = "refreshing"
    /\ Fault
    /\ users' \in {users, Refreshed(r)}
    /\ Respond(r, 500)
    /\ UNCHANGED << indexed, input, found, blank, token, verifier, google, restarts, outages >>
-----------------------------------------------------------------------------
GoogleGoesDown ==
    /\ google = "up" /\ outages < MaxOutages
    /\ google' = "down" /\ outages' = outages + 1
    /\ UNCHANGED << users, indexed, requestVars, verifier, faults, restarts >>

GoogleComesBack ==
    /\ google = "down"
    /\ google' = "up"
    /\ UNCHANGED << users, indexed, requestVars, verifier, faults, restarts, outages >>

(* The process ends and starts again. *)
Restart ==
    /\ restarts < MaxRestarts
    /\ restarts' = restarts + 1
    /\ pc' = [r \in Requests |-> IF pc[r] \in InFlight THEN "broken" ELSE pc[r]]
    /\ verifier' = "unset"
    /\ indexed' \in IndexAfterStart(indexed)
    /\ UNCHANGED << users, input, found, blank, answer, token, google, faults, outages >>

Handle(r) ==
    \/ Arrive(r) \/ RegisterLooks(r) \/ LoginAnswers(r) \/ LookFails(r)
    \/ CreateUser(r) \/ CreateRefused(r) \/ CreateFails(r)
    \/ VerifyToken(r) \/ GoogleLooks(r) \/ RefreshUser(r) \/ RefreshFails(r)

Next ==
    \/ \E r \in Requests : Handle(r)
    \/ GoogleGoesDown \/ GoogleComesBack \/ Restart

Spec == Init /\ [][Next]_vars
-----------------------------------------------------------------------------
(* Accounts, requests and the verifier keep their types. *)
TypeOK ==
    /\ users \in Seq(AccountsSet)
    /\ indexed \in BOOLEAN
    /\ pc \in [Requests -> {"idle", "done", "broken"} \cup InFlight]
    /\ input \in [Requests -> Inputs \cup {NoInput}]
    /\ found \in [Requests -> 0..Len(users)]
    /\ blank \subseteq Requests
    /\ answer \in [Requests -> {0, 200, 201, 400, 401, 409, 500}]
    /\ token \in [Requests -> 0..Len(users)]
    /\ verifier \in {"unset", "ready", "failed"}
    /\ google \in {"up", "down"}
    /\ faults \in 0..MaxFaults
    /\ restarts \in 0..MaxRestarts
    /\ outages \in 0..MaxOutages

(* Register's 201 is for one's own account: it is there with the e-mail and the
   password asked for, and once the index exists nobody else, with a password
   or through Google, has got an account for that e-mail, whichever of the
   look-ups came first. *)
RegistrationIsExclusive ==
    \A r \in Requests : answer[r] = 201 =>
        /\ found[r] \in DOMAIN users
        /\ users[found[r]] = NewAccount(r)
        /\ indexed => \A i \in DOMAIN users : users[i].Email = input[r].email => i = found[r]

(* Who is turned away (400, 401, 409) has left no account behind, also when the
   insert was beaten by another request or Google's answer came too late. *)
RefusedLeavesNoAccount ==
    \A r \in Requests : answer[r] \in {400, 401, 409} =>
        \A i \in DOMAIN users : users[i].by # r

(* Logins that read account i before it had a subject. *)
Claimants(i) == { q \in blank : found[q] = i }

(* A token is for an account with the e-mail asked for and the password given,
   or the Google subject verified: what other requests do between the look-up
   and the update does not turn it into a token for somebody else. The one way
   for two Google users to get tokens for one account is that another login
   has read it, too, before it had a subject: MayRefresh lets both of them in,
   and the later write stays. *)
TokenGoesToOwner ==
    \A r \in Requests : answer[r] = 200 =>
        /\ token[r] \in DOMAIN users
        /\ LET u == users[token[r]] IN
             /\ u.Email = input[r].email
             /\ IF Op(r) = "login" THEN u.Password = input[r].password
                ELSE /\ u.AuthProvider = "google"
                     /\ \/ u.OAuthSubject = input[r].subject
                        \/ Claimants(token[r]) \ {r} # {}

(* LoginWithGoogle's refresh, the only update there is, writes by _id what was
   decided on an earlier read. No account goes away, and none changes but for
   the subject of one of Google's: a missing one is filled in by a login that
   saw it missing, and one that is there is overwritten only when two logins
   saw it missing. *)
IdentityIsStable ==
    [][\A i \in DOMAIN users :
         /\ i \in DOMAIN users'
         /\ users'[i] = [users[i] EXCEPT !.OAuthSubject = users'[i].OAuthSubject]
         /\ users'[i] # users[i] =>
              /\ users[i].AuthProvider = "google"
              /\ \E q \in Claimants(i) :
                   users[i].OAuthSubject # None => Claimants(i) \ {q} # {}]_vars

(* README.md:71: auth-service "can also verify Google ID tokens when
   GOOGLE_CLIENT_ID is configured". Stated of a valid token that is verified
   while Google is up, by a request that does not itself start the verifier. *)
ValidGoogleTokensAreVerified ==
    [][\A r \in Requests :
         pc[r] = "verifying" /\ pc'[r] = "done" /\ input[r].valid /\ verifier # "unset"
           => google = "down"]_vars
=============================================================================
