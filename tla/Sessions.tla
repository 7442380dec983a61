------------------------------ MODULE Sessions ------------------------------
(***************************************************************************)
(* The administrator's login: the table of failed logins that limits them  *)
(* by address, and the table of sessions a request is checked against.     *)
(*                                                                         *)
(* Both are maps under one mutex, which each operation takes and releases  *)
(* by itself: a login goes to them three times, with the hash of the       *)
(* password computed between the first and the second, and a request that  *)
(* changes something looks its session up twice.  Requests run beside one  *)
(* another.  Nothing is stored: a restart forgets both tables.             *)
(***************************************************************************)
EXTENDS Integers, FiniteSets

CONSTANTS Addresses,  \* where requests come from
          Requests,   \* concurrent API requests
          Ids,        \* the random tokens that name sessions
          Nothing,    \* no address, no token
          Limit,      \* failed logins that close an address (5)
          Window,     \* how long they count (5 minutes)
          Lifetime    \* sessionLifetime (12 hours)

ASSUME NothingIsNone == Nothing \notin Addresses \cup Ids
ASSUME TimesAreNumbers == Limit \in Nat \ {0} /\ Window \in Nat /\ Lifetime \in Nat
ASSUME RequestsAreFinite == IsFiniteSet(Requests)

VARIABLES failures, \* loginFailure of each address
          sessions, \* the keys of the sessions map
          expires,  \* how long each of them is still valid
          issued,   \* ghost: tokens that have been handed out
          ended,    \* ghost: sessions that were logged out, timed out or lost
          \* Of each request:
          step,
          from,     \* its address
          cookie,   \* the session it names
          knew      \* ghost: what had ended when it came

tables   == <<failures, sessions, expires>>
requests == <<step, from, cookie, knew>>
vars     == <<tables, issued, ended, requests>>

\* Times count down, and below zero is after the deadline: time.Now is compared
\* by the monotonic clock.  An address without an entry is one whose window ended
\* before anything was counted, which is how the zero loginFailure reads.
NoFailure == [count |-> 0, left |-> -1]
Steps == {"idle", "verify", "fail", "clear", "open", "session", "csrf", "handler", "logout"}

TypeOK ==
    /\ failures \in [Addresses -> [count : Nat, left : -1..Window]]
    /\ sessions \in SUBSET Ids
    /\ expires \in [Ids -> -1..Lifetime]
    /\ issued \in SUBSET Ids
    /\ ended \in SUBSET Ids
    /\ step \in [Requests -> Steps]
    /\ from \in [Requests -> Addresses \cup {Nothing}]
    /\ cookie \in [Requests -> Ids \cup {Nothing}]
    /\ knew \in [Requests -> SUBSET Ids]

Init ==
    /\ failures = [a \in Addresses |-> NoFailure]
    /\ sessions = {} /\ expires = [i \in Ids |-> -1]
    /\ issued = {} /\ ended = {}
    /\ step = [r \in Requests |-> "idle"]
    /\ from = [r \in Requests |-> Nothing]
    /\ cookie = [r \in Requests |-> Nothing]
    /\ knew = [r \in Requests |-> {}]

Open(a) == failures[a].left >= 0

Go(r, s) == step' = [step EXCEPT ![r] = s] /\ UNCHANGED <<from, cookie, knew>>

\* The request is answered.
Answer(r) ==
    /\ step' = [step EXCEPT ![r] = "idle"]
    /\ from' = [from EXCEPT ![r] = Nothing]
    /\ cookie' = [cookie EXCEPT ![r] = Nothing]
    /\ knew' = [knew EXCEPT ![r] = {}]

-----------------------------------------------------------------------------
(* login.                                                                  *)

\* Mutants: one more is allowed; the window does not end.
AllowOneMore(a) == ~Open(a) \/ failures[a].count <= Limit
AllowNeverAgain(a) == failures[a].count < Limit

\* allowAttempt.
AllowAttempt(a) == ~Open(a) \/ failures[a].count < Limit

\* An attempt that is not allowed is refused and changes nothing.
BeginLogin(r, a) ==
    /\ step[r] = "idle"
    /\ AllowAttempt(a)
    /\ step' = [step EXCEPT ![r] = "verify"]
    /\ from' = [from EXCEPT ![r] = a]
    /\ UNCHANGED <<tables, issued, ended, cookie, knew>>

\* VerifyPassword takes its time; a body that cannot be read fails as well.
Verify(r) ==
    /\ step[r] = "verify"
    /\ \E s \in {"fail", "clear"} : Go(r, s)
    /\ UNCHANGED <<tables, issued, ended>>

\* Mutant: every failure begins the window anew.
FailedRenews(r) ==
    LET a == from[r] IN
    /\ step[r] = "fail"
    /\ failures' = [failures EXCEPT ![a] =
                       [count |-> 1 + (IF Open(a) THEN @.count ELSE 0), left |-> Window]]
    /\ Answer(r)
    /\ UNCHANGED <<sessions, expires, issued, ended>>

\* failed: the first failure, or the first after the window, begins a window.
Failed(r) ==
    LET a == from[r] IN
    /\ step[r] = "fail"
    /\ failures' = [failures EXCEPT ![a] =
                       IF Open(a) THEN [count |-> @.count + 1, left |-> @.left]
                       ELSE [count |-> 1, left |-> Window]]
    /\ Answer(r)
    /\ UNCHANGED <<sessions, expires, issued, ended>>

ClearFailure(r) ==
    /\ step[r] = "clear"
    /\ failures' = [failures EXCEPT ![from[r]] = NoFailure]
    /\ Go(r, "open")
    /\ UNCHANGED <<sessions, expires, issued, ended>>

\* Mutant: the empty token of a rand.Read that failed is taken for one.
OpenSessionAnyway(r) ==
    /\ step[r] = "open"
    /\ \E id \in (Ids \ issued) \cup {Nothing} :
          /\ sessions' = sessions \cup {id}
          /\ expires' = [expires EXCEPT ![id] = Lifetime]
          /\ issued' = issued \cup {id}
    /\ Answer(r)
    /\ UNCHANGED <<failures, ended>>

\* A token is never given twice.
OpenSession(r) ==
    /\ step[r] = "open"
    /\ \E id \in Ids \ issued :
          /\ sessions' = sessions \cup {id}
          /\ expires' = [expires EXCEPT ![id] = Lifetime]
          /\ issued' = issued \cup {id}
    /\ Answer(r)
    /\ UNCHANGED <<failures, ended>>

\* rand.Read fails.
NoToken(r) ==
    /\ step[r] = "open"
    /\ Answer(r)
    /\ UNCHANGED <<tables, issued, ended>>

-----------------------------------------------------------------------------
(* authMiddleware and logout.                                              *)

BeginRequest(r, id) ==
    /\ step[r] = "idle"
    /\ step' = [step EXCEPT ![r] = "session"]
    /\ cookie' = [cookie EXCEPT ![r] = id]
    /\ knew' = [knew EXCEPT ![r] = ended]
    /\ UNCHANGED <<tables, issued, ended, from>>

\* Mutant: the lookup leaves it to the cookie's MaxAge to expire.
ValidWhileKept(id) == id \in sessions

\* session: the entry is there and its time has not passed.
Valid(id) == id \in sessions /\ expires[id] >= 0

Drop(id) ==
    /\ sessions' = sessions \ {id}
    /\ expires' = [expires EXCEPT ![id] = -1]

\* What is found invalid is deleted and the request refused.
Refuse(r) ==
    /\ step[r] \in {"session", "csrf"}
    /\ ~Valid(cookie[r])
    /\ Drop(cookie[r])
    /\ Answer(r)
    /\ UNCHANGED <<failures, issued, ended>>

\* A read goes on to its handler, and so does the logout; anything else must
\* show the CSRF token of its session, which is looked up again.
FindSession(r) ==
    /\ step[r] = "session"
    /\ Valid(cookie[r])
    /\ \E s \in {"handler", "logout", "csrf"} : Go(r, s)
    /\ UNCHANGED <<tables, issued, ended>>

CsrfValid(r) ==
    /\ step[r] = "csrf"
    /\ Valid(cookie[r])
    /\ Go(r, "handler")
    /\ UNCHANGED <<tables, issued, ended>>

CsrfMissing(r) ==
    /\ step[r] = "csrf"
    /\ Valid(cookie[r])
    /\ Answer(r)
    /\ UNCHANGED <<tables, issued, ended>>

Handle(r) ==
    /\ step[r] = "handler"
    /\ Answer(r)
    /\ UNCHANGED <<tables, issued, ended>>

\* Mutant: only the cookie of the browser is cleared.
LogoutOfBrowser(r) ==
    /\ step[r] = "logout"
    /\ ended' = ended \cup {cookie[r]}
    /\ Answer(r)
    /\ UNCHANGED <<tables, issued>>

Logout(r) ==
    /\ step[r] = "logout"
    /\ Drop(cookie[r])
    /\ ended' = ended \cup {cookie[r]}
    /\ Answer(r)
    /\ UNCHANGED <<failures, issued>>

-----------------------------------------------------------------------------

\* A unit of time.
Tick ==
    /\ failures' = [a \in Addresses |-> [failures[a] EXCEPT !.left = IF @ < 0 THEN @ ELSE @ - 1]]
    /\ expires' = [i \in Ids |-> IF expires[i] < 0 THEN expires[i] ELSE expires[i] - 1]
    /\ ended' = ended \cup {i \in sessions : expires[i] <= 0}
    /\ UNCHANGED <<sessions, issued, requests>>

\* The process ends, with its requests, and begins with empty tables.
Restart ==
    /\ failures' = [a \in Addresses |-> NoFailure]
    /\ sessions' = {} /\ expires' = [i \in Ids |-> -1]
    /\ ended' = ended \cup sessions
    /\ step' = [r \in Requests |-> "idle"]
    /\ from' = [r \in Requests |-> Nothing]
    /\ cookie' = [r \in Requests |-> Nothing]
    /\ knew' = [r \in Requests |-> {}]
    /\ UNCHANGED issued

Login(r) ==
    \/ \E a \in Addresses : BeginLogin(r, a)
    \/ Verify(r) \/ Failed(r) \/ ClearFailure(r) \/ OpenSession(r) \/ NoToken(r)

Request(r) ==
    \/ \E id \in Ids : BeginRequest(r, id)
    \/ Refuse(r) \/ FindSession(r) \/ CsrfValid(r) \/ CsrfMissing(r) \/ Handle(r) \/ Logout(r)

Next == (\E r \in Requests : Login(r) \/ Request(r)) \/ Tick \/ Restart

\* Time passes.
Spec == Init /\ [][Next]_vars /\ WF_vars(Tick)

-----------------------------------------------------------------------------
(* What must hold.                                                         *)

\* The limit is read before the password is verified and the failure counted
\* after, so requests that come together pass it together; but no more than
\* those: within a window an address never has more failures than the limit less
\* one, and one for each request that can be under way.
AttemptsAreBounded ==
    \A a \in Addresses :
        Open(a) => failures[a].count <= Limit - 1 + Cardinality(Requests)

\* Failures, those counted late included, do not move the end of a window: an
\* address is not kept out longer than the window that its first failure began.
WindowIsFixed ==
    [][\A a \in Addresses : Open(a) /\ Open(a)' => failures'[a].left <= failures[a].left]_vars

\* An address that was closed is open again in time, whatever others do.
LockoutEnds == \A a \in Addresses : []<>AllowAttempt(a)

\* Once a session has ended, by logout, by time or with the process, no request
\* that comes after is carried out in its name.  Requests that were under way may
\* be: they have been checked before.
EndedSessionsAuthoriseNothing ==
    \A r \in Requests : step[r] \in {"handler", "logout"} => cookie[r] \notin knew[r]

=============================================================================
