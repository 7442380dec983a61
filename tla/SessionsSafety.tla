--------------------------- MODULE SessionsSafety ---------------------------
(***************************************************************************)
(* What a session authorises and how long an address is kept out, for any  *)
(* number of addresses, requests and tokens.                               *)
(***************************************************************************)
EXTENDS Sessions, FiniteSetTheorems, TLAPS

\* A request at one of these steps came from an address, or names a session.
LoginSteps == {"verify", "fail", "clear", "open"}
CheckedSteps == {"session", "csrf", "handler", "logout"}

Shape ==
    \A r \in Requests :
        /\ step[r] \in LoginSteps => from[r] \in Addresses
        /\ step[r] \in CheckedSteps => cookie[r] \in Ids

\* What is valid has not ended; what has ended, or was found valid, had been
\* issued and is not issued again; a request knows of no end that has not come.
EndedIsOver ==
    /\ sessions \subseteq issued
    /\ ended \subseteq issued
    /\ \A i \in Ids : Valid(i) => i \notin ended
    /\ \A r \in Requests :
          /\ knew[r] \subseteq ended
          /\ step[r] \in CheckedSteps \ {"session"} => cookie[r] \in issued

\* The attempts of an address that are under way and not counted.
Pending(a) == {r \in Requests : step[r] \in {"verify", "fail"} /\ from[r] = a}

\* Those, too, are within what an address may reach.
Allowance ==
    \A a \in Addresses :
        Open(a) => failures[a].count + Cardinality(Pending(a)) <= Limit - 1 + Cardinality(Requests)

Inv == TypeOK /\ Shape /\ EndedIsOver /\ EndedSessionsAuthoriseNothing

-----------------------------------------------------------------------------

LEMMA SessionsInit == Init => Inv
<1> SUFFICES ASSUME Init PROVE Inv
  OBVIOUS
<1> USE DEF Init
<1>1. TypeOK
  <2>1. NoFailure \in [count : Nat, left : -1..Window]
    BY TimesAreNumbers DEF NoFailure
  <2>2. -1 \in -1..Lifetime
    BY TimesAreNumbers
  <2> QED
    BY <2>1, <2>2 DEF TypeOK, Steps
<1>2. Shape
  BY DEF Shape, LoginSteps, CheckedSteps
<1>3. EndedIsOver
  BY DEF EndedIsOver, Valid, CheckedSteps
<1>4. EndedSessionsAuthoriseNothing
  BY DEF EndedSessionsAuthoriseNothing
<1> QED
  BY <1>1, <1>2, <1>3, <1>4 DEF Inv

-----------------------------------------------------------------------------
(* A step keeps the types.                                                 *)

LEMMA LoginTyped ==
    ASSUME TypeOK, Shape, NEW r \in Requests, Login(r)
    PROVE  TypeOK' /\ Shape'
<1> USE TimesAreNumbers DEF TypeOK, Shape, LoginSteps, CheckedSteps, Steps
<1>1. ASSUME NEW a \in Addresses, BeginLogin(r, a)
      PROVE  TypeOK' /\ Shape'
  BY <1>1 DEF BeginLogin, tables
<1>2. CASE Verify(r)
  BY <1>2 DEF Verify, tables, Go
<1>3. CASE Failed(r)
  <2>1. from[r] \in Addresses
    BY <1>3 DEF Failed
  <2>2. failures' \in [Addresses -> [count : Nat, left : -1..Window]]
    BY <1>3, <2>1 DEF Failed
  <2> QED
    BY <1>3, <2>2 DEF Failed, Answer
<1>4. CASE ClearFailure(r)
  <2>1. failures' \in [Addresses -> [count : Nat, left : -1..Window]]
    BY <1>4 DEF ClearFailure, NoFailure
  <2> QED
    BY <1>4, <2>1 DEF ClearFailure, Go
<1>5. CASE OpenSession(r)
  BY <1>5 DEF OpenSession, Answer
<1>6. CASE NoToken(r)
  BY <1>6 DEF NoToken, Answer, tables
<1> QED
  BY <1>1, <1>2, <1>3, <1>4, <1>5, <1>6 DEF Login

LEMMA RequestTyped ==
    ASSUME TypeOK, Shape, NEW r \in Requests, Request(r)
    PROVE  TypeOK' /\ Shape'
<1> USE TimesAreNumbers DEF TypeOK, Shape, LoginSteps, CheckedSteps, Steps
<1>1. ASSUME NEW id \in Ids, BeginRequest(r, id)
      PROVE  TypeOK' /\ Shape'
  BY <1>1 DEF BeginRequest, tables
<1>2. CASE Refuse(r)
  BY <1>2 DEF Refuse, Drop, Answer
<1>3. CASE FindSession(r)
  BY <1>3 DEF FindSession, tables, Go
<1>4. CASE CsrfValid(r)
  BY <1>4 DEF CsrfValid, tables, Go
<1>5. CASE CsrfMissing(r)
  BY <1>5 DEF CsrfMissing, tables, Answer
<1>6. CASE Handle(r)
  BY <1>6 DEF Handle, tables, Answer
<1>7. CASE Logout(r)
  BY <1>7 DEF Logout, Drop, Answer
<1> QED
  BY <1>1, <1>2, <1>3, <1>4, <1>5, <1>6, <1>7 DEF Request

LEMMA StepTyped ==
    ASSUME TypeOK, Shape, [Next]_vars
    PROVE  TypeOK' /\ Shape'
<1>1. CASE Tick
  <2> USE TimesAreNumbers DEF TypeOK, Shape
  <2>1. failures' \in [Addresses -> [count : Nat, left : -1..Window]]
    BY <1>1 DEF Tick
  <2>2. expires' \in [Ids -> -1..Lifetime]
    BY <1>1 DEF Tick
  <2>3. ended' \in SUBSET Ids
    BY <1>1 DEF Tick
  <2> QED
    BY <1>1, <2>1, <2>2, <2>3 DEF Tick, requests
<1>2. CASE Restart
  <2>1. NoFailure \in [count : Nat, left : -1..Window] /\ -1 \in -1..Lifetime
    BY TimesAreNumbers DEF NoFailure
  <2> QED
    BY <1>2, <2>1 DEF Restart, TypeOK, Shape, LoginSteps, CheckedSteps, Steps
<1>3. CASE UNCHANGED vars
  BY <1>3 DEF vars, tables, requests, TypeOK, Shape
<1> QED
  BY <1>1, <1>2, <1>3, LoginTyped, RequestTyped DEF Next

-----------------------------------------------------------------------------
(* A step makes no ended session valid, and authorises nothing by one.     *)

LEMMA LoginOver ==
    ASSUME Inv, NEW r \in Requests, Login(r)
    PROVE  EndedIsOver' /\ EndedSessionsAuthoriseNothing'
<1> USE DEF Inv, TypeOK, CheckedSteps
<1>1. ASSUME NEW a \in Addresses, BeginLogin(r, a)
      PROVE  EndedIsOver' /\ EndedSessionsAuthoriseNothing'
  BY <1>1 DEF BeginLogin, tables, EndedIsOver, Valid, EndedSessionsAuthoriseNothing
<1>2. CASE Verify(r)
  BY <1>2 DEF Verify, Go, tables, EndedIsOver, Valid, EndedSessionsAuthoriseNothing
<1>3. CASE Failed(r)
  BY <1>3 DEF Failed, Answer, EndedIsOver, Valid, EndedSessionsAuthoriseNothing
<1>4. CASE ClearFailure(r)
  BY <1>4 DEF ClearFailure, Go, EndedIsOver, Valid, EndedSessionsAuthoriseNothing
<1>5. CASE OpenSession(r)
  BY <1>5 DEF OpenSession, Answer, EndedIsOver, Valid, EndedSessionsAuthoriseNothing
<1>6. CASE NoToken(r)
  BY <1>6 DEF NoToken, Answer, tables, EndedIsOver, Valid, EndedSessionsAuthoriseNothing
<1> QED
  BY <1>1, <1>2, <1>3, <1>4, <1>5, <1>6 DEF Login

LEMMA RequestOver ==
    ASSUME Inv, NEW r \in Requests, Request(r)
    PROVE  EndedIsOver' /\ EndedSessionsAuthoriseNothing'
<1> USE DEF Inv, TypeOK, CheckedSteps
<1>1. ASSUME NEW id \in Ids, BeginRequest(r, id)
      PROVE  EndedIsOver' /\ EndedSessionsAuthoriseNothing'
  BY <1>1 DEF BeginRequest, tables, EndedIsOver, Valid, EndedSessionsAuthoriseNothing
<1>2. CASE Refuse(r)
  BY <1>2 DEF Refuse, Drop, Answer, EndedIsOver, Valid, EndedSessionsAuthoriseNothing
<1>3. CASE FindSession(r)
  <2>1. cookie[r] \notin knew[r]
    BY <1>3 DEF FindSession, EndedIsOver, Shape, CheckedSteps
  <2> QED
    BY <1>3, <2>1 DEF FindSession, Go, tables, EndedIsOver, Valid, EndedSessionsAuthoriseNothing
<1>4. CASE CsrfValid(r)
  <2>1. cookie[r] \notin knew[r]
    BY <1>4 DEF CsrfValid, EndedIsOver, Shape, CheckedSteps
  <2> QED
    BY <1>4, <2>1 DEF CsrfValid, Go, tables, EndedIsOver, Valid, EndedSessionsAuthoriseNothing
<1>5. CASE CsrfMissing(r)
  BY <1>5 DEF CsrfMissing, Answer, tables, EndedIsOver, Valid, EndedSessionsAuthoriseNothing
<1>6. CASE Handle(r)
  BY <1>6 DEF Handle, Answer, tables, EndedIsOver, Valid, EndedSessionsAuthoriseNothing
<1>7. CASE Logout(r)
  BY <1>7 DEF Logout, Drop, Answer, EndedIsOver, Valid, EndedSessionsAuthoriseNothing
<1> QED
  BY <1>1, <1>2, <1>3, <1>4, <1>5, <1>6, <1>7 DEF Request

LEMMA SessionsStep == Inv /\ [Next]_vars => Inv'
<1> SUFFICES ASSUME Inv, [Next]_vars PROVE EndedIsOver' /\ EndedSessionsAuthoriseNothing'
  BY StepTyped DEF Inv
<1>1. CASE Tick
  BY <1>1 DEF Tick, requests, Inv, TypeOK, CheckedSteps, EndedIsOver, Valid, EndedSessionsAuthoriseNothing
<1>2. CASE Restart
  BY <1>2 DEF Restart, Inv, TypeOK, CheckedSteps, EndedIsOver, Valid, EndedSessionsAuthoriseNothing
<1>3. CASE UNCHANGED vars
  BY <1>3 DEF vars, tables, requests, Inv, CheckedSteps, EndedIsOver, Valid, EndedSessionsAuthoriseNothing
<1> QED
  BY <1>1, <1>2, <1>3, LoginOver, RequestOver DEF Next

LEMMA SessionsInvariant == Spec => []Inv
BY SessionsInit, SessionsStep, PTL DEF Spec

-----------------------------------------------------------------------------

\* The tables and the requests keep their types.
THEOREM SessionsTyped == Spec => []TypeOK
<1>1. Inv => TypeOK
  BY DEF Inv
<1> QED
  BY <1>1, SessionsInvariant, PTL

\* No request that comes after the end of a session is carried out in its name,
\* for any number of requests and sessions.
THEOREM EndedIsEnded == Spec => []EndedSessionsAuthoriseNothing
<1>1. Inv => EndedSessionsAuthoriseNothing
  BY DEF Inv
<1> QED
  BY <1>1, SessionsInvariant, PTL

\* However many failures are counted, and however late, the end of a window
\* stays where the first of them put it.
THEOREM WindowStays == Spec => WindowIsFixed
<1> DEFINE Fixed == \A a \in Addresses : Open(a) /\ Open(a)' => failures'[a].left <= failures[a].left
<1>1. Inv /\ [Next]_vars => [Fixed]_vars
  <2> SUFFICES ASSUME Inv, Next, NEW a \in Addresses, Open(a), Open(a)'
               PROVE  failures'[a].left <= failures[a].left
    OBVIOUS
  <2> USE DEF Inv, TypeOK, Open
  <2>0. failures[a] \in [count : Nat, left : -1..Window] /\ failures[a].left \in Int
    BY TimesAreNumbers
  <2>1. CASE failures' = failures
    BY <2>0, <2>1
  <2>2. ASSUME NEW r \in Requests, Failed(r)
        PROVE  failures'[a].left <= failures[a].left
    BY <2>0, <2>2 DEF Failed
  <2>3. ASSUME NEW r \in Requests, ClearFailure(r)
        PROVE  failures'[a].left <= failures[a].left
    BY <2>0, <2>3 DEF ClearFailure, NoFailure
  <2>4. CASE Tick
    BY <2>0, <2>4 DEF Tick
  <2>5. CASE Restart
    BY <2>0, <2>5 DEF Restart, NoFailure
  <2>6. ASSUME NEW r \in Requests, Login(r) \/ Request(r), ~Failed(r), ~ClearFailure(r)
        PROVE  failures' = failures
    BY <2>6 DEF Login, Request, BeginLogin, Verify, OpenSession, NoToken, BeginRequest,
                Refuse, FindSession, CsrfValid, CsrfMissing, Handle, Logout, tables
  <2> QED
    BY <2>1, <2>2, <2>3, <2>4, <2>5, <2>6 DEF Next
<1> QED
  BY <1>1, SessionsInvariant, PTL DEF Spec, WindowIsFixed

-----------------------------------------------------------------------------
(* How many failures there may be.                                         *)

LEMMA PendingIsFinite ==
    ASSUME NEW a
    PROVE  /\ IsFiniteSet(Pending(a)) /\ Cardinality(Pending(a)) \in Nat
           /\ Cardinality(Requests) \in Nat
           /\ Cardinality(Pending(a)) <= Cardinality(Requests)
BY RequestsAreFinite, FS_Subset, FS_CardinalityType DEF Pending

\* Where no attempt begins, none is more under way.
LEMMA FewerPending ==
    ASSUME NEW a, Pending(a)' \subseteq Pending(a)
    PROVE  /\ Cardinality(Pending(a))' \in Nat
           /\ Cardinality(Pending(a))' <= Cardinality(Pending(a))
BY PendingIsFinite, FS_Subset, FS_CardinalityType

\* What an attempt adds to the count is taken from those under way.
LEMMA FailedAllowed ==
    ASSUME TypeOK, Shape, Allowance, NEW r \in Requests, Failed(r), NEW a \in Addresses, Open(a)'
    PROVE  failures'[a].count + Cardinality(Pending(a))' <= Limit - 1 + Cardinality(Requests)
<1> USE TimesAreNumbers, PendingIsFinite DEF TypeOK
<1>1. failures[a].count \in Nat /\ from[r] \in Addresses
  BY DEF Shape, LoginSteps, Failed
<1>2. CASE a # from[r]
  <2>1. failures'[a] = failures[a] /\ Pending(a)' \subseteq Pending(a)
    BY <1>2 DEF Failed, Answer, Pending
  <2>2. Open(a)
    BY <2>1 DEF Open
  <2> QED
    BY <1>1, <2>1, <2>2, FewerPending DEF Allowance
<1>3. CASE a = from[r]
  <2>1. r \in Pending(a) /\ Pending(a)' = Pending(a) \ {r}
    BY <1>3, NothingIsNone DEF Failed, Answer, Pending
  <2>2. Cardinality(Pending(a))' = Cardinality(Pending(a)) - 1
    BY <2>1, FS_RemoveElement
  <2>3. CASE Open(a)
    <3>1. failures'[a].count = failures[a].count + 1
      BY <1>3, <2>3 DEF Failed
    <3> QED
      BY <1>1, <2>2, <2>3, <3>1 DEF Allowance
  <2>4. CASE ~Open(a)
    <3>1. failures'[a].count = 1
      BY <1>3, <2>4 DEF Failed
    <3> QED
      BY <2>2, <3>1
  <2> QED
    BY <2>3, <2>4
<1> QED
  BY <1>2, <1>3

\* An attempt begins only below the limit, so that all requests together reach
\* what is allowed.
LEMMA BeginLoginAllowed ==
    ASSUME TypeOK, NEW r \in Requests, NEW b \in Addresses, BeginLogin(r, b), Allowance,
           NEW a \in Addresses, Open(a)
    PROVE  failures[a].count + Cardinality(Pending(a))' <= Limit - 1 + Cardinality(Requests)
<1> USE TimesAreNumbers, PendingIsFinite DEF TypeOK
<1>1. failures[a].count \in Nat
  OBVIOUS
<1>2. /\ Cardinality(Pending(a))' \in Nat /\ Cardinality(Requests) \in Nat
      /\ Cardinality(Pending(a))' <= Cardinality(Requests)
  <2>1. Pending(a)' \subseteq Requests
    BY DEF Pending
  <2> QED
    BY <2>1, RequestsAreFinite, FS_Subset, FS_CardinalityType
<1>3. CASE a = b
  <2>1. failures[a].count < Limit
    BY <1>3 DEF BeginLogin, AllowAttempt
  <2> QED
    BY <1>1, <1>2, <2>1
<1>4. CASE a # b
  <2>1. Pending(a)' \subseteq Pending(a)
    BY <1>4 DEF BeginLogin, Pending
  <2> QED
    BY <1>1, <2>1, FewerPending DEF Allowance
<1> QED
  BY <1>3, <1>4

\* Any other step leaves the count, or closes the window, or the address has
\* nothing counted.
LEMMA OthersAllowed ==
    ASSUME TypeOK, Shape, Allowance, NEW a \in Addresses, Open(a)',
           Open(a) => failures'[a].count = failures[a].count,
           Open(a)' => Open(a), Pending(a)' \subseteq Pending(a)
    PROVE  failures'[a].count + Cardinality(Pending(a))' <= Limit - 1 + Cardinality(Requests)
<1>1. failures[a].count \in Nat /\ Limit \in Nat
  BY TimesAreNumbers DEF TypeOK
<1> QED
  BY <1>1, PendingIsFinite, FewerPending DEF Allowance

LEMMA AllowanceStep ==
    ASSUME TypeOK, Shape, Allowance, [Next]_vars
    PROVE  Allowance'
<1> SUFFICES ASSUME NEW a \in Addresses, Open(a)'
             PROVE  failures'[a].count + Cardinality(Pending(a))' <= Limit - 1 + Cardinality(Requests)
  BY DEF Allowance
<1>0. failures[a] \in [count : Nat, left : -1..Window]
  BY DEF TypeOK
<1>1. ASSUME NEW r \in Requests, NEW b \in Addresses, BeginLogin(r, b)
      PROVE  failures'[a].count + Cardinality(Pending(a))' <= Limit - 1 + Cardinality(Requests)
  <2>1. failures' = failures
    BY <1>1 DEF BeginLogin, tables
  <2>2. Open(a)
    BY <2>1 DEF Open
  <2> QED
    BY <1>1, <2>1, <2>2, BeginLoginAllowed
<1>2. ASSUME NEW r \in Requests, Failed(r)
      PROVE  failures'[a].count + Cardinality(Pending(a))' <= Limit - 1 + Cardinality(Requests)
  BY <1>2, FailedAllowed
<1>3. ASSUME NEW r \in Requests, ClearFailure(r)
      PROVE  failures'[a].count + Cardinality(Pending(a))' <= Limit - 1 + Cardinality(Requests)
  <2>1. a # from[r] /\ failures'[a] = failures[a]
    BY <1>3, <1>0, TimesAreNumbers DEF ClearFailure, NoFailure, Open, TypeOK
  <2>2. Pending(a)' \subseteq Pending(a)
    BY <1>3 DEF ClearFailure, Go, Pending, TypeOK
  <2> QED
    BY <2>1, <2>2, OthersAllowed DEF Open
<1>4. CASE Tick
  <2>1. (Open(a)' => Open(a)) /\ failures'[a].count = failures[a].count
    BY <1>4, <1>0, TimesAreNumbers DEF Tick, Open, TypeOK
  <2>2. Pending(a)' \subseteq Pending(a)
    BY <1>4 DEF Tick, requests, Pending
  <2> QED
    BY <2>1, <2>2, OthersAllowed
<1>5. CASE Restart
  BY <1>5, TimesAreNumbers DEF Restart, NoFailure, Open
<1>6. ASSUME NEW r \in Requests, Login(r) \/ Request(r), ~Failed(r), ~ClearFailure(r),
             \A b \in Addresses : ~BeginLogin(r, b)
      PROVE  failures' = failures /\ Pending(a)' \subseteq Pending(a)
  <2>1. failures' = failures
    BY <1>6 DEF Login, Request, Verify, OpenSession, NoToken, BeginRequest,
                Refuse, FindSession, CsrfValid, CsrfMissing, Handle, Logout, tables
  <2>2. Pending(a)' \subseteq Pending(a)
    BY <1>6 DEF Login, Request, Verify, OpenSession, NoToken, BeginRequest, Refuse, FindSession,
                CsrfValid, CsrfMissing, Handle, Logout, Go, Answer, Pending, TypeOK
  <2> QED
    BY <2>1, <2>2
<1>7. CASE failures' = failures /\ Pending(a)' \subseteq Pending(a)
  BY <1>7, OthersAllowed DEF Open
<1>8. CASE UNCHANGED vars
  BY <1>7, <1>8 DEF vars, tables, requests, Pending
<1> QED
  BY <1>1, <1>2, <1>3, <1>4, <1>5, <1>6, <1>7, <1>8 DEF Next

\* However many requests come at once, an address never has more failures within
\* a window than the limit less one and one for each of them.
THEOREM AttemptsBounded == Spec => []AttemptsAreBounded
<1>1. Init => Allowance
  BY DEF Init, Allowance, Open, NoFailure
<1>2. Inv => TypeOK /\ Shape
  BY DEF Inv
<1>3. TypeOK /\ Shape /\ Allowance /\ [Next]_vars => Allowance'
  BY AllowanceStep
<1>4. TypeOK /\ Allowance => AttemptsAreBounded
  <2> SUFFICES ASSUME TypeOK, Allowance, NEW a \in Addresses, Open(a)
               PROVE  failures[a].count <= Limit - 1 + Cardinality(Requests)
    BY DEF AttemptsAreBounded
  <2>1. failures[a].count \in Nat /\ Limit \in Nat
    BY TimesAreNumbers DEF TypeOK
  <2> QED
    BY <2>1, PendingIsFinite DEF Allowance
<1> QED
  BY <1>1, <1>2, <1>3, <1>4, SessionsInvariant, PTL DEF Spec

=============================================================================
