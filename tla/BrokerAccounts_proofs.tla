------------------------ MODULE BrokerAccounts_proofs ------------------------
(***************************************************************************)
(* Proofs about BrokerAccounts, for any number of accounts and of requests *)
(* in flight.  A request's commit writes the columns it changed and leaves *)
(* the others as it finds them; which columns that can be is all the       *)
(* theorems need of the operations that are not named in them.             *)
(***************************************************************************)
EXTENDS BrokerAccounts, TLAPS

USE AccountsAssumption

\* A request that has begun is about one of the accounts.
Addressed == \A r \in Requests : request[r].step # "idle" => request[r].account \in Accounts

Services == [login : Accounts \cup {"none"}, owner : Requests \cup {"none"},
             connected : BOOLEAN]

IInv == TypeOK /\ Addressed /\ OneSelected

\* Each column of a flushed row is the assigned one where the request changed
\* it, and the current one where it did not.
LEMMA FlushIsRow ==
  ASSUME NEW current \in Rows, NEW loaded \in Rows, NEW assigned \in Rows
  PROVE  /\ Flush(current, loaded, assigned) \in Rows
         /\ assigned.selected = loaded.selected
              => Flush(current, loaded, assigned).selected = current.selected
BY DEF Flush, Rows

\* Rows keep their type when each of them stays or becomes a given row.
LEMMA CommitRows ==
  ASSUME TypeOK, NEW r \in Requests, NEW assigned \in Rows, Commit(r, assigned)
  PROVE  /\ row' \in [Accounts -> Rows]
         /\ \A b \in Accounts :
              \/ row'[b] = row[b]
              \/ /\ b = request[r].account
                 /\ row'[b] = Flush(row[b], request[r].loaded, assigned)
<1> DEFINE a == request[r].account
<1>1. CASE a \in Accounts /\ Exists(a)
  <2>1. Flush(row[a], request[r].loaded, assigned) \in Rows
    BY <1>1, FlushIsRow DEF TypeOK, Calls
  <2> QED BY <1>1, <2>1 DEF Commit, TypeOK
<1>2. CASE ~(a \in Accounts /\ Exists(a))
  BY <1>2 DEF Commit, TypeOK
<1> QED BY <1>1, <1>2

\* What a step that is no selection may do to the rows: it selects nothing.
Mild(r) ==
  /\ row' \in [Accounts -> Rows]
  /\ \A b \in Accounts : row'[b].selected => row[b].selected

\* A commit of columns other than selected.
LEMMA CommitIsMild ==
  ASSUME TypeOK, NEW r \in Requests, NEW assigned \in Rows, Commit(r, assigned),
         assigned.selected = request[r].loaded.selected
  PROVE  Mild(r)
<1>1. row' \in [Accounts -> Rows]
  BY CommitRows
<1>2. ASSUME NEW b \in Accounts
      PROVE  row'[b].selected => row[b].selected
  <2>1. CASE row'[b] = row[b]
    BY <2>1
  <2>2. CASE b = request[r].account /\ row'[b] = Flush(row[b], request[r].loaded, assigned)
    <3>1. row[b] \in Rows /\ request[r].loaded \in Rows
      BY DEF TypeOK, Calls
    <3> QED BY <2>2, <3>1, FlushIsRow
  <2> QED BY <2>1, <2>2, CommitRows
<1> QED BY <1>1, <1>2 DEF Mild

\* The other requests stay as they are, and r becomes one that is well formed.
LEMMA RequestChanges ==
  ASSUME TypeOK, Addressed, NEW r \in Requests,
         NEW q \in Calls,
         q.step # "idle" => q.account \in Accounts,
         request' = [request EXCEPT ![r] = q]
  PROVE  /\ request' \in [Requests -> Calls]
         /\ Addressed'
BY DEF TypeOK, Addressed

LEMMA AbsentIsRow == Absent \in Rows
BY DEF Absent, Rows

LEMMA FreeIsRequest ==
  Free \in Calls /\ Free.step = "idle"
BY AbsentIsRow DEF Free, Calls, AllOperations

LEMMA Returned ==
  ASSUME TypeOK, Addressed, NEW r \in Requests, Return(r)
  PROVE  /\ request' \in [Requests -> Calls]
         /\ Addressed'
BY FreeIsRequest, RequestChanges DEF Return

LEMMA ResetIsRow ==
  ASSUME NEW loaded \in Rows,
         NEW status \in {"disconnected", "connecting", "error"}
  PROVE  /\ Reset(loaded, status) \in Rows
         /\ Reset(loaded, status).selected = loaded.selected
BY DEF Reset, Rows

-----------------------------------------------------------------------------

LEMMA InitIInv == Init => IInv
<1> SUFFICES ASSUME Init PROVE IInv
  OBVIOUS
<1>1. TypeOK
  BY AbsentIsRow, FreeIsRequest DEF Init, TypeOK
<1>2. Addressed
  BY FreeIsRequest DEF Init, Addressed
<1>3. OneSelected
  BY DEF Init, OneSelected, Absent
<1> QED BY <1>1, <1>2, <1>3 DEF IInv

\* A request that returns after a commit of r.
LEMMA CommitAndReturn ==
  ASSUME TypeOK, Addressed, NEW r \in Requests, Mild(r), Return(r),
         UNCHANGED <<terminal, service>>
  PROVE  TypeOK' /\ Addressed' /\ Mild(r)
<1>1. request' \in [Requests -> Calls] /\ Addressed'
  BY Returned
<1> QED BY <1>1 DEF TypeOK, Mild

\* No operation but a selection selects anything, whatever it overlaps with.
LEMMA ProceedIsMild ==
  ASSUME TypeOK, Addressed, NEW r \in Requests, Proceed(r), ~Select(r)
  PROVE  TypeOK' /\ Addressed' /\ Mild(r)
<1> DEFINE call == request[r]
<1>0. call \in Calls /\ call.loaded \in Rows
  BY DEF TypeOK, Calls
<1>1. CASE Authorize(r)
  <2> DEFINE assigned == [call.loaded EXCEPT !.authorized = TRUE]
  <2>1. assigned \in Rows /\ assigned.selected = call.loaded.selected
    BY <1>0 DEF Rows
  <2>2. Mild(r)
    BY <1>1, <2>1, CommitIsMild DEF Authorize
  <2> QED BY <1>1, <2>2, CommitAndReturn DEF Authorize
<1>2. CASE Revoke(r)
  <2> DEFINE assigned == [call.loaded EXCEPT !.authorized = FALSE]
  <2>1. assigned \in Rows /\ assigned.selected = call.loaded.selected
    BY <1>0 DEF Rows
  <2>2. Mild(r)
    BY <1>2, <2>1, CommitIsMild DEF Revoke
  <2> QED BY <1>2, <2>2, CommitAndReturn DEF Revoke
<1>3. CASE Update(r)
  <2>1. Mild(r)
    BY <1>0, <1>3, ResetIsRow, CommitIsMild DEF Update
  <2> QED BY <1>3, <2>1, CommitAndReturn DEF Update
<1>4. CASE Delete(r)
  <2>1. [Absent EXCEPT !.status = "deleted"] \in Rows
        /\ ~[Absent EXCEPT !.status = "deleted"].selected
    BY DEF Absent, Rows
  <2>2. Mild(r)
    BY <1>4, <2>1 DEF Delete, Mild, TypeOK
  <2> QED BY <1>4, <2>2, CommitAndReturn DEF Delete
<1>5. CASE ConnectBegin(r)
  <2>1. Mild(r)
    BY <1>0, <1>5, ResetIsRow, CommitIsMild DEF ConnectBegin
  <2>2. CASE Exists(call.account)
    <3> DEFINE next == [call EXCEPT !.step = "shutdown", !.loaded = Absent]
    <3>1. next \in Calls /\ next.account = call.account
      BY <1>0, AbsentIsRow DEF Calls
    <3>2. call.account \in Accounts
      BY <1>5 DEF ConnectBegin, At, Addressed
    <3>3. request' = [request EXCEPT ![r] = next]
      BY <1>5, <2>2 DEF ConnectBegin, TypeOK
    <3>4. request' \in [Requests -> Calls] /\ Addressed'
      BY <3>1, <3>2, <3>3, RequestChanges
    <3> QED BY <1>5, <2>1, <3>4 DEF ConnectBegin, TypeOK, Mild
  <2>3. CASE ~Exists(call.account)
    BY <1>5, <2>1, <2>3, CommitAndReturn DEF ConnectBegin
  <2> QED BY <2>2, <2>3
<1>6. CASE ConnectShutdown(r)
  <2>1. Mild(r)
    BY <1>6 DEF ConnectShutdown, Mild, TypeOK
  <2>2. terminal' \in Accounts \cup {"none"}
        /\ service' \in Services
    <3> DEFINE new == [login |-> call.account, owner |-> r, connected |-> FALSE]
    <3>1. terminal' = "none" /\ service' \in {new,
                                              [service EXCEPT !.connected = FALSE]}
      BY <1>6 DEF ConnectShutdown
    <3>2. call.account \in Accounts
      BY <1>6 DEF ConnectShutdown, At, Addressed
    <3>3. new \in Services
      BY <3>2 DEF Services
    <3>4. [service EXCEPT !.connected = FALSE] \in Services
      BY DEF TypeOK, Services
    <3> QED BY <3>1, <3>3, <3>4
  <2>3. CASE Exists(call.account)
    <3> DEFINE next == [call EXCEPT !.step = "login", !.loaded = row[call.account]]
    <3>1. call.account \in Accounts
      BY <1>6 DEF ConnectShutdown, At, Addressed
    <3>2. next \in Calls /\ next.account = call.account
      BY <1>0, <3>1 DEF Calls, TypeOK
    <3>3. request' = [request EXCEPT ![r] = next]
      BY <1>6, <2>3 DEF ConnectShutdown, TypeOK
    <3>4. request' \in [Requests -> Calls] /\ Addressed'
      BY <3>1, <3>2, <3>3, RequestChanges
    <3> QED BY <1>6, <2>1, <2>2, <3>4 DEF ConnectShutdown, TypeOK, Services
  <2>4. CASE ~Exists(call.account)
    <3>1. request' \in [Requests -> Calls] /\ Addressed'
      BY <1>6, <2>4, Returned DEF ConnectShutdown
    <3> QED BY <1>6, <2>1, <2>2, <3>1 DEF ConnectShutdown, TypeOK, Services
  <2> QED BY <2>3, <2>4
<1>7. CASE ConnectLogin(r)
  <2> DEFINE next == [call EXCEPT !.step = "account"]
  <2>1. Mild(r)
    BY <1>7 DEF ConnectLogin, Mild, TypeOK
  <2>2. call.account \in Accounts
    BY <1>7 DEF ConnectLogin, At, Addressed
  <2>3. next \in Calls /\ next.account = call.account
    BY <1>0 DEF Calls
  <2>4. request' = [request EXCEPT ![r] = next]
    BY <1>7 DEF ConnectLogin, TypeOK
  <2>5. request' \in [Requests -> Calls] /\ Addressed'
    BY <2>2, <2>3, <2>4, RequestChanges
  <2> QED BY <1>7, <2>1, <2>2, <2>5 DEF ConnectLogin, TypeOK
<1>8. CASE ConnectAccount(r)
  <2> DEFINE next == [call EXCEPT !.step = "terminal", !.login = terminal]
  <2>1. Mild(r)
    BY <1>8 DEF ConnectAccount, Mild, TypeOK
  <2>2. call.account \in Accounts
    BY <1>8 DEF ConnectAccount, At, Addressed
  <2>3. next \in Calls /\ next.account = call.account
    BY <1>0 DEF Calls, TypeOK
  <2>4. request' = [request EXCEPT ![r] = next]
    BY <1>8 DEF ConnectAccount, TypeOK
  <2>5. request' \in [Requests -> Calls] /\ Addressed'
    BY <2>2, <2>3, <2>4, RequestChanges
  <2> QED BY <1>8, <2>1, <2>5 DEF ConnectAccount, TypeOK
<1>9. CASE ConnectFinish(r)
  <2>1. PICK answers \in BOOLEAN, permitted \in BOOLEAN :
          LET verified == answers /\ call.login = call.account IN
          Commit(r, [call.loaded EXCEPT
                       !.status = IF verified THEN "connected" ELSE "verification_failed",
                       !.verified = verified,
                       !.trading = verified /\ permitted,
                       !.authorized = FALSE])
    BY <1>9 DEF ConnectFinish
  <2> DEFINE verified == answers /\ call.login = call.account
             assigned == [call.loaded EXCEPT
                            !.status = IF verified THEN "connected" ELSE "verification_failed",
                            !.verified = verified,
                            !.trading = verified /\ permitted,
                            !.authorized = FALSE]
  <2>2. assigned \in Rows /\ assigned.selected = call.loaded.selected
    BY <1>0 DEF Rows
  <2>3. Commit(r, assigned)
    BY <2>1
  <2>4. Mild(r)
    BY <2>2, <2>3, CommitIsMild
  <2> QED BY <1>9, <2>4, CommitAndReturn DEF ConnectFinish
<1>10. CASE ConnectFails(r)
  <2>1. Mild(r)
    BY <1>0, <1>10, ResetIsRow, CommitIsMild DEF ConnectFails
  <2>2. request' \in [Requests -> Calls] /\ Addressed'
    BY <1>10, Returned DEF ConnectFails
  <2>3. terminal' = terminal /\ service' \in Services
    <3>1. service \in Services
      BY DEF TypeOK, Services
    <3> QED BY <1>10, <3>1 DEF ConnectFails, Services
  <2> QED BY <2>1, <2>2, <2>3 DEF TypeOK, Services, Mild
<1>11. CASE Disconnect(r)
  <2> DEFINE next == [call EXCEPT !.step = "save"]
  <2>1. Mild(r)
    BY <1>11 DEF Disconnect, Mild, TypeOK
  <2>2. call.account \in Accounts
    BY <1>11 DEF Disconnect, At, Addressed
  <2>3. next \in Calls /\ next.account = call.account
    BY <1>0 DEF Calls
  <2>4. request' = [request EXCEPT ![r] = next]
    BY <1>11 DEF Disconnect, TypeOK
  <2>5. request' \in [Requests -> Calls] /\ Addressed'
    BY <2>2, <2>3, <2>4, RequestChanges
  <2> QED BY <1>11, <2>1, <2>5 DEF Disconnect, TypeOK
<1>12. CASE DisconnectSave(r)
  <2>1. Mild(r)
    BY <1>0, <1>12, ResetIsRow, CommitIsMild DEF DisconnectSave
  <2> QED BY <1>12, <2>1, CommitAndReturn DEF DisconnectSave
<1> QED BY <1>1, <1>2, <1>3, <1>4, <1>5, <1>6, <1>7, <1>8, <1>9, <1>10, <1>11, <1>12
        DEF Proceed

\* A selection clears every row, and leaves selected no account but its own;
\* that one is not authorized.
LEMMA SelectLeavesOne ==
  ASSUME TypeOK, Addressed, NEW r \in Requests, Select(r)
  PROVE  /\ TypeOK' /\ Addressed'
         /\ \/ row' = row
            \/ \A b \in Accounts :
                 /\ row'[b].selected => b = request[r].account
                 /\ ~row'[b].authorized
<1> DEFINE a == request[r].account
           loaded == request[r].loaded
           cleared == [b \in Accounts |-> [row[b] EXCEPT !.selected = FALSE,
                                                         !.authorized = FALSE]]
           assigned == [loaded EXCEPT !.selected = TRUE, !.authorized = FALSE]
           flushed == Flush(cleared[a], loaded, assigned)
<1>1. loaded \in Rows /\ assigned \in Rows
  <2>1. loaded \in Rows
    BY DEF TypeOK, Calls
  <2> QED BY <2>1 DEF Rows
<1>2. cleared \in [Accounts -> Rows]
      /\ \A b \in Accounts : /\ ~cleared[b].selected /\ ~cleared[b].authorized
  <2>1. ASSUME NEW b \in Accounts
        PROVE  /\ cleared[b] \in Rows
               /\ ~cleared[b].selected /\ ~cleared[b].authorized
    <3>1. row[b] \in Rows
      BY <2>1 DEF TypeOK
    <3>2. cleared[b] = [row[b] EXCEPT !.selected = FALSE, !.authorized = FALSE]
      BY <2>1
    <3> QED BY <3>1, <3>2 DEF Rows
  <2> HIDE DEF cleared
  <2>2. cleared = [b \in Accounts |-> cleared[b]]
    BY DEF cleared
  <2> QED BY <2>1, <2>2
<1>3. a \in Accounts
  BY DEF Select, At, Addressed
<1>4. flushed \in Rows /\ ~flushed.authorized
  <2>1. cleared[a] \in Rows /\ ~cleared[a].authorized
    BY <1>2, <1>3
  <2>2. ~assigned.authorized
    BY <1>1 DEF Rows
  <2> HIDE DEF cleared, assigned, loaded
  <2>3. flushed \in Rows
    BY <1>1, <2>1, FlushIsRow
  <2>4. ~flushed.authorized
    BY <1>1, <2>1, <2>2 DEF Flush, Rows
  <2> QED BY <2>3, <2>4
<1>5. request' \in [Requests -> Calls] /\ Addressed'
  BY Returned DEF Select
<1>6. CASE Exists(a)
  <2>1. row' = [cleared EXCEPT ![a] = flushed]
    BY <1>6 DEF Select
  <2>2. row' \in [Accounts -> Rows]
    BY <1>2, <1>3, <1>4, <2>1
  <2>3. \A b \in Accounts : row'[b] = IF b = a THEN flushed ELSE cleared[b]
    BY <1>2, <2>1
  <2> QED BY <1>2, <1>4, <1>5, <2>2, <2>3 DEF Select, TypeOK
<1>7. CASE ~Exists(a)
  BY <1>5, <1>7 DEF Select, TypeOK
<1> QED BY <1>6, <1>7

\* Registering, loading and the adapter's own endpoints.
Others ==
  \/ \E a \in Accounts : Create(a)
  \/ AdapterConnect \/ AdapterDisconnect
  \/ \E r \in Requests, op \in AllOperations, a \in Accounts : Load(r, op, a)

\* They select nothing.
LEMMA OthersAreMild ==
  ASSUME TypeOK, Addressed, Others
  PROVE  /\ TypeOK' /\ Addressed'
         /\ \A b \in Accounts : row'[b].selected = row[b].selected
<1>1. CASE \E a \in Accounts : Create(a)
  <2>1. PICK a \in Accounts : Create(a)
    BY <1>1
  <2>2. row' \in [Accounts -> Rows]
        /\ \A b \in Accounts : row'[b].selected = row[b].selected
    BY <2>1 DEF Create, TypeOK, Rows
  <2> QED BY <2>1, <2>2 DEF Create, TypeOK, Addressed
<1>2. CASE \E r \in Requests, op \in AllOperations, a \in Accounts : Load(r, op, a)
  <2>1. PICK r \in Requests, op \in AllOperations, a \in Accounts : Load(r, op, a)
    BY <1>2
  <2> DEFINE q == [Free EXCEPT !.step = "loaded", !.op = op, !.account = a, !.loaded = row[a]]
  <2>2. q \in Calls /\ q.account \in Accounts
    BY FreeIsRequest DEF Calls, TypeOK
  <2>3. request' = [request EXCEPT ![r] = q]
    BY <2>1 DEF Load
  <2>4. request' \in [Requests -> Calls] /\ Addressed'
    BY <2>2, <2>3, RequestChanges
  <2> QED BY <2>1, <2>4 DEF Load, TypeOK
<1>3. CASE AdapterConnect \/ AdapterDisconnect
  <2>1. terminal' \in Accounts \cup {"none"} /\ UNCHANGED <<row, request>>
    BY <1>3 DEF AdapterConnect, AdapterDisconnect, TypeOK
  <2>2. service' \in Services
    <3>1. service \in Services
      BY DEF TypeOK, Services
    <3> QED BY <1>3, <3>1 DEF AdapterConnect, AdapterDisconnect, Services
  <2> QED BY <2>1, <2>2 DEF TypeOK, Addressed, Services
<1> QED BY <1>1, <1>2, <1>3 DEF Others

LEMMA NextIInv == IInv /\ [Next]_vars => IInv'
<1> SUFFICES ASSUME IInv, [Next]_vars PROVE IInv'
  OBVIOUS
<1>0. TypeOK /\ Addressed /\ OneSelected
  BY DEF IInv
<1>1. CASE UNCHANGED vars
  BY <1>0, <1>1 DEF vars, IInv, TypeOK, Addressed, OneSelected
<1>2. CASE Others
  BY <1>0, <1>2, OthersAreMild DEF IInv, OneSelected
<1>3. ASSUME NEW r \in Requests, Select(r)
      PROVE  IInv'
  BY <1>0, <1>3, SelectLeavesOne DEF IInv, OneSelected
<1>4. ASSUME NEW r \in Requests, Proceed(r), ~Select(r)
      PROVE  IInv'
  BY <1>0, <1>4, ProceedIsMild DEF IInv, OneSelected, Mild
<1> QED BY <1>1, <1>2, <1>3, <1>4 DEF Next, Others

LEMMA InvariantHolds == Spec => []IInv
BY InitIInv, NextIInv, PTL DEF Spec

-----------------------------------------------------------------------------

\* However the requests of any number of clients overlap, at most one account
\* is selected (select_broker_account).
THEOREM SelectionIsUnique == Spec => []OneSelected
<1>1. IInv => OneSelected
  BY DEF IInv
<1> QED BY <1>1, InvariantHolds, PTL

\* Rows, requests and the shared session keep their types.
THEOREM AccountsTypeCorrect == Spec => []TypeOK
<1>1. IInv => TypeOK
  BY DEF IInv
<1> QED BY <1>1, InvariantHolds, PTL

\* An account that becomes selected is not authorized to trade live, even when
\* an authorization of an earlier selection commits late.
THEOREM SelectionDisarms == Spec => SelectedUnauthorized
<1> DEFINE Disarmed ==
             \A a \in Accounts : ~row[a].selected /\ row'[a].selected => ~row'[a].authorized
<1>1. ASSUME IInv, [Next]_vars
      PROVE  [Disarmed]_vars
  <2>0. TypeOK /\ Addressed
    BY <1>1 DEF IInv
  <2>1. CASE UNCHANGED vars
    BY <2>1
  <2>2. CASE Others
    BY <2>0, <2>2, OthersAreMild
  <2>3. ASSUME NEW r \in Requests, Select(r)
        PROVE  Disarmed
    BY <2>0, <2>3, SelectLeavesOne
  <2>4. ASSUME NEW r \in Requests, Proceed(r), ~Select(r)
        PROVE  Disarmed
    BY <2>0, <2>4, ProceedIsMild DEF Mild
  <2> QED BY <1>1, <2>1, <2>2, <2>3, <2>4 DEF Next, Others
<1> QED BY <1>1, InvariantHolds, PTL DEF Spec, SelectedUnauthorized

=============================================================================
