--------------------------- MODULE BrokerAccounts ---------------------------
(***************************************************************************)
(* The broker accounts: their rows, selecting, connecting and              *)
(* disconnecting them, and the authorization to trade live.                *)
(*                                                                         *)
(* A request loads a row, may await calls into MetaTrader, and commits.    *)
(* Endpoints that await run on the event loop, the others in threads of    *)
(* their own, so anything may happen between a request's load and its      *)
(* commit.  The mapper writes only the columns whose value differs from    *)
(* the one it loaded (Flush): what another request changed meanwhile       *)
(* stays, even where this request assigned the column.                     *)
(*                                                                         *)
(* All requests share one terminal session, and one adapter object whose   *)
(* service every connect of an account replaces; the adapter's own         *)
(* endpoints connect and disconnect whatever service it has.               *)
(***************************************************************************)
EXTENDS Naturals, FiniteSets

CONSTANTS
  Accounts,   \* account ids the owner may register
  Requests,   \* requests that may be in flight at once
  Operations  \* Operations[r]: what request r does, as pairs <<op, account>>

AllOperations == {"select", "update", "connect", "disconnect",
                  "authorize", "revoke", "delete"}

ASSUME AccountsAssumption ==
  /\ "none" \notin Accounts
  /\ Operations \in [Requests -> SUBSET (AllOperations \X Accounts)]

VARIABLES
  row,      \* row[a]: the BrokerAccount of a
  terminal, \* account the terminal session is logged in to, or "none"
  service,  \* mt5_broker_adapter.service: the account its configuration names,
            \* the request whose login it awaits, is it connected
  request   \* request[r]

vars == <<row, terminal, service, request>>

Absent == [status |-> "absent", selected |-> FALSE, verified |-> FALSE,
           trading |-> FALSE, authorized |-> FALSE]

Exists(a) == row[a].status \notin {"absent", "deleted"}

Free == [step |-> "idle", op |-> "select", account |-> "none", loaded |-> Absent,
         login |-> "none"]

Init ==
  /\ row = [a \in Accounts |-> Absent]
  /\ terminal = "none"
  /\ service = [login |-> "none", owner |-> "none", connected |-> FALSE]
  /\ request = [r \in Requests |-> Free]

\* The row as the mapper leaves it: assigned columns that equal what was
\* loaded are not part of the UPDATE.
Flush(current, loaded, assigned) ==
  [column \in DOMAIN current |->
     IF assigned[column] = loaded[column] THEN current[column] ELSE assigned[column]]

\* A commit of request r; a row that was deleted meanwhile makes it fail.
Commit(r, assigned) ==
  LET a == request[r].account IN
  row' = IF Exists(a)
         THEN [row EXCEPT ![a] = Flush(@, request[r].loaded, assigned)]
         ELSE row

\* Columns that connect, disconnect and update reset.
Reset(loaded, status) ==
  [loaded EXCEPT !.status = status, !.verified = FALSE, !.trading = FALSE,
                 !.authorized = FALSE]

Return(r) == request' = [request EXCEPT ![r] = Free]

At(r, op, step) == request[r].op = op /\ request[r].step = step

-----------------------------------------------------------------------------
(* Requests that load a row first                                          *)

\* _validate_account_for_live, on the row as it was loaded.
MayAuthorize(loaded) ==
  loaded.selected /\ loaded.status = "connected" /\ loaded.verified /\ loaded.trading

\* The other endpoints load the row, or answer 404, and check what they
\* loaded.
Load(r, op, a) ==
  /\ request[r].step = "idle" /\ <<op, a>> \in Operations[r]
  /\ Exists(a)
  /\ op = "authorize" => MayAuthorize(row[a])
  /\ op = "delete" => ~row[a].selected
  /\ request' = [request EXCEPT
       ![r] = [Free EXCEPT !.step = "loaded", !.op = op, !.account = a, !.loaded = row[a]]]
  /\ UNCHANGED <<row, terminal, service>>

\* create_broker_account: account numbers are unique.
Create(a) ==
  /\ row[a] = Absent
  /\ row' = [row EXCEPT ![a].status = "disconnected"]
  /\ UNCHANGED <<terminal, service, request>>

\* Mutant of Select: the other rows stay selected.
SelectOnly(r) ==
  /\ At(r, "select", "loaded")
  /\ Commit(r, [request[r].loaded EXCEPT !.selected = TRUE, !.authorized = FALSE])
  /\ Return(r)
  /\ UNCHANGED <<terminal, service>>

\* Mutant of Select: nobody's authorization ends.
SelectAuthorized(r) ==
  LET a == request[r].account
      cleared == [b \in Accounts |-> [row[b] EXCEPT !.selected = FALSE]]
      assigned == [request[r].loaded EXCEPT !.selected = TRUE]
  IN
  /\ At(r, "select", "loaded")
  /\ row' = IF Exists(a)
            THEN [cleared EXCEPT ![a] = Flush(@, request[r].loaded, assigned)]
            ELSE row
  /\ Return(r)
  /\ UNCHANGED <<terminal, service>>

\* select_broker_account: one UPDATE clears every row, without telling the
\* session, and the selected column is set through the loaded object.
Select(r) ==
  LET a == request[r].account
      cleared == [b \in Accounts |-> [row[b] EXCEPT !.selected = FALSE, !.authorized = FALSE]]
      assigned == [request[r].loaded EXCEPT !.selected = TRUE, !.authorized = FALSE]
  IN
  /\ At(r, "select", "loaded")
  /\ row' = IF Exists(a)
            THEN [cleared EXCEPT ![a] = Flush(@, request[r].loaded, assigned)]
            ELSE row
  /\ Return(r)
  /\ UNCHANGED <<terminal, service>>

\* authorize_live_trading, after its token was accepted.
Authorize(r) ==
  /\ At(r, "authorize", "loaded")
  /\ Commit(r, [request[r].loaded EXCEPT !.authorized = TRUE])
  /\ Return(r)
  /\ UNCHANGED <<terminal, service>>

\* revoke_live_trading and disable_live_trading.
Revoke(r) ==
  /\ At(r, "revoke", "loaded")
  /\ Commit(r, [request[r].loaded EXCEPT !.authorized = FALSE])
  /\ Return(r)
  /\ UNCHANGED <<terminal, service>>

\* update_broker_account with another server or credential.
Update(r) ==
  /\ At(r, "update", "loaded")
  /\ Commit(r, Reset(request[r].loaded, "disconnected"))
  /\ Return(r)
  /\ UNCHANGED <<terminal, service>>

Delete(r) ==
  /\ At(r, "delete", "loaded")
  /\ row' = IF Exists(request[r].account)
            THEN [row EXCEPT ![request[r].account] = [Absent EXCEPT !.status = "deleted"]]
            ELSE row
  /\ Return(r)
  /\ UNCHANGED <<terminal, service>>

-----------------------------------------------------------------------------
(* connect_broker_account, from one await to the next                      *)

\* "connecting" is committed, then the old session is shut down.
ConnectBegin(r) ==
  /\ At(r, "connect", "loaded")
  /\ Commit(r, Reset(request[r].loaded, "connecting"))
  /\ IF Exists(request[r].account)
     THEN request' = [request EXCEPT ![r].step = "shutdown", ![r].loaded = Absent]
     ELSE Return(r)
  /\ UNCHANGED <<terminal, service>>

\* The row is read again for the server's name; from here on this reading
\* is what the mapper compares with.  The adapter gets a service of its own.
ConnectShutdown(r) ==
  /\ At(r, "connect", "shutdown")
  /\ terminal' = "none"
  /\ IF Exists(request[r].account)
     THEN /\ service' = [login |-> request[r].account, owner |-> r, connected |-> FALSE]
          /\ request' = [request EXCEPT ![r].step = "login",
                                        ![r].loaded = row[request[r].account]]
     ELSE /\ service' = [service EXCEPT !.connected = FALSE]
          /\ Return(r)
  /\ UNCHANGED row

\* MT5Service.initialize of the service made above.
ConnectLogin(r) ==
  /\ At(r, "connect", "login")
  /\ terminal' = request[r].account
  /\ service' = IF service.owner = r
                THEN [service EXCEPT !.owner = "none", !.connected = TRUE] ELSE service
  /\ request' = [request EXCEPT ![r].step = "account"]
  /\ UNCHANGED row

\* account_info and terminal_info go through whatever service the adapter
\* has by then.
ConnectAccount(r) ==
  /\ At(r, "connect", "account")
  /\ service.connected /\ terminal # "none"
  /\ request' = [request EXCEPT ![r].step = "terminal", ![r].login = terminal]
  /\ UNCHANGED <<row, terminal, service>>

\* Verified: the terminal is connected, login and server are the account's.
ConnectFinish(r) ==
  /\ At(r, "connect", "terminal")
  /\ service.connected
  /\ \E answers \in BOOLEAN, permitted \in BOOLEAN :
       LET verified == answers /\ request[r].login = request[r].account IN
       Commit(r, [request[r].loaded EXCEPT
                    !.status = IF verified THEN "connected" ELSE "verification_failed",
                    !.verified = verified,
                    !.trading = verified /\ permitted,
                    !.authorized = FALSE])
  /\ Return(r)
  /\ UNCHANGED <<terminal, service>>

\* Mutant of ConnectFails: the error is answered, and the row left as it is.
ConnectFailsSilently(r) ==
  /\ request[r].op = "connect"
  /\ \/ request[r].step = "login"
     \/ request[r].step = "account" /\ (~service.connected \/ terminal = "none")
     \/ request[r].step = "terminal" /\ ~service.connected
  /\ Return(r)
  /\ UNCHANGED <<row, terminal, service>>

\* The terminal refuses the login, or the service is not connected any more.
ConnectFails(r) ==
  /\ request[r].op = "connect"
  /\ \/ request[r].step = "login"
     \/ request[r].step = "account" /\ (~service.connected \/ terminal = "none")
     \/ request[r].step = "terminal" /\ ~service.connected
  /\ Commit(r, Reset(request[r].loaded, "error"))
  /\ Return(r)
  /\ service' = [service EXCEPT !.owner = IF @ = r THEN "none" ELSE @]
  /\ UNCHANGED terminal

-----------------------------------------------------------------------------
(* disconnect_broker_account                                               *)

\* The session is shut down whichever account it belongs to; the row that is
\* written was loaded before.
Disconnect(r) ==
  /\ At(r, "disconnect", "loaded")
  /\ terminal' = "none"
  /\ service' = [service EXCEPT !.connected = FALSE]
  /\ request' = [request EXCEPT ![r].step = "save"]
  /\ UNCHANGED row

DisconnectSave(r) ==
  /\ At(r, "disconnect", "save")
  /\ Commit(r, Reset(request[r].loaded, "disconnected"))
  /\ Return(r)
  /\ UNCHANGED <<terminal, service>>

-----------------------------------------------------------------------------
(* The adapter's own endpoints, which know no account                      *)

\* connect_adapter logs in with the service's configuration.  Before any
\* account was connected that is the environment's, which may name any.
AdapterConnect ==
  /\ \E a \in IF service.login = "none" THEN Accounts ELSE {service.login} : terminal' = a
  /\ service' = [service EXCEPT !.connected = TRUE]
  /\ UNCHANGED <<row, request>>

\* disconnect_adapter.
AdapterDisconnect ==
  /\ terminal' = "none"
  /\ service' = [service EXCEPT !.connected = FALSE]
  /\ UNCHANGED <<row, request>>

-----------------------------------------------------------------------------

\* A request goes on once it has loaded its row.
Proceed(r) ==
  \/ Select(r) \/ Authorize(r) \/ Revoke(r) \/ Update(r) \/ Delete(r)
  \/ ConnectBegin(r) \/ ConnectShutdown(r) \/ ConnectLogin(r)
  \/ ConnectAccount(r) \/ ConnectFinish(r) \/ ConnectFails(r)
  \/ Disconnect(r) \/ DisconnectSave(r)

Next ==
  \/ \E a \in Accounts : Create(a)
  \/ AdapterConnect \/ AdapterDisconnect
  \/ \E r \in Requests :
       Proceed(r) \/ \E op \in AllOperations, a \in Accounts : Load(r, op, a)

Spec == Init /\ [][Next]_vars

\* A request that has begun goes on: the calls into the terminal return, with
\* a result or after their time limit.  Nobody need send another one.
FairSpec == Spec /\ \A r \in Requests : WF_vars(Proceed(r))

-----------------------------------------------------------------------------
(* What the accounts must guarantee                                        *)

Rows == [status : {"absent", "deleted", "disconnected", "connecting", "connected",
                   "verification_failed", "error"},
         selected : BOOLEAN, verified : BOOLEAN, trading : BOOLEAN,
         authorized : BOOLEAN]

Calls ==
  [step : {"idle", "loaded", "shutdown", "login", "account", "terminal", "save"},
   op : AllOperations, account : Accounts \cup {"none"}, loaded : Rows,
   login : Accounts \cup {"none"}]

\* Type invariant of the rows and the requests.
TypeOK ==
  /\ row \in [Accounts -> Rows]
  /\ terminal \in Accounts \cup {"none"}
  /\ service \in [login : Accounts \cup {"none"}, owner : Requests \cup {"none"},
                  connected : BOOLEAN]
  /\ request \in [Requests -> Calls]

\* Whatever overlaps, there is one selected account at most: the gateway
\* takes the first it finds (_get_selected_account).
OneSelected ==
  \A a, b \in Accounts : row[a].selected /\ row[b].selected => a = b

\* "Selecting an account never arms live trading": an account that becomes
\* selected is not authorized, however late the authorization of an earlier
\* selection is committed.
SelectedUnauthorized ==
  [][\A a \in Accounts : ~row[a].selected /\ row'[a].selected => ~row'[a].authorized]_vars

\* No account stays "connecting" for good: whichever connect wrote it, and
\* however many others take the terminal session, the adapter's service or
\* the row away from it, some request writes how the connection ended, even
\* though a commit leaves alone every column that equals what was loaded.
ConnectingEnds ==
  \A a \in Accounts : row[a].status = "connecting" ~> row[a].status # "connecting"

=============================================================================
