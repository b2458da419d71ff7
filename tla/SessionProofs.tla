--------------------------- MODULE SessionProofs ---------------------------
(***************************************************************************)
(* Theorems about the session lifecycle, for any number of sessions,        *)
(* sockets, requests, attempts and faults.                                  *)
(***************************************************************************)
EXTENDS Session, FiniteSetTheorems, TLAPS

RowsType ==
  /\ status \in [Sessions -> Status]
  /\ creds \in [Sessions -> BOOLEAN] /\ known \in [Sessions -> BOOLEAN]
  /\ count \in [Sessions -> Nat] /\ deleted \in [Sessions -> BOOLEAN]
Making == [pc : {"auth", "version"}, creds : BOOLEAN,
           by : {"request", "refresh", "manual", "job", "timer", "boot"}]
MkType == mk \in [Sessions -> SUBSET Making]
ClType == cl \in [Clients -> Client \cup NewClient \cup {IdleClient}]
WType == hw \in Worker \cup {IdleWorker}
Handler == [pc : {"off", "find", "increment", "publish", "mark"}, n : Nat]
DType == dis \in [Sessions -> [Handlers -> Handler]]

\* One statement on one row keeps the table well-typed.
LEMMA RowWritten ==
  ASSUME TypeOK, NEW s \in Sessions, NEW b \in BOOLEAN,
         \/ DisconnectSession(s) \/ SoftDelete(s) \/ MarkAsDisconnected(s)
         \/ IncrementReconnectCount(s) \/ ResetReconnectCount(s) \/ SetCreds(s, b) \/ SetConnected(s)
  PROVE  RowsType'
<1>1. RowsType  BY DEF TypeOK, RowsType
<1>2. count[s] + 1 \in Nat /\ "DISCONNECTED" \in Status /\ "RECONNECTING" \in Status
      /\ "CONNECTED" \in Status
  BY <1>1 DEF RowsType, Status
<1>3. CASE DisconnectSession(s)  BY <1>1, <1>2, <1>3 DEF RowsType, DisconnectSession
<1>4. CASE SoftDelete(s)  BY <1>1, <1>2, <1>4 DEF RowsType, SoftDelete
<1>5. CASE MarkAsDisconnected(s)  BY <1>1, <1>2, <1>5 DEF RowsType, MarkAsDisconnected
<1>6. CASE IncrementReconnectCount(s)  BY <1>1, <1>2, <1>6 DEF RowsType, IncrementReconnectCount
<1>7. CASE ResetReconnectCount(s)  BY <1>1, <1>2, <1>7 DEF RowsType, ResetReconnectCount
<1>8. CASE SetCreds(s, b)  BY <1>1, <1>8 DEF RowsType, SetCreds
<1>9. CASE SetConnected(s)  BY <1>1, <1>2, <1>9 DEF RowsType, SetConnected
<1>10. QED  BY <1>3, <1>4, <1>5, <1>6, <1>7, <1>8, <1>9

LEMMA Begun ==
  ASSUME TypeOK, NEW s \in Sessions,
         NEW by \in {"request", "refresh", "manual", "job", "timer", "boot"}, Begin(s, by)
  PROVE  MkType'
<1>1. MkType  BY DEF TypeOK, MkType, Making
<1>2. Maker(by) \in Making  BY DEF Maker, Making
<1>3. QED  BY <1>1, <1>2 DEF MkType, Begin

\* A request that has begun and has its session.
LEMMA ClientBusy ==
  ASSUME TypeOK, NEW c \in Clients, cl[c].pc # "idle", cl[c].pc # "create"
  PROVE  cl[c] \in Client /\ cl[c].s \in Sessions /\ cl[c].kind \in RequestKinds
BY DEF TypeOK, Client, NewClient, IdleClient

LEMMA ClientSet ==
  ASSUME TypeOK, NEW c \in Clients, NEW x \in Client \cup NewClient \cup {IdleClient},
         cl' = [cl EXCEPT ![c] = x]
  PROVE  ClType'
BY DEF TypeOK, ClType

LEMMA ClientGoes ==
  ASSUME TypeOK, NEW c \in Clients, cl[c].pc # "idle", cl[c].pc # "create",
         NEW l \in {"invalidate", "creating", "start", "forget", "clear", "end"},
         Goto(c, l) \/ Finish(c)
  PROVE  ClType'
<1>1. cl[c] \in Client  BY ClientBusy
<1>2. [cl[c] EXCEPT !.pc = l] \in Client  BY <1>1 DEF Client
<1>3. CASE Finish(c)  BY <1>3, ClientSet DEF Finish
<1>4. CASE Goto(c, l)
  <2>1. cl' = [cl EXCEPT ![c] = [cl[c] EXCEPT !.pc = l]]  BY <1>4 DEF Goto
  <2>2. QED  BY <1>2, <2>1, ClientSet
<1>5. QED  BY <1>3, <1>4

\* One step of one handler.
LEMMA HandlerSet ==
  ASSUME TypeOK, NEW s \in Sessions, NEW i \in Handlers, NEW x \in Handler,
         dis' = [dis EXCEPT ![s][i] = x]
  PROVE  DType'
<1>1. DType  BY DEF TypeOK, DType, Handler
<1>2. [dis[s] EXCEPT ![i] = x] \in [Handlers -> Handler]  BY <1>1 DEF DType
<1>3. dis' = [dis EXCEPT ![s] = [dis[s] EXCEPT ![i] = x]]  OBVIOUS
<1>4. QED  BY <1>1, <1>2, <1>3 DEF DType

LEMMA LoadAuthType == ASSUME TypeOK, NEW s \in Sessions, LoadAuth(s) PROVE TypeOK'
<1>1. PICK x \in mk[s] :
        mk' = [mk EXCEPT ![s] = (@ \ {x}) \cup {[x EXCEPT !.pc = "version", !.creds = creds[s]]}]
  BY DEF LoadAuth
<1>2. MkType /\ creds[s] \in BOOLEAN  BY DEF TypeOK, MkType, Making
<1>3. x \in Making  BY <1>2 DEF MkType
<1>4. [x EXCEPT !.pc = "version", !.creds = creds[s]] \in Making  BY <1>2, <1>3 DEF Making
<1>5. MkType'  BY <1>1, <1>2, <1>4 DEF MkType
<1>6. QED  BY <1>5 DEF LoadAuth, MkType, Making, TypeOK, rows, net, queue, hist

LEMMA BootType == ASSUME TypeOK, NEW s \in Sessions, Boot(s) PROVE TypeOK'
<1>1. MkType'  BY Begun DEF Boot
<1>2. QED  BY <1>1 DEF Boot, MkType, Making, TypeOK, rows, net, queue, hist

LEMMA TimerType == ASSUME TypeOK, NEW s \in Sessions, Timer(s) PROVE TypeOK'
<1>1. MkType'  BY Begun DEF Timer
<1>2. timer' \in [Sessions -> Nat]  BY DEF Timer, TypeOK
<1>3. QED  BY <1>1, <1>2 DEF Timer, MkType, Making, TypeOK, rows, net, queue, hist

LEMMA HandleConnectedType == ASSUME TypeOK, NEW s \in Sessions, HandleConnected(s) PROVE TypeOK'
<1>1. RowsType  BY DEF TypeOK, RowsType
<1>2. RowsType'
  <2>1. CASE SetConnected(s)  BY <2>1, RowWritten
  <2>2. CASE UNCHANGED rows  BY <1>1, <2>2 DEF RowsType, rows
  <2>3. QED  BY <2>1, <2>2 DEF HandleConnected
<1>3. pend' \in [Sessions -> SUBSET {"connected", "logout"}]  BY DEF HandleConnected, TypeOK
<1>4. QED  BY <1>2, <1>3 DEF HandleConnected, RowsType, TypeOK, net, queue, hist

LEMMA HandleLogoutType == ASSUME TypeOK, NEW s \in Sessions, HandleLogout(s) PROVE TypeOK'
<1>1. RowsType  BY DEF TypeOK, RowsType
<1>2. RowsType'
  <2>1. CASE DisconnectSession(s)  BY <2>1, RowWritten
  <2>2. CASE UNCHANGED rows  BY <1>1, <2>2 DEF RowsType, rows
  <2>3. QED  BY <2>1, <2>2 DEF HandleLogout
<1>3. pend' \in [Sessions -> SUBSET {"connected", "logout"}]  BY DEF HandleLogout, TypeOK
<1>4. QED  BY <1>2, <1>3 DEF HandleLogout, RowsType, TypeOK, net, queue, hist

LEMMA FindDisconnectedType ==
  ASSUME TypeOK, NEW s \in Sessions, FindDisconnected(s)
  PROVE  TypeOK'
<1>1. \A l \in {"increment", "mark"} : [pc |-> l, n |-> count[s]] \in Handler
  BY DEF TypeOK, Handler
<1>2. Quiet \in Handler  BY DEF Quiet, Handler
<1>3. DType'  BY <1>1, <1>2, HandlerSet DEF FindDisconnected, DisGoto, DisEnds
<1>4. QED  BY <1>3 DEF FindDisconnected, DType, Handler, TypeOK, rows, net, queue, hist

LEMMA WriteDisconnectedType ==
  ASSUME TypeOK, NEW s \in Sessions, WriteDisconnected(s)
  PROVE  TypeOK'
<1>1. RowsType'  BY RowWritten DEF WriteDisconnected
<1>2. \A i \in Handlers : [pc |-> "publish", n |-> dis[s][i].n] \in Handler
  BY DEF TypeOK, Handler
<1>3. Quiet \in Handler  BY DEF Quiet, Handler
<1>4. DType'  BY <1>2, <1>3, HandlerSet DEF WriteDisconnected, DisGoto, DisEnds
<1>5. QED  BY <1>1, <1>4 DEF WriteDisconnected, RowsType, DType, Handler, TypeOK, net, queue, hist

LEMMA OpenType == ASSUME TypeOK, NEW k \in Sockets, Open(k) PROVE TypeOK'
<1>1. sock[k] \in [state : {"new", "open"}, s : Sessions, creds : BOOLEAN]
  BY DEF TypeOK, Open, Free
<1>2. [sock[k] EXCEPT !.state = "open"] \in [state : {"new", "open"}, s : Sessions, creds : BOOLEAN]
  BY <1>1
<1>3. sock' \in [Sockets -> [state : {"new", "open"}, s : Sessions, creds : BOOLEAN] \cup {Free}]
  <2>1. sock' = [sock EXCEPT ![k] = [sock[k] EXCEPT !.state = "open"]]  BY DEF Open
  <2>2. QED  BY <1>2, <2>1 DEF TypeOK
<1>4. pend' \in [Sessions -> SUBSET {"connected", "logout"}]  BY <1>1 DEF Open, TypeOK
<1>5. QED  BY <1>3, <1>4 DEF Open, TypeOK, rows, queue, hist

LEMMA WorkerBusy ==
  ASSUME TypeOK, hw.pc # "idle"
  PROVE  hw \in Worker /\ hw.s \in Sessions /\ hw.n \in Nat
BY DEF TypeOK, Worker, IdleWorker

LEMMA WorkerGoes ==
  ASSUME TypeOK, hw.pc # "idle", NEW n \in Nat,
         NEW l \in {"creating", "increment", "publish", "mark"},
         \/ hw' = [hw EXCEPT !.pc = l] \/ hw' = [hw EXCEPT !.n = n, !.pc = l] \/ hw' = IdleWorker
  PROVE  WType'
<1>1. hw \in Worker  BY WorkerBusy
<1>2. QED  BY <1>1 DEF Worker, WType

LEMMA WReconnectType == ASSUME TypeOK, WReconnect PROVE TypeOK'
<1>1. hw.pc # "idle" /\ hw.s \in Sessions /\ hw.n \in Nat  BY WorkerBusy DEF WReconnect
<1>2. WType'  BY <1>1, WorkerGoes DEF WReconnect
<1>3. MkType'
  <2>1. CASE mk' = mk  BY <2>1 DEF TypeOK, MkType, Making
  <2>2. CASE Begin(hw.s, "job")  BY <1>1, <2>2, Begun
  <2>3. QED  BY <2>1, <2>2 DEF WReconnect
<1>4. QED  BY <1>2, <1>3 DEF WReconnect, WType, MkType, Making, TypeOK, rows, net, queue, hist

LEMMA WCheckType == ASSUME TypeOK, WCheck PROVE TypeOK'
<1>1. hw.pc # "idle" /\ hw.s \in Sessions  BY WorkerBusy DEF WCheck
<1>2. count[hw.s] \in Nat  BY <1>1 DEF TypeOK
<1>3. WType'  BY <1>1, <1>2, WorkerGoes DEF WCheck
<1>4. QED  BY <1>3 DEF WCheck, WType, TypeOK, rows, net, mem, hist

LEMMA WWriteType == ASSUME TypeOK, WWrite PROVE TypeOK'
<1>1. hw.pc # "idle" /\ hw.s \in Sessions  BY WorkerBusy DEF WWrite
<1>2. RowsType'  BY <1>1, RowWritten DEF WWrite
<1>3. WType'  BY <1>1, WorkerGoes DEF WWrite
<1>4. QED  BY <1>2, <1>3 DEF WWrite, RowsType, WType, TypeOK, net, mem, hist

LEMMA AskType ==
  ASSUME TypeOK, NEW c \in Clients, NEW kind \in RequestKinds, NEW s, NEW l, Ask(c, kind, s, l),
         [pc |-> l, kind |-> kind, s |-> s] \in Client \cup NewClient
  PROVE  TypeOK'
<1>1. ClType'  BY ClientSet DEF Ask
<1>2. requests' \in Nat /\ ended' \in [Sessions -> BOOLEAN]  BY DEF Ask, TypeOK
<1>3. QED  BY <1>1, <1>2 DEF Ask, ClType, TypeOK, rows, net, mem, queue

LEMMA InitiateType == ASSUME TypeOK, NEW c \in Clients, Initiate(c) PROVE TypeOK'
<1>1. CASE Ask(c, "initiate", 0, "create")
  BY <1>1, AskType DEF NewClient, RequestKinds
<1>2. ASSUME NEW s \in Newest, Ask(c, "initiate", s, "destroy") PROVE TypeOK'
  <2>1. s \in Sessions  BY DEF Newest, Active, Rows
  <2>2. QED  BY <1>2, <2>1, AskType DEF Client, RequestKinds
<1>3. QED  BY <1>1, <1>2 DEF Initiate

\* What a request's step may do to the sockets without a new session.
LEMMA EndType ==
  ASSUME TypeOK, NEW s \in Sessions, End(s) \/ Closed(conn[s])
  PROVE  /\ sock' \in [Sockets -> [state : {"new", "open"}, s : Sessions, creds : BOOLEAN] \cup {Free}]
         /\ conn' \in [Sessions -> Sockets \cup {NoSocket}]
BY DEF TypeOK, End, Closed

LEMMA EndTimer ==
  ASSUME TypeOK, NEW s \in Sessions, End(s)
  PROVE  timer' \in [Sessions -> Nat]
<1>1. timer \in [Sessions -> Nat]  BY DEF TypeOK
<1>2. timer' = timer \/ timer' = [timer EXCEPT ![s] = @ + 1]  BY DEF End
<1>3. QED  BY <1>1, <1>2

LEMMA DestroyForNewType == ASSUME TypeOK, NEW c \in Clients, DestroyForNew(c) PROVE TypeOK'
<1>1. cl[c].pc # "idle" /\ cl[c].pc # "create"  BY DEF DestroyForNew
<1>2. cl[c].s \in Sessions  BY <1>1, ClientBusy
<1>3. ClType'  BY <1>1, ClientGoes DEF DestroyForNew
<1>5. End(cl[c].s)  BY DEF DestroyForNew
<1>4. timer' \in [Sessions -> Nat]  BY <1>2, <1>5, EndTimer
<1>6. QED  BY <1>2, <1>3, <1>4, <1>5, EndType DEF DestroyForNew, ClType, TypeOK, rows, queue, hist

LEMMA DestroyForCodeType == ASSUME TypeOK, NEW c \in Clients, DestroyForCode(c) PROVE TypeOK'
<1>1. cl[c].pc # "idle" /\ cl[c].pc # "create"  BY DEF DestroyForCode
<1>2. cl[c].s \in Sessions  BY <1>1, ClientBusy
<1>3. ClType'  BY <1>1, ClientGoes DEF DestroyForCode
<1>5. End(cl[c].s)  BY DEF DestroyForCode
<1>4. timer' \in [Sessions -> Nat]  BY <1>2, <1>5, EndTimer
<1>6. MkType'
  <2>1. MkType  BY DEF TypeOK, MkType, Making
  <2>2. Maker("refresh") \in Making  BY DEF Maker, Making
  <2>3. QED  BY <2>1, <2>2 DEF DestroyForCode, MkType
<1>7. QED
  BY <1>2, <1>3, <1>4, <1>5, <1>6, EndType
     DEF DestroyForCode, ClType, MkType, Making, TypeOK, rows, queue, hist

LEMMA InvalidateType == ASSUME TypeOK, NEW c \in Clients, Invalidate(c) PROVE TypeOK'
<1>1. cl[c] \in Client /\ cl[c].s \in Sessions  BY ClientBusy DEF Invalidate
<1>2. RowsType'  BY <1>1, RowWritten DEF Invalidate
<1>3. ClType'
  <2>1. [cl[c] EXCEPT !.pc = "create"] \in NewClient  BY <1>1 DEF Client, NewClient
  <2>2. cl' = [cl EXCEPT ![c] = [cl[c] EXCEPT !.pc = "create"]]  BY DEF Invalidate, Goto
  <2>3. QED  BY <2>1, <2>2, ClientSet
<1>4. QED  BY <1>2, <1>3 DEF Invalidate, ClType, RowsType, TypeOK, net, mem, queue, hist

LEMMA CreateType == ASSUME TypeOK, NEW c \in Clients, Create(c) PROVE TypeOK'
<1>1. PICK s \in Sessions :
        /\ status' = [status EXCEPT ![s] = "CONNECTING"]
        /\ cl' = [cl EXCEPT ![c] = [@ EXCEPT !.pc = "start", !.s = s]]
  BY DEF Create
<1>2. cl[c] \in NewClient \cup Client  BY DEF TypeOK, Create, IdleClient
<1>3. [cl[c] EXCEPT !.pc = "start", !.s = s] \in Client  BY <1>2
   DEF NewClient, Client, RequestKinds
<1>4. cl' = [cl EXCEPT ![c] = [cl[c] EXCEPT !.pc = "start", !.s = s]]  BY <1>1
<1>5. ClType'  BY <1>3, <1>4, ClientSet
<1>6. status' \in [Sessions -> Status]  BY <1>1 DEF TypeOK, Status
<1>7. QED  BY <1>5, <1>6 DEF Create, ClType, TypeOK, net, mem, queue, hist

LEMMA ResetType == ASSUME TypeOK, NEW c \in Clients, Reset(c) PROVE TypeOK'
<1>1. cl[c].pc # "idle" /\ cl[c].pc # "create"  BY DEF Reset
<1>2. cl[c].s \in Sessions  BY <1>1, ClientBusy
<1>3. ClType'  BY <1>1, ClientGoes DEF Reset
<1>4. RowsType'  BY <1>2, RowWritten DEF Reset
<1>5. QED  BY <1>3, <1>4 DEF Reset, ClType, RowsType, TypeOK, net, mem, queue, hist

LEMMA ClearType == ASSUME TypeOK, NEW c \in Clients, Clear(c) PROVE TypeOK'
<1>1. cl[c].pc # "idle" /\ cl[c].pc # "create"  BY DEF Clear
<1>2. cl[c].s \in Sessions  BY <1>1, ClientBusy
<1>3. ClType'  BY <1>1, ClientGoes DEF Clear
<1>4. RowsType'  BY <1>2, RowWritten DEF Clear
<1>5. QED  BY <1>3, <1>4 DEF Clear, ClType, RowsType, TypeOK, net, mem, queue, hist

LEMMA StartType == ASSUME TypeOK, NEW c \in Clients, Start(c) PROVE TypeOK'
<1>1. cl[c].pc # "idle" /\ cl[c].pc # "create"  BY DEF Start
<1>2. cl[c].s \in Sessions  BY <1>1, ClientBusy
<1>3. ClType'  BY <1>1, ClientGoes DEF Start
<1>4. MkType'  BY <1>2, Begun DEF Start
<1>5. QED  BY <1>3, <1>4 DEF Start, ClType, MkType, Making, TypeOK, rows, net, queue, hist

LEMMA LogoutType == ASSUME TypeOK, NEW c \in Clients, Logout(c) PROVE TypeOK'
<1>1. cl[c].pc # "idle" /\ cl[c].pc # "create"  BY DEF Logout
<1>2. cl[c].s \in Sessions  BY <1>1, ClientBusy
<1>3. ClType'  BY <1>1, ClientGoes DEF Logout
<1>4. linked' \in [Sessions -> BOOLEAN] /\ closing' \in [Sessions -> BOOLEAN]
  BY <1>2 DEF Logout, TypeOK
<1>5. CASE UNCHANGED <<sock, conn>>
  BY <1>3, <1>4, <1>5 DEF Logout, ClType, TypeOK, rows, queue, hist
<1>6. CASE Closed(conn[cl[c].s])
  BY <1>2, <1>3, <1>4, <1>6, EndType DEF Logout, ClType, TypeOK, rows, queue, hist
<1>7. QED  BY <1>5, <1>6 DEF Logout

LEMMA ForgetType == ASSUME TypeOK, NEW c \in Clients, Forget(c) PROVE TypeOK'
<1>1. cl[c].pc # "idle" /\ cl[c].pc # "create"  BY DEF Forget
<1>2. cl[c].s \in Sessions  BY <1>1, ClientBusy
<1>3. ClType'  BY <1>1, ClientGoes DEF Forget
<1>4. conn' \in [Sessions -> Sockets \cup {NoSocket}] /\ torn' \in [Sessions -> BOOLEAN]
  BY <1>2 DEF Forget, TypeOK
<1>5. QED  BY <1>3, <1>4 DEF Forget, ClType, TypeOK, rows, mem, queue

LEMMA MakeSocketType == ASSUME TypeOK, NEW s \in Sessions, MakeSocket(s) PROVE TypeOK'
BY DEF MakeSocket, Answer, Awaiting, CanRetryReconnect, TypeOK, Worker, Client, NewClient,
   IdleWorker, IdleClient, Free, rows, hist

LEMMA ClearAuthStateType == ASSUME TypeOK, NEW s \in Sessions, ClearAuthState(s) PROVE TypeOK'
BY DEF ClearAuthState, SetCreds, TypeOK, net, queue, hist

LEMMA SaveCredsType == ASSUME TypeOK, NEW s \in Sessions, SaveCreds(s) PROVE TypeOK'
BY DEF SaveCreds, SetCreds, TypeOK, net, queue, hist

LEMMA PublishDisconnectedType ==
  ASSUME TypeOK, NEW s \in Sessions, PublishDisconnected(s)
  PROVE  TypeOK'
<1>1. Quiet \in Handler  BY DEF Quiet, Handler
<1>2. DType'  BY <1>1, HandlerSet DEF PublishDisconnected, DisEnds
<1>3. \A i \in Handlers :
        Reconnect(s, dis[s][i].n + 1) \in [s : Sessions, kind : {"reconnect", "check"}, n : Nat]
  BY DEF Reconnect, TypeOK
<1>4. jobs' \in SUBSET [s : Sessions, kind : {"reconnect", "check"}, n : Nat]
  BY <1>3 DEF PublishDisconnected, TypeOK
<1>5. QED  BY <1>2, <1>4 DEF PublishDisconnected, DType, Handler, TypeOK, rows, net, hist

LEMMA CheckStaleHeartbeatsType ==
  ASSUME TypeOK, NEW s \in Sessions, CheckStaleHeartbeats(s)
  PROVE  TypeOK'
BY DEF CheckStaleHeartbeats, Check, TypeOK, rows, net, mem, hist

LEMMA PhoneLogoutType == ASSUME TypeOK, NEW s \in Sessions, PhoneLogout(s) PROVE TypeOK'
BY DEF PhoneLogout, Fault, TypeOK, rows, mem, queue

LEMMA HandlerThrowType == ASSUME TypeOK, NEW s \in Sessions, HandlerThrow(s) PROVE TypeOK'
BY DEF HandlerThrow, Fault, TypeOK, rows, net, queue

LEMMA DisconnectedThrowType ==
  ASSUME TypeOK, NEW s \in Sessions, DisconnectedThrow(s)
  PROVE  TypeOK'
<1>1. Quiet \in Handler  BY DEF Quiet, Handler
<1>2. DType'  BY <1>1, HandlerSet DEF DisconnectedThrow, DisEnds
<1>3. faults' \in Nat  BY DEF DisconnectedThrow, Fault, TypeOK
<1>4. QED  BY <1>2, <1>3 DEF DisconnectedThrow, DType, Handler, TypeOK, rows, net, queue

LEMMA ScanType == ASSUME TypeOK, NEW k \in Sockets, Scan(k) PROVE TypeOK'
BY DEF Scan, Closed, TypeOK, Free, rows, queue, hist

LEMMA LoseType == ASSUME TypeOK, NEW k \in Sockets, Lose(k) PROVE TypeOK'
BY DEF Lose, Closed, Live, Fault, TypeOK, Free, rows, queue

LEMMA LoggedOutType == ASSUME TypeOK, NEW k \in Sockets, LoggedOut(k) PROVE TypeOK'
BY DEF LoggedOut, Closed, Live, TypeOK, Free, rows, queue, hist

LEMMA CredsUpdateType == ASSUME TypeOK, NEW k \in Sockets, CredsUpdate(k) PROVE TypeOK'
BY DEF CredsUpdate, TypeOK, Free, rows, net, queue, hist

LEMMA WLoadType == ASSUME TypeOK, WLoad PROVE TypeOK'
BY DEF WLoad, TypeOK, rows, net, mem, hist

LEMMA WPublishType == ASSUME TypeOK, WPublish PROVE TypeOK'
BY DEF WPublish, Reconnect, TypeOK, Worker, IdleWorker, rows, net, mem, hist

LEMMA WThrowType == ASSUME TypeOK, WThrow PROVE TypeOK'
BY DEF WThrow, Fault, Unfinished, Job, TypeOK, Worker, IdleWorker, rows, net, mem

LEMMA RollbackType == ASSUME TypeOK, NEW c \in Clients, Rollback(c) PROVE TypeOK'
BY DEF Rollback, SoftDelete, Finish, TypeOK, Status, Client, NewClient, IdleClient, net, mem,
   queue, hist

LEMMA EndSessionType == ASSUME TypeOK, NEW c \in Clients, EndSession(c) PROVE TypeOK'
BY DEF EndSession, DisconnectSession, Finish, TypeOK, Status, Client, NewClient, IdleClient, net,
   mem, queue, hist

LEMMA ClientThrowType == ASSUME TypeOK, NEW c \in Clients, ClientThrow(c) PROVE TypeOK'
BY DEF ClientThrow, Finish, Fault, TypeOK, rows, net, mem, queue

LEMMA FailCreateType ==
  ASSUME SessionAssumption, TypeOK, NEW s \in Sessions, FailCreate(s)
  PROVE  TypeOK'
<1>1. MkType'  BY DEF FailCreate, TypeOK, MkType, Making
<1>2. DType'
  <2>1. faults' \in Handlers
    BY DEF FailCreate, Fault, TypeOK, SessionAssumption, Handlers
  <2>2. dis[s][faults'] \in Handler  BY <2>1 DEF TypeOK, Handler
  <2>3. [dis[s][faults'] EXCEPT !.pc = "find"] \in Handler  BY <2>2 DEF Handler
  <2>4. \/ dis' = dis
        \/ dis' = [dis EXCEPT ![s][faults'] = [dis[s][faults'] EXCEPT !.pc = "find"]]
    BY DEF FailCreate
  <2>5. CASE dis' = dis  BY <2>5 DEF TypeOK, DType, Handler
  <2>6. QED  BY <2>1, <2>3, <2>4, <2>5, HandlerSet
<1>3. ClType'
  <2>1. \A c \in Clients : Awaiting(c, s) => [cl[c] EXCEPT !.pc = "rollback"] \in Client
    BY ClientBusy DEF Awaiting, Client
  <2>2. QED  BY <2>1 DEF FailCreate, Answer, TypeOK, ClType
<1>4. WType'
  <2>1. CASE hw' = hw  BY <2>1 DEF TypeOK, WType, Worker
  <2>2. CASE hw.pc = "creating"
             /\ (hw' = [hw EXCEPT !.pc = "publish"] \/ hw' = [hw EXCEPT !.pc = "mark"])
    BY <2>2, WorkerGoes, WorkerBusy
  <2>3. QED  BY <2>1, <2>2 DEF FailCreate, Answer
<1>5. QED
  BY <1>1, <1>2, <1>3, <1>4
     DEF FailCreate, Fault, TypeOK, MkType, Making, DType, Handler, ClType, WType, rows, net

LEMMA FetchType == ASSUME TypeOK, NEW j \in jobs, Fetch(j) PROVE TypeOK'
BY DEF Fetch, TypeOK, Worker, rows, net, mem, hist

LEMMA DisconnectType == ASSUME TypeOK, NEW c \in Clients, Disconnect(c) PROVE TypeOK'
<1>1. PICK s \in Newest : Ask(c, "disconnect", s, "logout")  BY DEF Disconnect
<1>2. s \in Sessions  BY DEF Newest, Active, Rows
<1>3. QED  BY <1>1, <1>2, AskType DEF Client, RequestKinds

LEMMA RefreshType ==
  ASSUME TypeOK, NEW c \in Clients, NEW s \in Sessions, RefreshQr(c, s) \/ ReconnectSession(c, s)
  PROVE  TypeOK'
<1>1. CASE RefreshQr(c, s)  BY <1>1, AskType DEF RefreshQr, Client, RequestKinds
<1>2. CASE ReconnectSession(c, s)  BY <1>2, AskType DEF ReconnectSession, Client, RequestKinds
<1>3. QED  BY <1>1, <1>2

LEMMA AgeType == ASSUME TypeOK, Age PROVE TypeOK'
<1>1. aged + 1 \in 0 .. MaxSessions  BY DEF Age, Rows, Sessions
<1>2. QED  BY <1>1 DEF Age, TypeOK, rows, net, mem, queue, hist

LEMMA CrashType == ASSUME TypeOK, Crash PROVE TypeOK'
<1>1. jobs' \in SUBSET [s : Sessions, kind : {"reconnect", "check"}, n : Nat]
  BY DEF Crash, TypeOK, Unfinished, Job, Worker, IdleWorker
<1>2. FindAllActive \in SUBSET Sessions  BY DEF FindAllActive, Rows
<1>3. faults' \in Nat  BY DEF Crash, Fault, TypeOK
<1>4. DType'  BY DEF Crash, Quiet, DType, Handler
<1>5. QED  BY <1>1, <1>2, <1>3, <1>4 DEF Crash, DType, Handler, TypeOK, rows

LEMMA TypeInit == ASSUME SessionAssumption, Init PROVE TypeOK
BY DEF SessionAssumption, Init, TypeOK, Sessions, Status, Quiet

LEMMA TypeStep == ASSUME SessionAssumption, TypeOK, [Next]_vars PROVE TypeOK'
<1>1. ASSUME NEW s \in Sessions, SessionStep(s) \/ CheckStaleHeartbeats(s) \/ PhoneLogout(s)
               \/ FailCreate(s) \/ HandlerThrow(s) \/ DisconnectedThrow(s)
      PROVE  TypeOK'
  BY <1>1, LoadAuthType, MakeSocketType, BootType, ClearAuthStateType, SaveCredsType, TimerType,
     HandleConnectedType, HandleLogoutType, FindDisconnectedType, WriteDisconnectedType,
     PublishDisconnectedType, CheckStaleHeartbeatsType, PhoneLogoutType, FailCreateType,
     HandlerThrowType, DisconnectedThrowType
     DEF SessionStep
<1>2. ASSUME NEW k \in Sockets, Scan(k) \/ Open(k) \/ Lose(k) \/ LoggedOut(k) \/ CredsUpdate(k)
      PROVE  TypeOK'
  BY <1>2, ScanType, OpenType, LoseType, LoggedOutType, CredsUpdateType
<1>3. CASE WorkerStep \/ WThrow
  BY <1>3, WLoadType, WReconnectType, WCheckType, WWriteType, WPublishType, WThrowType
     DEF WorkerStep
<1>4. ASSUME NEW c \in Clients, Initiate(c) \/ Disconnect(c) \/ ClientStep(c) \/ ClientThrow(c)
      PROVE  TypeOK'
  BY <1>4, InitiateType, DisconnectType, DestroyForNewType, DestroyForCodeType, InvalidateType,
     CreateType, RollbackType, ResetType, StartType, LogoutType, ForgetType, ClearType,
     EndSessionType, ClientThrowType
     DEF ClientStep
<1>5. CASE UNCHANGED vars
  BY <1>5 DEF vars, rows, net, mem, queue, hist, TypeOK, Worker, Client, NewClient, Status
<1>6. QED
  BY <1>1, <1>2, <1>3, <1>4, <1>5, FetchType, RefreshType, AgeType, CrashType DEF Next

\* Every variable keeps its type.
THEOREM TypeCorrect == Spec => []TypeOK
<1>1. Init => TypeOK  BY TypeInit, SessionAssumption
<1>2. TypeOK /\ [Next]_vars => TypeOK'  BY TypeStep, SessionAssumption
<1>3. QED  BY <1>1, <1>2, PTL DEF Spec

-----------------------------------------------------------------------------
(* One maker, no ghost.  The map of connections only points to live sockets *)
(* of the session that it maps.                                             *)
MapSound ==
  \A s \in Sessions : conn[s] # NoSocket => Live(conn[s]) /\ sock[conn[s]].s = s

OneConnection == OneMaker /\ NoGhost /\ MapSound

LEMMA ConnectionInit == ASSUME SessionAssumption, Init PROVE OneConnection
BY DEF SessionAssumption, Init, OneConnection, OneMaker, NoGhost, MapSound, Live, Free

\* Most steps touch none of it.
LEMMA ConnectionStill ==
  ASSUME OneConnection, UNCHANGED <<sock, conn, mk, torn>>
  PROVE  OneConnection'
BY DEF OneConnection, OneMaker, NoGhost, MapSound, Live

LEMMA ConnectionBegun ==
  ASSUME TypeOK, OneConnection, NEW s \in Sessions, NEW by, Begin(s, by), UNCHANGED <<sock, conn, torn>>
  PROVE  OneConnection'
<1>1. NoGhost' /\ MapSound'  BY DEF OneConnection, NoGhost, MapSound, Live
<1>2. OneMaker'
  <2>1. CASE Busy(s)  BY <2>1 DEF Begin, OneConnection, OneMaker
  <2>2. CASE ~Busy(s)
    <3>1. conn[s] = NoSocket /\ mk[s] = {} /\ mk' = [mk EXCEPT ![s] = {Maker(by)}]
      BY <2>2 DEF Begin, Busy, TypeOK
    <3>2. QED  BY <3>1 DEF OneConnection, OneMaker, TypeOK
  <2>3. QED  BY <2>1, <2>2
<1>3. QED  BY <1>1, <1>2 DEF OneConnection

LEMMA ConnectionClosed ==
  ASSUME SessionAssumption, TypeOK, OneConnection, NEW k \in Sockets, Live(k), Closed(k),
         UNCHANGED <<mk, torn>>
  PROVE  OneConnection' /\ conn'[sock[k].s] = NoSocket
<1>1. PICK s \in Sessions : s = sock[k].s  BY DEF TypeOK, Live, Free
<1>2. conn' = [conn EXCEPT ![s] = NoSocket] /\ sock' = [sock EXCEPT ![k] = Free]  BY <1>1
   DEF Closed
<1>3. conn'[s] = NoSocket /\ \A t \in Sessions : t # s => conn'[t] = conn[t]  BY <1>2 DEF TypeOK
<1>4. sock'[k] = Free /\ \A j \in Sockets : j # k => sock'[j] = sock[j]  BY <1>2 DEF TypeOK
<1>5. OneMaker'  BY <1>3 DEF OneConnection, OneMaker
<1>6. NoGhost'
  <2>1. SUFFICES ASSUME NEW j \in Sockets, Live(j)', ~torn'[sock'[j].s]
                 PROVE  conn'[sock'[j].s] = j
    BY DEF NoGhost
  <2>2. j # k  BY <1>4, <2>1 DEF Live, Free
  <2>3. sock'[j] = sock[j] /\ Live(j) /\ ~torn[sock[j].s]  BY <1>4, <2>1, <2>2 DEF Live
  <2>4. conn[sock[j].s] = j  BY <2>3 DEF OneConnection, NoGhost
  <2>5. sock[j].s # s  BY <1>1, <2>2, <2>3, <2>4 DEF OneConnection, NoGhost
  <2>6. sock[j].s \in Sessions  BY <2>3 DEF TypeOK, Live, Free
  <2>7. QED  BY <1>3, <2>3, <2>4, <2>5, <2>6
<1>7. MapSound'
  <2>1. SUFFICES ASSUME NEW t \in Sessions, conn'[t] # NoSocket
                 PROVE  (Live(conn[t]) /\ sock[conn[t]].s = t)'
    BY DEF MapSound
  <2>2. t # s /\ conn'[t] = conn[t]  BY <1>3, <2>1
  <2>3. conn[t] \in Sockets /\ Live(conn[t]) /\ sock[conn[t]].s = t
    BY <2>1, <2>2 DEF OneConnection, MapSound, TypeOK
  <2>4. conn[t] # k  BY <1>1, <2>2, <2>3
  <2>5. QED  BY <1>4, <2>2, <2>3, <2>4 DEF Live
<1>8. QED  BY <1>1, <1>3, <1>5, <1>6, <1>7 DEF OneConnection

LEMMA ConnectionEnded ==
  ASSUME SessionAssumption, TypeOK, OneConnection, NEW s \in Sessions, End(s), UNCHANGED <<mk, torn>>
  PROVE  OneConnection' /\ conn'[s] = NoSocket
<1>1. CASE conn[s] = NoSocket
  BY <1>1, ConnectionStill DEF End
<1>2. CASE conn[s] # NoSocket
  <2>1. conn[s] \in Sockets /\ Live(conn[s]) /\ sock[conn[s]].s = s
    BY <1>2 DEF TypeOK, OneConnection, MapSound
  <2>2. Closed(conn[s])  BY <1>2 DEF End
  <2>3. QED  BY <2>1, <2>2, ConnectionClosed
<1>3. QED  BY <1>1, <1>2

LEMMA ConnectionMade ==
  ASSUME SessionAssumption, TypeOK, OneConnection, NEW s \in Sessions, MakeSocket(s)
  PROVE  OneConnection'
<1>1. PICK x \in mk[s], k \in Sockets :
        /\ ~Live(k)
        /\ mk' = [mk EXCEPT ![s] = @ \ {x}]
        /\ sock' = [sock EXCEPT ![k] = [state |-> "new", s |-> s, creds |-> x.creds]]
        /\ conn' = [conn EXCEPT ![s] = k]
  BY DEF MakeSocket
<1>2. torn' = torn  BY DEF MakeSocket, hist
<1>3. conn[s] = NoSocket /\ mk[s] = {x}  BY <1>1 DEF OneConnection, OneMaker
<1>4. mk'[s] = {} /\ \A t \in Sessions : t # s => mk'[t] = mk[t]  BY <1>1, <1>3 DEF TypeOK
<1>5. conn'[s] = k /\ \A t \in Sessions : t # s => conn'[t] = conn[t]  BY <1>1 DEF TypeOK
<1>6. /\ sock'[k].s = s /\ sock'[k].state = "new"
      /\ \A j \in Sockets : j # k => sock'[j] = sock[j]
  BY <1>1 DEF TypeOK
<1>7. OneMaker'  BY <1>4, <1>5 DEF OneConnection, OneMaker
<1>8. NoGhost'
  <2>1. SUFFICES ASSUME NEW j \in Sockets, Live(j)', ~torn'[sock'[j].s], j # k
                 PROVE  conn'[sock'[j].s] = j
    BY <1>5, <1>6 DEF NoGhost
  <2>2. sock'[j] = sock[j] /\ Live(j) /\ ~torn[sock[j].s]  BY <1>2, <1>6, <2>1 DEF Live
  <2>3. conn[sock[j].s] = j /\ sock[j].s \in Sessions
    BY <2>2 DEF OneConnection, NoGhost, TypeOK, Live, Free
  <2>4. sock[j].s # s  BY <1>3, <2>3 DEF SessionAssumption
  <2>5. QED  BY <1>5, <2>2, <2>3, <2>4
<1>9. MapSound'
  <2>1. SUFFICES ASSUME NEW t \in Sessions, t # s, conn'[t] # NoSocket
                 PROVE  (Live(conn[t]) /\ sock[conn[t]].s = t)'
    BY <1>5, <1>6 DEF MapSound, Live
  <2>2. conn[t] \in Sockets /\ Live(conn[t]) /\ sock[conn[t]].s = t /\ conn'[t] = conn[t]
    BY <1>5, <2>1 DEF OneConnection, MapSound, TypeOK
  <2>3. QED  BY <1>1, <1>6, <2>2 DEF Live
<1>10. QED  BY <1>7, <1>8, <1>9 DEF OneConnection

LEMMA ConnectionOpen ==
  ASSUME TypeOK, OneConnection, NEW k \in Sockets, Open(k) PROVE OneConnection'
<1>1. sock' = [sock EXCEPT ![k].state = "open"] /\ UNCHANGED <<conn, mk, torn>> /\ Live(k)
  BY DEF Open, Live, hist
<1>2. \A j \in Sockets : sock'[j].s = sock[j].s /\ (Live(j)' <=> Live(j))
  <2>1. sock[k] \in [state : {"new", "open"}, s : Sessions, creds : BOOLEAN]
    BY <1>1 DEF TypeOK, Live, Free
  <2>2. sock'[k] = [sock[k] EXCEPT !.state = "open"]  BY <1>1 DEF TypeOK
  <2>3. sock'[k].s = sock[k].s /\ sock'[k].state = "open"  BY <2>1, <2>2
  <2>4. QED  BY <1>1, <2>3 DEF TypeOK, Live
<1>3. QED  BY <1>1, <1>2 DEF OneConnection, OneMaker, NoGhost, MapSound, TypeOK

\* The step in which one call of createConnection loads or fails.
LEMMA ConnectionMakers ==
  ASSUME TypeOK, OneConnection, NEW s \in Sessions, LoadAuth(s) \/ FailCreate(s)
  PROVE  OneConnection'
<1>1. UNCHANGED <<sock, conn, torn>>  BY DEF LoadAuth, FailCreate, net, hist
<1>2. NoGhost' /\ MapSound'  BY <1>1 DEF OneConnection, NoGhost, MapSound, Live
<1>3. PICK x \in mk[s] :
        \/ mk' = [mk EXCEPT ![s] = @ \ {x}]
        \/ mk' = [mk EXCEPT ![s] = (@ \ {x}) \cup {[x EXCEPT !.pc = "version", !.creds = creds[s]]}]
  BY DEF LoadAuth, FailCreate
<1>4. mk[s] = {x} /\ conn[s] = NoSocket  BY <1>3 DEF OneConnection, OneMaker
<1>5. \E y : mk'[s] \subseteq {y}
  <2>1. CASE mk' = [mk EXCEPT ![s] = @ \ {x}]  BY <2>1, <1>4 DEF TypeOK
  <2>2. ASSUME NEW y, mk' = [mk EXCEPT ![s] = (@ \ {x}) \cup {y}] PROVE mk'[s] \subseteq {y}
    BY <1>4, <2>2 DEF TypeOK
  <2>3. QED  BY <1>3, <2>1, <2>2
<1>6. \A t \in Sessions : t # s => mk'[t] = mk[t]  BY <1>3 DEF TypeOK
<1>7. OneMaker'  BY <1>1, <1>4, <1>5, <1>6 DEF OneConnection, OneMaker
<1>8. QED  BY <1>2, <1>7 DEF OneConnection

LEMMA ConnectionCode ==
  ASSUME SessionAssumption, TypeOK, OneConnection, NEW c \in Clients, DestroyForCode(c)
  PROVE  OneConnection'
<1>1. PICK s \in Sessions : s = cl[c].s  BY ClientBusy DEF DestroyForCode
<1>2. End(s) /\ torn' = torn  BY <1>1 DEF DestroyForCode, hist
<1>3. CASE mk' = mk  BY <1>2, <1>3, ConnectionEnded
<1>4. CASE mk[s] = {} /\ mk' = [mk EXCEPT ![s] = {Maker("refresh")}]
  <2>1. CASE conn[s] = NoSocket
    <3>1. UNCHANGED <<sock, conn>>  BY <1>2, <2>1 DEF End
    <3>2. NoGhost' /\ MapSound'  BY <1>2, <3>1 DEF OneConnection, NoGhost, MapSound, Live
    <3>3. OneMaker'  BY <1>4, <2>1, <3>1 DEF OneConnection, OneMaker, TypeOK
    <3>4. QED  BY <3>2, <3>3 DEF OneConnection
  <2>2. CASE conn[s] # NoSocket
    <3>1. PICK k \in Sockets : k = conn[s] /\ Live(k) /\ sock[k].s = s /\ Closed(k)
      BY <1>2, <2>2 DEF TypeOK, OneConnection, MapSound, End
    <3>2. conn' = [conn EXCEPT ![s] = NoSocket] /\ sock' = [sock EXCEPT ![k] = Free]
      BY <3>1 DEF Closed
    <3>3. conn'[s] = NoSocket /\ \A t \in Sessions : t # s => conn'[t] = conn[t]  BY <3>2
       DEF TypeOK
    <3>4. OneMaker'  BY <1>4, <3>3 DEF OneConnection, OneMaker, TypeOK
    <3>5. NoGhost'
      <4>1. SUFFICES ASSUME NEW j \in Sockets, Live(j)', ~torn'[sock'[j].s]
                     PROVE  conn'[sock'[j].s] = j
        BY DEF NoGhost
      <4>2. j # k /\ sock'[j] = sock[j]  BY <3>2, <4>1 DEF Live, Free, TypeOK
      <4>3. conn[sock[j].s] = j /\ sock[j].s \in Sessions
        BY <1>2, <4>1, <4>2 DEF OneConnection, NoGhost, Live, Free, TypeOK
      <4>4. QED  BY <3>1, <3>3, <4>2, <4>3
    <3>6. MapSound'
      <4>1. SUFFICES ASSUME NEW t \in Sessions, t # s, conn'[t] # NoSocket
                     PROVE  (Live(conn[t]) /\ sock[conn[t]].s = t)'
        BY <3>3 DEF MapSound
      <4>2. conn'[t] = conn[t] /\ conn[t] \in Sockets /\ Live(conn[t]) /\ sock[conn[t]].s = t
        BY <3>3, <4>1 DEF OneConnection, MapSound, TypeOK
      <4>3. QED  BY <3>1, <3>2, <4>1, <4>2 DEF Live, TypeOK
    <3>7. QED  BY <3>4, <3>5, <3>6 DEF OneConnection
  <2>3. QED  BY <2>1, <2>2
<1>5. QED  BY <1>1, <1>3, <1>4 DEF DestroyForCode

LEMMA ConnectionForget ==
  ASSUME SessionAssumption, TypeOK, OneConnection, NEW c \in Clients, Forget(c)
  PROVE  OneConnection'
<1>1. PICK s \in Sessions : s = cl[c].s  BY ClientBusy DEF Forget
<1>2. /\ conn' = [conn EXCEPT ![s] = NoSocket] /\ UNCHANGED <<sock, mk>>
      /\ torn' = [torn EXCEPT ![s] = @ \/ conn[s] # NoSocket]
  BY <1>1 DEF Forget, mem
<1>3. conn'[s] = NoSocket /\ \A t \in Sessions : t # s => conn'[t] = conn[t]  BY <1>2 DEF TypeOK
<1>4. /\ torn'[s] <=> (torn[s] \/ conn[s] # NoSocket)
      /\ \A t \in Sessions : t # s => torn'[t] = torn[t]
  BY <1>2 DEF TypeOK
<1>5. OneMaker'  BY <1>2, <1>3 DEF OneConnection, OneMaker
<1>6. MapSound'  BY <1>2, <1>3 DEF OneConnection, MapSound, Live
<1>7. NoGhost'
  <2>1. SUFFICES ASSUME NEW j \in Sockets, Live(j)', ~torn'[sock'[j].s]
                 PROVE  conn'[sock'[j].s] = j
    BY DEF NoGhost
  <2>2. Live(j) /\ sock'[j] = sock[j] /\ sock[j].s \in Sessions
    BY <1>2, <2>1 DEF Live, TypeOK, Free
  <2>3. CASE sock[j].s = s
    <3>1. ~torn[s] /\ conn[s] = NoSocket  BY <1>4, <2>1, <2>2, <2>3
    <3>2. conn[s] = j  BY <2>2, <2>3, <3>1 DEF OneConnection, NoGhost
    <3>3. QED  BY <3>1, <3>2 DEF SessionAssumption
  <2>4. CASE sock[j].s # s
    BY <1>3, <1>4, <2>1, <2>2, <2>4 DEF OneConnection, NoGhost
  <2>5. QED  BY <2>3, <2>4
<1>8. QED  BY <1>5, <1>6, <1>7 DEF OneConnection

LEMMA ConnectionStep ==
  ASSUME SessionAssumption, TypeOK, OneConnection, [Next]_vars
  PROVE  OneConnection'
<1>1. ASSUME NEW s \in Sessions, SessionStep(s) PROVE OneConnection'
  <2>1. CASE LoadAuth(s)  BY <2>1, ConnectionMakers
  <2>2. CASE MakeSocket(s)  BY <2>2, ConnectionMade
  <2>3. CASE Boot(s)  BY <2>3, ConnectionBegun DEF Boot, net, hist
  <2>4. CASE Timer(s)  BY <2>4, ConnectionBegun DEF Timer, net, hist
  <2>5. CASE ClearAuthState(s) \/ SaveCreds(s) \/ HandleConnected(s) \/ HandleLogout(s)
             \/ FindDisconnected(s) \/ WriteDisconnected(s) \/ PublishDisconnected(s)
    <3>1. UNCHANGED <<sock, conn, mk, torn>>
      BY <2>5 DEF ClearAuthState, SaveCreds, HandleConnected, HandleLogout, FindDisconnected,
                  WriteDisconnected, PublishDisconnected, net, hist
    <3>2. QED  BY <3>1, ConnectionStill
  <2>6. QED  BY <1>1, <2>1, <2>2, <2>3, <2>4, <2>5 DEF SessionStep
<1>2. ASSUME NEW s \in Sessions,
             CheckStaleHeartbeats(s) \/ PhoneLogout(s) \/ HandlerThrow(s) \/ DisconnectedThrow(s)
      PROVE  OneConnection'
  BY <1>2, ConnectionStill DEF CheckStaleHeartbeats, PhoneLogout, HandlerThrow, DisconnectedThrow,
                               net, mem, hist
<1>3. ASSUME NEW s \in Sessions, FailCreate(s) PROVE OneConnection'  BY <1>3, ConnectionMakers
<1>4. ASSUME NEW k \in Sockets, Scan(k) \/ Lose(k) \/ LoggedOut(k) PROVE OneConnection'
  <2>1. Live(k) /\ Closed(k) /\ UNCHANGED <<mk, torn>>
    BY <1>4 DEF Scan, Lose, LoggedOut, Live, hist
  <2>2. QED  BY <2>1, ConnectionClosed
<1>5. ASSUME NEW k \in Sockets, Open(k) PROVE OneConnection'  BY <1>5, ConnectionOpen
<1>6. ASSUME NEW k \in Sockets, CredsUpdate(k) PROVE OneConnection'
  BY <1>6, ConnectionStill DEF CredsUpdate, net, hist
<1>7. CASE WReconnect
  <2>1. hw.s \in Sessions /\ UNCHANGED <<sock, conn, torn>>
    BY <1>7, WorkerBusy DEF WReconnect, net, hist
  <2>2. CASE mk' = mk  BY <2>1, <2>2, ConnectionStill
  <2>3. CASE Begin(hw.s, "job")  BY <2>1, <2>3, ConnectionBegun
  <2>4. QED  BY <1>7, <2>2, <2>3 DEF WReconnect
<1>8. CASE WLoad \/ WCheck \/ WWrite \/ WPublish \/ WThrow \/ Age \/ \E j \in jobs : Fetch(j)
  BY <1>8, ConnectionStill DEF WLoad, WCheck, WWrite, WPublish, WThrow, Age, Fetch, net, mem, hist
<1>9. ASSUME NEW c \in Clients, Initiate(c) \/ Disconnect(c) \/ ClientThrow(c)
      PROVE  OneConnection'
  BY <1>9, ConnectionStill DEF Initiate, Disconnect, ClientThrow, Ask, net, mem
<1>10. ASSUME NEW c \in Clients, NEW s \in Sessions, RefreshQr(c, s) \/ ReconnectSession(c, s)
       PROVE  OneConnection'
  BY <1>10, ConnectionStill DEF RefreshQr, ReconnectSession, Ask, net, mem
<1>11. ASSUME NEW c \in Clients, ClientStep(c) PROVE OneConnection'
  <2>1. CASE DestroyForNew(c)
    <3>1. cl[c].s \in Sessions  BY <2>1, ClientBusy DEF DestroyForNew
    <3>2. QED  BY <2>1, <3>1, ConnectionEnded DEF DestroyForNew, hist
  <2>2. CASE DestroyForCode(c)  BY <2>2, ConnectionCode
  <2>3. CASE Start(c)
    <3>1. cl[c].s \in Sessions  BY <2>3, ClientBusy DEF Start
    <3>2. QED  BY <2>3, <3>1, ConnectionBegun DEF Start, net, hist
  <2>4. CASE Logout(c)
    <3>1. cl[c].s \in Sessions  BY <2>4, ClientBusy DEF Logout
    <3>2. CASE UNCHANGED <<sock, conn>>
      BY <2>4, <3>2, ConnectionStill DEF Logout, hist
    <3>3. CASE conn[cl[c].s] # NoSocket /\ Closed(conn[cl[c].s])
      <4>1. conn[cl[c].s] \in Sockets /\ Live(conn[cl[c].s])
        BY <3>1, <3>3 DEF TypeOK, OneConnection, MapSound
      <4>2. QED  BY <2>4, <3>3, <4>1, ConnectionClosed DEF Logout, hist
    <3>4. QED  BY <2>4, <3>2, <3>3 DEF Logout
  <2>5. CASE Forget(c)  BY <2>5, ConnectionForget
  <2>6. CASE Invalidate(c) \/ Create(c) \/ Rollback(c) \/ Reset(c) \/ Clear(c) \/ EndSession(c)
    BY <2>6, ConnectionStill
       DEF Invalidate, Create, Rollback, Reset, Clear, EndSession, net, mem, hist
  <2>7. QED  BY <1>11, <2>1, <2>2, <2>3, <2>4, <2>5, <2>6 DEF ClientStep
<1>12. CASE Crash
  BY <1>12 DEF Crash, OneConnection, OneMaker, NoGhost, MapSound, Live, Free
<1>13. CASE UNCHANGED vars
  BY <1>13, ConnectionStill DEF vars, net, mem, hist
<1>14. QED
  BY <1>1, <1>2, <1>3, <1>4, <1>5, <1>6, <1>7, <1>8, <1>9, <1>10, <1>11, <1>12, <1>13
     DEF Next, WorkerStep

LEMMA ConnectionCorrect == Spec => [](TypeOK /\ OneConnection)
<1>1. Init => TypeOK /\ OneConnection  BY TypeInit, ConnectionInit, SessionAssumption
<1>2. TypeOK /\ OneConnection /\ [Next]_vars => (TypeOK /\ OneConnection)'
  BY TypeStep, ConnectionStep, SessionAssumption
<1>3. QED  BY <1>1, <1>2, PTL DEF Spec

\* Whatever asks for connections, one is made at a time, and only if there is none.
THEOREM MadeByOne == Spec => []OneMaker
<1>1. TypeOK /\ OneConnection => OneMaker  BY DEF OneConnection
<1>2. QED  BY <1>1, ConnectionCorrect, PTL

\* A live socket is the one the map knows, unless a disconnect dropped it.
THEOREM NoGhostSockets == Spec => []NoGhost
<1>1. TypeOK /\ OneConnection => NoGhost  BY DEF OneConnection
<1>2. QED  BY <1>1, ConnectionCorrect, PTL

-----------------------------------------------------------------------------
(* The row: what the processes write to a session's credentials and to its  *)
(* reconnect counter.                                                       *)

(* Credentials are lost on request only.  Whatever clears them was asked    *)
(* for, and whoever has them without a linked device is a session that the  *)
(* user or the phone has ended.                                             *)
Asked ==
  /\ \A s \in Sessions : closing[s] \/ "logout" \in pend[s] => ended[s]
  /\ \A c \in Clients :
       \/ cl[c].pc \in {"invalidate", "logout", "forget", "clear", "end"}
       \/ cl[c].pc = "destroy" /\ cl[c].kind = "initiate"
       => ended[cl[c].s]
Gone(s) == ~linked[s] /\ ~ended[s]
Unlinked ==
  /\ \A s \in Sessions : Gone(s) => ~creds[s] /\ ~saving[s] /\ \A x \in mk[s] : ~x.creds
  /\ \A k \in Sockets : Live(k) /\ Gone(sock[k].s) => ~sock[k].creds
  /\ \A k \in Sockets : sock[k].state = "open" => sock[k].creds

LEMMA KnownInit == ASSUME SessionAssumption, Init PROVE Asked /\ Unlinked
BY DEF SessionAssumption, Init, Asked, Unlinked, Gone, Live, Free, IdleClient

LEMMA AskedStill ==
  ASSUME TypeOK, Asked, UNCHANGED <<closing, pend, cl>>, \A s \in Sessions : ended[s] => ended'[s]
  PROVE  Asked'
BY ClientBusy DEF Asked

LEMMA UnlinkedStill ==
  ASSUME Unlinked, UNCHANGED <<linked, creds, saving, mk, sock, ended>>
  PROVE  Unlinked'
BY DEF Unlinked, Gone, Live

\* A request that begins: initiate and disconnect ask for the end of a session.
LEMMA AskedAsk ==
  ASSUME TypeOK, Asked, NEW c \in Clients, NEW kind \in RequestKinds, NEW s \in Sessions, NEW l,
         Ask(c, kind, s, l),
         \/ kind \in {"initiate", "disconnect"}
         \/ kind = "refresh" /\ l = "destroy"
         \/ kind = "reconnect" /\ l = "reset"
  PROVE  Asked'
<1>1. /\ UNCHANGED <<closing, pend>> /\ \A t \in Sessions : ended[t] => ended'[t]
      /\ kind \in {"initiate", "disconnect"} => ended'[s]
  BY DEF Ask, mem, TypeOK
<1>2. cl' = [cl EXCEPT ![c] = [pc |-> l, kind |-> kind, s |-> s]]  BY DEF Ask
<1>3. \A d \in Clients : d # c => cl'[d] = cl[d]  BY <1>2 DEF TypeOK
<1>4. cl'[c].pc = l /\ cl'[c].kind = kind /\ cl'[c].s = s  BY <1>2 DEF TypeOK
<1>5. \A d \in Clients : cl[d].pc # "idle" /\ cl[d].pc # "create" => cl[d].s \in Sessions
  BY ClientBusy
<1>6. QED  BY <1>1, <1>3, <1>4, <1>5 DEF Asked

LEMMA UnlinkedAsk ==
  ASSUME TypeOK, Unlinked, NEW c, NEW kind, NEW s, NEW l, Ask(c, kind, s, l)
  PROVE  Unlinked'
<1>1. UNCHANGED <<linked, creds, saving, mk, sock>>  BY DEF Ask, rows, net, mem
<1>2. \A t \in Sessions : ended[t] => ended'[t]  BY DEF Ask, TypeOK
<1>3. \A t \in Sessions : Gone(t)' => Gone(t)  BY <1>1, <1>2 DEF Gone
<1>4. \A k \in Sockets : Live(k) => sock[k].s \in Sessions  BY DEF TypeOK, Live, Free
<1>5. QED  BY <1>1, <1>3, <1>4 DEF Unlinked, Live

\* The end of a socket, and the step of one client.
LEMMA UnlinkedClosed ==
  ASSUME TypeOK, Unlinked, UNCHANGED <<linked, creds, saving, ended>>,
         NEW k \in Sockets, Closed(k),
         \A s \in Sessions : \A x \in mk'[s] : x.creds => \E y \in mk[s] : y.creds
  PROVE  Unlinked'
BY DEF TypeOK, Unlinked, Closed, Gone, Live, Free

LEMMA AskedGoes ==
  ASSUME TypeOK, Asked, NEW c \in Clients, UNCHANGED <<closing, pend, ended>>,
         NEW l \in {"invalidate", "creating", "create", "start", "forget", "clear", "end"},
         cl[c].pc # "idle" /\ cl[c].pc # "create",
         \/ Finish(c)
         \/ Goto(c, l) /\ (l \in {"creating", "create", "start"} \/ ended[cl[c].s])
  PROVE  Asked'
<1>1. cl[c] \in Client  BY ClientBusy
<1>2. \A d \in Clients : d # c => cl'[d] = cl[d]  BY DEF Finish, Goto, TypeOK
<1>3. CASE Finish(c)
  <2>1. cl'[c].pc = "idle"  BY <1>3 DEF Finish, TypeOK, IdleClient
  <2>2. QED  BY <1>2, <2>1 DEF Asked
<1>4. CASE Goto(c, l) /\ (l \in {"creating", "create", "start"} \/ ended[cl[c].s])
  <2>1. cl'[c] = [cl[c] EXCEPT !.pc = l]  BY <1>4 DEF Goto, TypeOK
  <2>2. cl'[c].pc = l /\ cl'[c].s = cl[c].s  BY <1>1, <2>1 DEF Client
  <2>3. QED  BY <1>2, <1>4, <2>2 DEF Asked
<1>5. QED  BY <1>3, <1>4

LEMMA AskedSession ==
  ASSUME TypeOK, Asked, Unlinked, NEW s \in Sessions,
         SessionStep(s) \/ CheckStaleHeartbeats(s) \/ PhoneLogout(s) \/ FailCreate(s)
         \/ HandlerThrow(s) \/ DisconnectedThrow(s)
  PROVE  Asked'
<1>1. CASE LoadAuth(s) \/ Boot(s) \/ SaveCreds(s) \/ Timer(s) \/ FindDisconnected(s)
           \/ WriteDisconnected(s) \/ PublishDisconnected(s) \/ CheckStaleHeartbeats(s)
           \/ DisconnectedThrow(s)
  <2>1. UNCHANGED <<closing, pend, cl, ended>>
    BY <1>1 DEF LoadAuth, Boot, SaveCreds, Timer, FindDisconnected, WriteDisconnected,
                PublishDisconnected, CheckStaleHeartbeats, DisconnectedThrow, mem, hist
  <2>2. QED  BY <2>1, AskedStill
<1>2. CASE PhoneLogout(s)
  <2>1. UNCHANGED <<closing, pend, cl>> /\ \A t \in Sessions : ended[t] => ended'[t]
    BY <1>2 DEF PhoneLogout, mem, TypeOK
  <2>2. QED  BY <2>1, AskedStill
<1>3. CASE ClearAuthState(s)
  BY <1>3, ClientBusy DEF ClearAuthState, Asked, TypeOK, hist
<1>4. CASE HandleConnected(s) \/ HandleLogout(s) \/ HandlerThrow(s)
  <2>1. PICK e : pend' = [pend EXCEPT ![s] = @ \ {e}]
    BY <1>4 DEF HandleConnected, HandleLogout, HandlerThrow
  <2>2. \A t \in Sessions : pend'[t] \subseteq pend[t]  BY <2>1 DEF TypeOK
  <2>3. UNCHANGED <<closing, cl, ended>>
    BY <1>4 DEF HandleConnected, HandleLogout, HandlerThrow, hist
  <2>4. QED  BY <2>2, <2>3 DEF Asked
<1>5. CASE MakeSocket(s) \/ FailCreate(s)
  <2>1. Answer(s, TRUE) \/ Answer(s, FALSE)  BY <1>5 DEF MakeSocket, FailCreate
  <2>2. \A c \in Clients : cl'[c] = cl[c] \/ cl'[c].pc \in {"idle", "rollback"}
    <3>1. SUFFICES ASSUME NEW c \in Clients, Awaiting(c, s)
                   PROVE  cl'[c].pc \in {"idle", "rollback"}
      BY <2>1 DEF Answer
    <3>2. cl'[c] = IdleClient \/ cl'[c] = [cl[c] EXCEPT !.pc = "rollback"]
      BY <2>1, <3>1 DEF Answer
    <3>3. cl[c] \in Client  BY <3>1, ClientBusy DEF Awaiting
    <3>4. QED  BY <3>2, <3>3 DEF Client, IdleClient
  <2>3. UNCHANGED <<closing, pend, ended>>  BY <1>5 DEF MakeSocket, FailCreate, hist
  <2>4. QED  BY <2>2, <2>3 DEF Asked
<1>6. QED  BY <1>1, <1>2, <1>3, <1>4, <1>5 DEF SessionStep

LEMMA AskedSocket ==
  ASSUME TypeOK, Asked, Unlinked, NEW k \in Sockets,
         Scan(k) \/ Open(k) \/ Lose(k) \/ LoggedOut(k) \/ CredsUpdate(k)
  PROVE  Asked'
<1>1. CASE Scan(k) \/ Lose(k) \/ CredsUpdate(k)
  <2>1. UNCHANGED <<closing, pend, cl, ended>>  BY <1>1 DEF Scan, Lose, CredsUpdate, hist
  <2>2. QED  BY <2>1, AskedStill
<1>2. CASE Open(k)  BY <1>2, ClientBusy DEF Open, Asked, TypeOK, hist
<1>3. CASE LoggedOut(k)
  <2>1. sock[k].s \in Sessions /\ ended[sock[k].s]
    BY <1>3 DEF LoggedOut, Live, Free, TypeOK, Unlinked, Gone
  <2>2. QED  BY <1>3, <2>1, ClientBusy DEF LoggedOut, Asked, TypeOK, hist
<1>4. QED  BY <1>1, <1>2, <1>3

LEMMA AskedClient ==
  ASSUME TypeOK, Asked, NEW c \in Clients,
         Initiate(c) \/ Disconnect(c) \/ ClientStep(c) \/ ClientThrow(c)
         \/ \E s \in Sessions : RefreshQr(c, s) \/ ReconnectSession(c, s)
  PROVE  Asked'
<1>1. CASE Initiate(c)
  <2>1. CASE Ask(c, "initiate", 0, "create")
    <3>1. UNCHANGED <<closing, pend>> /\ \A t \in Sessions : ended[t] => ended'[t]
      BY <2>1 DEF Ask, mem, TypeOK
    <3>2. cl' = [cl EXCEPT ![c] = [pc |-> "create", kind |-> "initiate", s |-> 0]]
      BY <2>1 DEF Ask
    <3>3. \A d \in Clients : cl'[d] = cl[d] \/ cl'[d].pc = "create"  BY <3>2 DEF TypeOK
    <3>4. QED  BY <3>1, <3>3, ClientBusy DEF Asked
  <2>2. ASSUME NEW s \in Newest, Ask(c, "initiate", s, "destroy") PROVE Asked'
    BY <2>2, AskedAsk DEF Newest, Active, Rows, RequestKinds
  <2>3. QED  BY <1>1, <2>1, <2>2 DEF Initiate
<1>2. CASE Disconnect(c)
  BY <1>2, AskedAsk DEF Disconnect, Newest, Active, Rows, RequestKinds
<1>3. ASSUME NEW s \in Sessions, RefreshQr(c, s) \/ ReconnectSession(c, s) PROVE Asked'
  BY <1>3, AskedAsk DEF RefreshQr, ReconnectSession, RequestKinds
<1>4. CASE DestroyForNew(c) \/ DestroyForCode(c) \/ Invalidate(c) \/ Reset(c) \/ Start(c)
           \/ Forget(c) \/ Clear(c) \/ EndSession(c)
  <2>1. cl[c].pc # "idle" /\ cl[c].pc # "create" /\ UNCHANGED <<closing, pend, ended>>
    BY <1>4
       DEF DestroyForNew, DestroyForCode, Invalidate, Reset, Start, Forget, Clear, EndSession,
                mem, hist
  <2>2. \/ Finish(c) \/ Goto(c, "creating") \/ Goto(c, "create") \/ Goto(c, "start")
        \/ (Goto(c, "invalidate") \/ Goto(c, "clear") \/ Goto(c, "end")) /\ ended[cl[c].s]
    BY <1>4
       DEF DestroyForNew, DestroyForCode, Invalidate, Reset, Start, Forget, Clear, EndSession,
                Asked
  <2>3. QED  BY <2>1, <2>2, AskedGoes
<1>5. CASE Logout(c)
  <2>1. cl[c].pc # "idle" /\ cl[c].pc # "create" /\ cl[c].s \in Sessions /\ ended[cl[c].s]
    BY <1>5, ClientBusy DEF Logout, Asked
  <2>2. cl' = [cl EXCEPT ![c].pc = "end"] \/ cl' = [cl EXCEPT ![c].pc = "forget"]
    BY <1>5 DEF Logout, Goto
  <2>3. cl[c] \in Client  BY <2>1, ClientBusy
  <2>4. \A d \in Clients : cl'[d].s = cl[d].s /\ (cl'[d] = cl[d] \/ d = c)
    BY <2>2, <2>3 DEF Client, TypeOK
  <2>5. UNCHANGED <<pend, ended>> /\ \A s \in Sessions : closing'[s] => closing[s] \/ s = cl[c].s
    BY <1>5 DEF Logout, TypeOK, hist
  <2>6. QED  BY <2>1, <2>4, <2>5 DEF Asked
<1>6. CASE Create(c)
  <2>1. \A d \in Clients : cl'[d] = cl[d] \/ cl'[d].pc = "start"
    <3>1. cl[c] \in NewClient \cup Client  BY <1>6 DEF TypeOK, Create, IdleClient
    <3>2. PICK s \in Sessions : cl' = [cl EXCEPT ![c] = [@ EXCEPT !.pc = "start", !.s = s]]
      BY <1>6 DEF Create
    <3>3. QED  BY <3>1, <3>2 DEF TypeOK, NewClient, Client
  <2>2. UNCHANGED <<closing, pend, ended>>  BY <1>6 DEF Create, mem, hist
  <2>3. QED  BY <2>1, <2>2 DEF Asked
<1>7. CASE Rollback(c) \/ ClientThrow(c)
  <2>1. UNCHANGED <<closing, pend>> /\ \A s \in Sessions : ended[s] => ended'[s]
    BY <1>7 DEF Rollback, ClientThrow, mem, hist, TypeOK
  <2>2. \A d \in Clients : cl'[d] = cl[d] \/ cl'[d].pc = "idle"
    BY <1>7 DEF Rollback, ClientThrow, Finish, IdleClient, TypeOK
  <2>3. QED  BY <2>1, <2>2, ClientBusy DEF Asked
<1>8. QED  BY <1>1, <1>2, <1>3, <1>4, <1>5, <1>6, <1>7 DEF ClientStep

LEMMA AskedStep ==
  ASSUME TypeOK, Asked, Unlinked, [Next]_vars
  PROVE  Asked'
<1>1. CASE WorkerStep \/ WThrow \/ Age \/ (\E j \in jobs : Fetch(j)) \/ UNCHANGED vars
  <2>1. UNCHANGED <<closing, pend, cl, ended>>
    BY <1>1 DEF WorkerStep, WLoad, WReconnect, WCheck, WWrite, WPublish, WThrow, Age, Fetch, vars,
                mem, hist
  <2>2. QED  BY <2>1, AskedStill
<1>2. CASE Crash  BY <1>2 DEF Crash, Asked, IdleClient
<1>3. QED  BY <1>1, <1>2, AskedSession, AskedSocket, AskedClient DEF Next

\* A connection that is begun has no credentials yet.
LEMMA FreshMaker ==
  ASSUME TypeOK, NEW s \in Sessions, NEW by,
         Begin(s, by) \/ mk' = [mk EXCEPT ![s] = {Maker(by)}]
  PROVE  \A t \in Sessions : \A x \in mk'[t] : x \in mk[t] \/ ~x.creds
<1>1. ~Maker(by).creds  BY DEF Maker
<1>2. CASE mk' = mk  BY <1>2
<1>3. ASSUME NEW x, mk' = [mk EXCEPT ![s] = @ \cup {x}] \/ mk' = [mk EXCEPT ![s] = {x}], ~x.creds
      PROVE  \A t \in Sessions : \A y \in mk'[t] : y \in mk[t] \/ ~y.creds
  <2>1. MkType  BY DEF TypeOK, MkType, Making
  <2>2. QED  BY <1>3, <2>1 DEF MkType
<1>4. QED  BY <1>1, <1>2, <1>3 DEF Begin

LEMMA UnlinkedSession ==
  ASSUME TypeOK, Asked, Unlinked, NEW s \in Sessions,
         SessionStep(s) \/ CheckStaleHeartbeats(s) \/ PhoneLogout(s) \/ FailCreate(s)
         \/ HandlerThrow(s) \/ DisconnectedThrow(s)
  PROVE  Unlinked'
<1> USE DEF Gone
<1>1. CASE HandleConnected(s) \/ FindDisconnected(s) \/ WriteDisconnected(s)
           \/ PublishDisconnected(s) \/ CheckStaleHeartbeats(s) \/ HandlerThrow(s)
           \/ DisconnectedThrow(s)
  <2>1. UNCHANGED <<linked, creds, saving, mk, sock, ended>>
    BY <1>1 DEF HandleConnected, SetConnected, FindDisconnected, WriteDisconnected,
                IncrementReconnectCount, MarkAsDisconnected, PublishDisconnected,
                CheckStaleHeartbeats, HandlerThrow, DisconnectedThrow, rows, net, mem, hist
  <2>2. QED  BY <2>1, UnlinkedStill
<1>2. CASE LoadAuth(s)
  <2>1. PICK x \in mk[s] :
          mk' = [mk EXCEPT ![s] = (@ \ {x}) \cup {[x EXCEPT !.pc = "version", !.creds = creds[s]]}]
    BY <1>2 DEF LoadAuth
  <2>2. x \in Making  BY <2>1 DEF TypeOK, Making
  <2>3. [x EXCEPT !.pc = "version", !.creds = creds[s]].creds = creds[s]  BY <2>2 DEF Making
  <2>4. UNCHANGED <<linked, creds, saving, sock, ended>>  BY <1>2 DEF LoadAuth, rows, net, hist
  <2>5. \A t \in Sessions : \A y \in mk'[t] : y \in mk[t] \/ (t = s /\ y.creds = creds[s])
    BY <2>1, <2>3 DEF TypeOK
  <2>6. QED  BY <2>4, <2>5 DEF Unlinked, Live
<1>3. CASE HandleLogout(s)
  <2>1. \A t \in Sessions : creds'[t] => creds[t]
    BY <1>3 DEF HandleLogout, DisconnectSession, rows, TypeOK
  <2>2. UNCHANGED <<linked, saving, mk, sock, ended>>  BY <1>3 DEF HandleLogout, net, hist
  <2>3. QED  BY <2>1, <2>2 DEF Unlinked, Live
<1>4. CASE MakeSocket(s)
  BY <1>4 DEF MakeSocket, Unlinked, Live, TypeOK, rows, hist
<1>5. CASE FailCreate(s)
  BY <1>5 DEF FailCreate, Unlinked, Live, TypeOK, rows, net
<1>6. CASE Boot(s) \/ Timer(s)
  <2>1. \A t \in Sessions : \A x \in mk'[t] : x \in mk[t] \/ ~x.creds
    BY <1>6, FreshMaker DEF Boot, Timer
  <2>2. UNCHANGED <<linked, creds, saving, sock, ended>>  BY <1>6 DEF Boot, Timer, rows, net, hist
  <2>3. QED  BY <2>1, <2>2 DEF Unlinked, Live
<1>7. CASE ClearAuthState(s)
  BY <1>7 DEF ClearAuthState, SetCreds, Unlinked, Live, TypeOK, net, hist
<1>8. CASE SaveCreds(s)
  BY <1>8 DEF SaveCreds, SetCreds, Unlinked, Live, TypeOK, net, hist
<1>9. CASE PhoneLogout(s)
  BY <1>9 DEF PhoneLogout, Unlinked, Live, Free, TypeOK, rows, mem
<1>10. QED  BY <1>1, <1>2, <1>3, <1>4, <1>5, <1>6, <1>7, <1>8, <1>9 DEF SessionStep

LEMMA UnlinkedSocket ==
  ASSUME TypeOK, Asked, Unlinked, NEW k \in Sockets,
         Scan(k) \/ Open(k) \/ Lose(k) \/ LoggedOut(k) \/ CredsUpdate(k)
  PROVE  Unlinked'
<1>1. CASE Scan(k)
  BY <1>1 DEF Scan, Closed, Unlinked, Gone, Live, Free, TypeOK, rows, hist
<1>2. CASE Open(k)
  BY <1>2 DEF Open, Unlinked, Gone, Live, Free, TypeOK, rows, hist
<1>3. CASE Lose(k) \/ LoggedOut(k)
  BY <1>3, UnlinkedClosed DEF Lose, LoggedOut, rows, hist
<1>4. CASE CredsUpdate(k)
  BY <1>4 DEF CredsUpdate, Unlinked, Gone, Live, Free, TypeOK, rows, net, hist
<1>5. QED  BY <1>1, <1>2, <1>3, <1>4

LEMMA UnlinkedClient ==
  ASSUME SessionAssumption, TypeOK, OneConnection, Asked, Unlinked, NEW c \in Clients,
         Initiate(c) \/ Disconnect(c) \/ ClientStep(c) \/ ClientThrow(c)
         \/ \E s \in Sessions : RefreshQr(c, s) \/ ReconnectSession(c, s)
  PROVE  Unlinked'
<1>1. CASE Initiate(c) \/ Disconnect(c) \/ \E s \in Sessions : RefreshQr(c, s) \/ ReconnectSession(c, s)
  BY <1>1, UnlinkedAsk DEF Initiate, Disconnect, RefreshQr, ReconnectSession
<1>2. CASE DestroyForNew(c) \/ DestroyForCode(c)
  <2>1. PICK s \in Sessions : s = cl[c].s  BY <1>2, ClientBusy DEF DestroyForNew, DestroyForCode
  <2>2. End(s) /\ UNCHANGED <<linked, creds, saving, ended>>
    BY <1>2, <2>1 DEF DestroyForNew, DestroyForCode, rows, hist
  <2>3. mk' = mk \/ mk' = [mk EXCEPT ![s] = {Maker("refresh")}]
    BY <1>2, <2>1 DEF DestroyForNew, DestroyForCode
  <2>4. \A t \in Sessions : \A x \in mk'[t] : x.creds => \E y \in mk[t] : y.creds
    BY <2>3, FreshMaker
  <2>5. CASE conn[s] = NoSocket
    BY <2>2, <2>4, <2>5 DEF End, Unlinked, Gone, Live
  <2>6. CASE conn[s] # NoSocket
    BY <2>2, <2>4, <2>6, UnlinkedClosed DEF End, TypeOK
  <2>7. QED  BY <2>5, <2>6
<1>3. CASE Logout(c)
  <2>1. PICK s \in Sessions : s = cl[c].s /\ ended[s]  BY <1>3, ClientBusy DEF Logout, Asked
  <2>2. UNCHANGED <<creds, saving, mk, ended>> /\ \A t \in Sessions : Gone(t)' => Gone(t)
    BY <1>3, <2>1 DEF Logout, Gone, TypeOK, rows, hist
  <2>3. \A k \in Sockets : sock'[k] = sock[k] \/ sock'[k] = Free
    BY <1>3 DEF Logout, Closed, TypeOK
  <2>4. \A k \in Sockets : Live(k) => sock[k].s \in Sessions  BY DEF TypeOK, Live, Free
  <2>5. QED  BY <2>2, <2>3, <2>4 DEF Unlinked, Live, Free
<1>4. CASE Start(c)
  BY <1>4 DEF Start, Begin, Maker, Unlinked, Gone, Live, TypeOK, rows, net, hist
<1>5. CASE Create(c) \/ Reset(c) \/ Forget(c) \/ ClientThrow(c)
  <2>1. UNCHANGED <<linked, creds, saving, mk, sock, ended>>
    BY <1>5 DEF Create, Reset, ResetReconnectCount, Forget, ClientThrow, rows, net, mem, hist
  <2>2. QED  BY <2>1, UnlinkedStill
<1>6. CASE Invalidate(c) \/ Clear(c) \/ EndSession(c) \/ Rollback(c)
  <2>1. UNCHANGED <<linked, saving, mk, sock>>
        /\ \A t \in Sessions : (creds'[t] => creds[t]) /\ (ended[t] => ended'[t])
    BY <1>6 DEF Invalidate, Clear, EndSession, Rollback, DisconnectSession, SoftDelete, SetCreds,
                TypeOK, net, mem, hist
  <2>2. \A k \in Sockets : Live(k) => sock[k].s \in Sessions  BY DEF TypeOK, Live, Free
  <2>3. QED  BY <2>1, <2>2 DEF Unlinked, Gone, Live
<1>7. QED  BY <1>1, <1>2, <1>3, <1>4, <1>5, <1>6 DEF ClientStep

LEMMA UnlinkedStep ==
  ASSUME SessionAssumption, TypeOK, OneConnection, Asked, Unlinked, [Next]_vars
  PROVE  Unlinked'
<1>1. CASE WLoad \/ WCheck \/ WWrite \/ WPublish \/ WThrow \/ Age \/ (\E j \in jobs : Fetch(j))
           \/ UNCHANGED vars
  <2>1. UNCHANGED <<linked, creds, saving, mk, sock, ended>>
    BY <1>1
       DEF WLoad, WCheck, WWrite, IncrementReconnectCount, MarkAsDisconnected, WPublish, WThrow,
                Age, Fetch, vars, rows, net, mem, hist
  <2>2. QED  BY <2>1, UnlinkedStill
<1>2. CASE WReconnect
  BY <1>2 DEF WReconnect, Begin, Maker, Unlinked, Gone, Live, TypeOK, rows, net, hist
<1>3. CASE Crash
  BY <1>3 DEF Crash, Unlinked, Gone, Live, Free, rows
<1>4. QED  BY <1>1, <1>2, <1>3, UnlinkedSession, UnlinkedSocket, UnlinkedClient
   DEF Next, WorkerStep

LEMMA KeepsStep ==
  ASSUME TypeOK, Asked, [Next]_vars, NEW s \in Sessions, creds[s], ~creds'[s]
  PROVE  ended'[s] \/ RolledBack(s)
<1>1. ASSUME NEW t \in Sessions, HandleLogout(t) \/ ClearAuthState(t) PROVE ended'[s]
  BY <1>1 DEF HandleLogout, ClearAuthState, DisconnectSession, SetCreds, Asked, TypeOK, rows, hist
<1>2. ASSUME NEW c \in Clients, Invalidate(c) \/ Clear(c) \/ EndSession(c)
      PROVE  ended'[s]
  <2>1. cl[c].s \in Sessions  BY <1>2, ClientBusy DEF Invalidate, Clear, EndSession
  <2>2. s = cl[c].s
    BY <1>2, <2>1 DEF Invalidate, Clear, EndSession, DisconnectSession, SetCreds, TypeOK
  <2>3. QED  BY <1>2, <2>2 DEF Invalidate, Clear, EndSession, Asked, TypeOK, hist
<1>3. ASSUME NEW t \in Sessions, SaveCreds(t) PROVE FALSE
  BY <1>3 DEF SaveCreds, SetCreds, TypeOK
<1>4. ASSUME NEW t \in Sessions,
             \/ LoadAuth(t) \/ MakeSocket(t) \/ Boot(t) \/ Timer(t) \/ HandleConnected(t)
             \/ FindDisconnected(t) \/ WriteDisconnected(t) \/ PublishDisconnected(t)
             \/ CheckStaleHeartbeats(t) \/ PhoneLogout(t) \/ FailCreate(t) \/ HandlerThrow(t)
             \/ DisconnectedThrow(t)
      PROVE  creds' = creds
  BY <1>4 DEF LoadAuth, MakeSocket, Boot, Timer, HandleConnected, SetConnected, FindDisconnected,
     WriteDisconnected, IncrementReconnectCount, MarkAsDisconnected, PublishDisconnected,
     CheckStaleHeartbeats, PhoneLogout, FailCreate, HandlerThrow, DisconnectedThrow, rows
<1>5. ASSUME NEW k \in Sockets, Scan(k) \/ Open(k) \/ Lose(k) \/ LoggedOut(k) \/ CredsUpdate(k)
      PROVE  creds' = creds
  BY <1>5 DEF Scan, Open, Lose, LoggedOut, CredsUpdate, rows
<1>6. CASE WorkerStep \/ WThrow \/ Age \/ Crash \/ (\E j \in jobs : Fetch(j)) \/ UNCHANGED vars
  BY <1>6 DEF WorkerStep, WLoad, WReconnect, WCheck, WWrite, IncrementReconnectCount,
     MarkAsDisconnected, WPublish, WThrow, Age, Crash, Fetch, vars, rows
<1>7. ASSUME NEW c \in Clients,
             \/ Initiate(c) \/ Disconnect(c) \/ DestroyForNew(c) \/ DestroyForCode(c) \/ Create(c)
             \/ Reset(c) \/ Start(c) \/ Logout(c) \/ Forget(c) \/ ClientThrow(c)
             \/ \E t \in Sessions : RefreshQr(c, t) \/ ReconnectSession(c, t)
      PROVE  creds' = creds
  BY <1>7 DEF Initiate, Disconnect, DestroyForNew, DestroyForCode, Create, Reset,
     ResetReconnectCount, Start, Logout, Forget, ClientThrow, RefreshQr, ReconnectSession, Ask, rows
<1>8. ASSUME NEW c \in Clients, Rollback(c) PROVE RolledBack(s)
  <2>1. cl[c].pc = "rollback" /\ cl[c].s \in Sessions  BY <1>8, ClientBusy DEF Rollback
  <2>2. s = cl[c].s  BY <1>8, <2>1 DEF Rollback, SoftDelete, TypeOK
  <2>3. deleted'[s] /\ cl'[c].pc = "idle"
    BY <1>8, <2>2 DEF Rollback, SoftDelete, Finish, IdleClient, TypeOK
  <2>4. QED  BY <2>1, <2>2, <2>3 DEF RolledBack
<1>9. QED
  BY <1>1, <1>2, <1>3, <1>4, <1>5, <1>6, <1>7, <1>8 DEF Next, SessionStep, ClientStep

\* Only the user and the phone can cost a session its credentials, and the
\* request that created it, when it rolls its own failed connection back.
THEOREM CredsAreKept == Spec => KeepsCreds
<1> DEFINE Inv == TypeOK /\ OneConnection /\ Asked /\ Unlinked
<1>1. Init => Inv  BY TypeInit, ConnectionInit, KnownInit, SessionAssumption
<1>2. Inv /\ [Next]_vars => Inv'
  BY TypeStep, ConnectionStep, AskedStep, UnlinkedStep, SessionAssumption
<1>3. Inv /\ [Next]_vars =>
        [\A s \in Sessions : creds[s] /\ ~creds'[s] => ended'[s] \/ RolledBack(s)]_vars
  BY KeepsStep
<1>4. QED  BY <1>1, <1>2, <1>3, PTL DEF Spec, KeepsCreds

-----------------------------------------------------------------------------
(* The reconnect counter.  Each of those that count has read a value below  *)
(* the limit when it is about to write; each handler comes from a fault of  *)
(* its own.                                                                 *)
Rising(d) == {i \in Handlers : d[i].pc = "increment"}
Waits(s) == IF hw.pc = "increment" /\ hw.s = s THEN 1 ELSE 0
Numbered == \A s \in Sessions, i \in Handlers : dis[s][i].pc # "off" => i <= faults
CountBound ==
  \A s \in Sessions :
    count[s] + Cardinality(Rising(dis[s])) + Waits(s) <= MaxAttempts + faults

LEMMA RisingBound ==
  ASSUME NEW d, NEW n \in Nat, \A i \in Handlers : d[i].pc # "off" => i <= n
  PROVE  /\ IsFiniteSet(Rising(d)) /\ Cardinality(Rising(d)) \in Nat
         /\ Cardinality(Rising(d)) <= n
<1>1. Rising(d) \subseteq 1 .. n  BY DEF Rising, Handlers
<1>2. IsFiniteSet(1 .. n) /\ Cardinality(1 .. n) = n  BY FS_Interval
<1>3. QED  BY <1>1, <1>2, FS_Subset, FS_CardinalityType

LEMMA CountInit == ASSUME SessionAssumption, Init PROVE Numbered /\ CountBound
<1>1. Numbered  BY DEF Init, Numbered, Quiet
<1>2. \A s \in Sessions : Rising(dis[s]) = {}  BY DEF Init, Rising, Quiet
<1>3. \A s \in Sessions : Cardinality(Rising(dis[s])) = 0  BY <1>2, FS_EmptySet
<1>4. \A s \in Sessions : Waits(s) = 0  BY DEF Init, Waits, IdleWorker
<1>5. \A s \in Sessions : count[s] = 0  BY DEF Init
<1>6. faults = 0 /\ MaxAttempts \in Nat  BY DEF Init, SessionAssumption
<1>7. SUFFICES ASSUME NEW s \in Sessions
               PROVE  count[s] + Cardinality(Rising(dis[s])) + Waits(s) <= MaxAttempts + faults
  BY <1>1 DEF CountBound
<1>8. count[s] + Cardinality(Rising(dis[s])) + Waits(s) = 0  BY <1>3, <1>4, <1>5
<1>9. MaxAttempts + faults >= 0  BY <1>6
<1>10. QED  BY <1>8, <1>9

LEMMA NumberedStill ==
  ASSUME TypeOK, Numbered, faults' \in {faults, faults + 1},
         \A s \in Sessions, i \in Handlers :
           dis'[s][i].pc # "off" => dis[s][i].pc # "off" \/ i <= faults'
  PROVE  Numbered'
BY DEF TypeOK, Numbered, Handlers

\* Neither the counter nor the writers that wait move up.
LEMMA CountStill ==
  ASSUME SessionAssumption, TypeOK, Numbered, CountBound, UNCHANGED count,
         faults' \in {faults, faults + 1},
         \A s \in Sessions : Rising(dis'[s]) \subseteq Rising(dis[s]),
         hw'.pc = "increment" => hw.pc = "increment" /\ hw'.s = hw.s
  PROVE  CountBound'
<1> SUFFICES ASSUME NEW s \in Sessions
             PROVE  count'[s] + Cardinality(Rising(dis'[s])) + Waits(s)' <= MaxAttempts + faults'
  BY DEF CountBound
<1>1. /\ IsFiniteSet(Rising(dis[s])) /\ Cardinality(Rising(dis[s])) \in Nat
  BY RisingBound DEF TypeOK, Numbered
<1>2. Rising(dis'[s]) \subseteq Rising(dis[s])  OBVIOUS
<1>3. /\ Cardinality(Rising(dis'[s])) <= Cardinality(Rising(dis[s]))
      /\ Cardinality(Rising(dis'[s])) \in Nat
  BY <1>1, <1>2, FS_Subset, FS_CardinalityType
<1>4. Waits(s)' <= Waits(s) /\ Waits(s) \in 0 .. 1 /\ Waits(s)' \in 0 .. 1  BY DEF Waits
<1>5. QED  BY <1>1, <1>3, <1>4 DEF CountBound, TypeOK, SessionAssumption

\* The handlers and the worker wait, and the limit is at least one.
LEMMA CountReset ==
  ASSUME SessionAssumption, TypeOK, Numbered, CountBound, UNCHANGED <<dis, hw, faults>>,
         \A s \in Sessions : count'[s] = count[s] \/ count'[s] = 0
  PROVE  CountBound'
<1> SUFFICES ASSUME NEW s \in Sessions
             PROVE  count'[s] + Cardinality(Rising(dis'[s])) + Waits(s)' <= MaxAttempts + faults'
  BY DEF CountBound
<1>1. Cardinality(Rising(dis[s])) \in Nat /\ Cardinality(Rising(dis[s])) <= faults
  BY RisingBound DEF TypeOK, Numbered
<1>2. Waits(s)' = Waits(s) /\ Waits(s) \in 0 .. 1  BY DEF Waits
<1>3. faults \in Nat /\ MaxAttempts \in Nat /\ MaxAttempts >= 1 /\ count[s] \in Nat
  BY DEF TypeOK, SessionAssumption
<1>4. count[s] + Cardinality(Rising(dis[s])) + Waits(s) <= MaxAttempts + faults  BY DEF CountBound
<1>5. Cardinality(Rising(dis'[s])) = Cardinality(Rising(dis[s])) /\ faults' = faults  OBVIOUS
<1>6. CASE count'[s] = count[s]  BY <1>1, <1>2, <1>3, <1>4, <1>5, <1>6
<1>7. CASE count'[s] = 0  BY <1>1, <1>2, <1>3, <1>5, <1>7
<1>8. QED  BY <1>6, <1>7

\* Someone has read a count below the limit and will write.
LEMMA CountRead ==
  ASSUME SessionAssumption, TypeOK, CountBound, Numbered', UNCHANGED <<count, faults>>,
         NEW s \in Sessions, count[s] < MaxAttempts,
         \A t \in Sessions : t # s => dis'[t] = dis[t] /\ Waits(t)' = Waits(t)
  PROVE  CountBound'
<1> SUFFICES ASSUME NEW t \in Sessions
             PROVE  count'[t] + Cardinality(Rising(dis'[t])) + Waits(t)' <= MaxAttempts + faults'
  BY DEF CountBound
<1>1. CASE t # s  BY <1>1 DEF CountBound
<1>2. CASE t = s
  <2>1. faults' \in Nat /\ \A i \in Handlers : dis'[s][i].pc # "off" => i <= faults'
    BY DEF TypeOK, Numbered
  <2>2. Cardinality(Rising(dis'[s])) \in Nat /\ Cardinality(Rising(dis'[s])) <= faults'
    BY <2>1, RisingBound
  <2>3. Waits(s)' \in 0 .. 1  BY DEF Waits
  <2>4. QED  BY <1>2, <2>2, <2>3 DEF TypeOK, SessionAssumption
<1>3. QED  BY <1>1, <1>2

\* One of the writers has written.
LEMMA CountWritten ==
  ASSUME SessionAssumption, TypeOK, Numbered, CountBound, UNCHANGED faults,
         NEW s \in Sessions, IncrementReconnectCount(s),
         \A t \in Sessions : t # s => dis'[t] = dis[t] /\ Waits(t)' = Waits(t),
         \/ /\ \E i \in Rising(dis[s]) : Rising(dis'[s]) = Rising(dis[s]) \ {i}
            /\ Waits(s)' = Waits(s)
         \/ dis'[s] = dis[s] /\ Waits(s) = 1 /\ Waits(s)' = 0
  PROVE  CountBound'
<1> SUFFICES ASSUME NEW t \in Sessions
             PROVE  count'[t] + Cardinality(Rising(dis'[t])) + Waits(t)' <= MaxAttempts + faults'
  BY DEF CountBound
<1>1. count'[s] = count[s] + 1 /\ (t # s => count'[t] = count[t])
  BY DEF IncrementReconnectCount, TypeOK
<1>2. CASE t # s  BY <1>1, <1>2 DEF CountBound
<1>3. CASE t = s
  <2>1. IsFiniteSet(Rising(dis[s])) /\ Cardinality(Rising(dis[s])) \in Nat
    BY RisingBound DEF TypeOK, Numbered
  <2>2. Waits(s) \in 0 .. 1  BY DEF Waits
  <2>3. ASSUME NEW i \in Rising(dis[s]), Rising(dis'[s]) = Rising(dis[s]) \ {i}
        PROVE  Cardinality(Rising(dis'[s])) = Cardinality(Rising(dis[s])) - 1
    BY <2>1, <2>3, FS_RemoveElement
  <2>4. Cardinality(Rising(dis'[s])) + Waits(s)' = Cardinality(Rising(dis[s])) + Waits(s) - 1
    BY <2>1, <2>2, <2>3
  <2>5. faults \in Nat /\ MaxAttempts \in Nat /\ count[s] \in Nat
    BY DEF TypeOK, SessionAssumption
  <2>6. Waits(s)' \in 0 .. 1 /\ Cardinality(Rising(dis'[s])) \in Int
    BY <2>1, <2>3 DEF Waits
  <2>7. count[s] + Cardinality(Rising(dis[s])) + Waits(s) <= MaxAttempts + faults
    BY DEF CountBound
  <2>8. QED  BY <1>1, <1>3, <2>1, <2>2, <2>4, <2>5, <2>6, <2>7
<1>4. QED  BY <1>2, <1>3

\* What one step of one handler does to the others.
LEMMA HandlerStep ==
  ASSUME TypeOK, NEW s \in Sessions, NEW i \in Handlers, NEW x, dis' = [dis EXCEPT ![s][i] = x]
  PROVE  /\ dis'[s][i] = x /\ \A j \in Handlers : j # i => dis'[s][j] = dis[s][j]
         /\ \A t \in Sessions : t # s => dis'[t] = dis[t]
<1>1. dis \in [Sessions -> [Handlers -> Handler]]  BY DEF TypeOK, Handler
<1>2. dis'[s] = [dis[s] EXCEPT ![i] = x] /\ \A t \in Sessions : t # s => dis'[t] = dis[t]
  BY <1>1
<1>3. QED  BY <1>1, <1>2

LEMMA HandlerEnds ==
  ASSUME SessionAssumption, TypeOK, Numbered, CountBound, UNCHANGED <<count, hw>>,
         faults' \in {faults, faults + 1},
         NEW s \in Sessions, NEW i \in Handlers, NEW x, dis' = [dis EXCEPT ![s][i] = x],
         x.pc \in {"off", "mark", "publish"}, x.pc # "off" => dis[s][i].pc # "off"
  PROVE  Numbered' /\ CountBound'
<1>1. /\ dis'[s][i] = x /\ \A j \in Handlers : j # i => dis'[s][j] = dis[s][j]
      /\ \A t \in Sessions : t # s => dis'[t] = dis[t]
  BY HandlerStep
<1>2. Numbered'  BY <1>1, NumberedStill
<1>3. Rising(dis'[s]) \subseteq Rising(dis[s])  BY <1>1 DEF Rising
<1>4. \A t \in Sessions : Rising(dis'[t]) \subseteq Rising(dis[t])  BY <1>1, <1>3
<1>5. CountBound'  BY <1>4, CountStill
<1>6. QED  BY <1>2, <1>5

LEMMA CountSession ==
  ASSUME SessionAssumption, TypeOK, Numbered, CountBound, NEW s \in Sessions,
         \/ HandleConnected(s) \/ FindDisconnected(s) \/ WriteDisconnected(s)
         \/ MakeSocket(s) \/ FailCreate(s) \/ PublishDisconnected(s) \/ DisconnectedThrow(s)
  PROVE  Numbered' /\ CountBound'
<1>1. CASE HandleConnected(s)
  <2>1. UNCHANGED <<dis, hw, faults>> /\ \A t \in Sessions : count'[t] = count[t] \/ count'[t] = 0
    BY <1>1 DEF HandleConnected, SetConnected, TypeOK, rows, queue, hist
  <2>2. QED  BY <2>1, CountReset, NumberedStill
<1>2. CASE FindDisconnected(s)
  <2>1. UNCHANGED <<count, hw, faults>>  BY <1>2 DEF FindDisconnected, rows, queue, hist
  <2>2. PICK i \in Handlers :
          /\ dis[s][i].pc = "find"
          /\ \/ dis' = [dis EXCEPT ![s][i] = Quiet]
             \/ /\ count[s] < MaxAttempts
                /\ dis' = [dis EXCEPT ![s][i] = [pc |-> "increment", n |-> count[s]]]
             \/ dis' = [dis EXCEPT ![s][i] = [pc |-> "mark", n |-> count[s]]]
    BY <1>2 DEF FindDisconnected, DisGoto, DisEnds, CanRetryReconnect
  <2>3. CASE dis' = [dis EXCEPT ![s][i] = Quiet]  BY <2>1, <2>3, HandlerEnds DEF Quiet
  <2>4. CASE dis' = [dis EXCEPT ![s][i] = [pc |-> "mark", n |-> count[s]]]
    BY <2>1, <2>2, <2>4, HandlerEnds
  <2>5. CASE count[s] < MaxAttempts
             /\ dis' = [dis EXCEPT ![s][i] = [pc |-> "increment", n |-> count[s]]]
    <3>1. /\ \A j \in Handlers : j # i => dis'[s][j] = dis[s][j]
          /\ \A t \in Sessions : t # s => dis'[t] = dis[t]
      BY <2>5, HandlerStep
    <3>2. Numbered'  BY <2>1, <2>2, <3>1, NumberedStill
    <3>3. \A t \in Sessions : Waits(t)' = Waits(t)  BY <2>1 DEF Waits
    <3>4. QED  BY <2>1, <2>5, <3>1, <3>2, <3>3, CountRead
  <2>6. QED  BY <2>2, <2>3, <2>4, <2>5
<1>3. CASE WriteDisconnected(s)
  <2>1. UNCHANGED <<hw, faults>>  BY <1>3 DEF WriteDisconnected, queue, hist
  <2>2. ASSUME NEW i \in Handlers, dis[s][i].pc = "mark", MarkAsDisconnected(s), DisEnds(s, i)
        PROVE  Numbered' /\ CountBound'
    BY <2>1, <2>2, HandlerEnds DEF MarkAsDisconnected, DisEnds, Quiet
  <2>3. ASSUME NEW i \in Handlers, dis[s][i].pc = "increment", IncrementReconnectCount(s),
               DisGoto(s, i, "publish", dis[s][i].n)
        PROVE  Numbered' /\ CountBound'
    <3> DEFINE x == [pc |-> "publish", n |-> dis[s][i].n]
    <3>0. dis' = [dis EXCEPT ![s][i] = x]  BY <2>3 DEF DisGoto
    <3>a. x.pc = "publish"  OBVIOUS
    <3> HIDE DEF x
    <3>b. /\ dis'[s][i] = x /\ \A j \in Handlers : j # i => dis'[s][j] = dis[s][j]
          /\ \A t \in Sessions : t # s => dis'[t] = dis[t]
      BY <3>0, HandlerStep
    <3>1. /\ dis'[s][i].pc = "publish" /\ \A j \in Handlers : j # i => dis'[s][j] = dis[s][j]
          /\ \A t \in Sessions : t # s => dis'[t] = dis[t]
      BY <3>a, <3>b
    <3>2. Numbered'  BY <2>1, <2>3, <3>1, NumberedStill
    <3>3. Rising(dis'[s]) = Rising(dis[s]) \ {i} /\ i \in Rising(dis[s])
      BY <2>3, <3>1 DEF Rising
    <3>4. \A t \in Sessions : Waits(t)' = Waits(t)  BY <2>1 DEF Waits
    <3>5. QED  BY <2>1, <2>3, <3>1, <3>2, <3>3, <3>4, CountWritten
  <2>4. QED  BY <1>3, <2>2, <2>3 DEF WriteDisconnected
<1>4. CASE MakeSocket(s)
  <2>1. UNCHANGED <<count, dis, faults>> /\ Answer(s, TRUE)  BY <1>4 DEF MakeSocket, rows, hist
  <2>2. hw'.pc = "increment" => hw' = hw  BY <2>1 DEF Answer, IdleWorker
  <2>3. QED  BY <2>1, <2>2, CountStill, NumberedStill
<1>5. CASE FailCreate(s)
  <2>0. /\ UNCHANGED count /\ Answer(s, FALSE)
        /\ faults' = faults + 1 /\ faults < MaxFaults
    BY <1>5 DEF FailCreate, Fault, rows
  <2>a. faults \in Nat /\ MaxFaults \in Nat  BY DEF SessionAssumption, TypeOK
  <2>b. faults' \in Handlers  BY <2>0, <2>a DEF Handlers
  <2>1. UNCHANGED count /\ Answer(s, FALSE) /\ faults' = faults + 1 /\ faults' \in Handlers
    BY <2>0, <2>b
  <2>2. hw'.pc = "increment" => hw' = hw
    <3>1. hw.pc = "creating" => hw \in Worker  BY WorkerBusy
    <3>2. QED  BY <2>1, <3>1 DEF Answer, Worker
  <2>3. CASE dis' = dis  BY <2>1, <2>2, <2>3, CountStill, NumberedStill
  <2>4. ASSUME NEW x, x.pc = "find", dis' = [dis EXCEPT ![s][faults'] = x]
        PROVE  Numbered' /\ CountBound'
    <3>0. PICK i \in Handlers : i = faults'  BY <2>1
    <3>a. dis' = [dis EXCEPT ![s][i] = x]  BY <2>4, <3>0
    <3>b. /\ dis'[s][i] = x /\ \A j \in Handlers : j # i => dis'[s][j] = dis[s][j]
          /\ \A t \in Sessions : t # s => dis'[t] = dis[t]
      BY <3>a, HandlerStep
    <3>1. /\ dis'[s][faults'] = x /\ \A j \in Handlers : j # faults' => dis'[s][j] = dis[s][j]
          /\ \A t \in Sessions : t # s => dis'[t] = dis[t]
      BY <3>0, <3>b
    <3>2. Numbered'
      <4>1. faults' <= faults'  BY <2>1 DEF Handlers
      <4>2. QED  BY <2>1, <3>1, <4>1, NumberedStill
    <3>3. Rising(dis'[s]) \subseteq Rising(dis[s])  BY <2>4, <3>1 DEF Rising
    <3>4. \A t \in Sessions : Rising(dis'[t]) \subseteq Rising(dis[t])  BY <3>1, <3>3
    <3>5. QED  BY <2>1, <2>2, <3>2, <3>4, CountStill
  <2>5. dis[s][faults'] \in Handler  BY <2>1 DEF TypeOK, Handler
  <2>6. [dis[s][faults'] EXCEPT !.pc = "find"].pc = "find"  BY <2>5 DEF Handler
  <2>7. \/ dis' = dis
        \/ dis' = [dis EXCEPT ![s][faults'] = [dis[s][faults'] EXCEPT !.pc = "find"]]
    BY <1>5 DEF FailCreate
  <2>8. QED  BY <2>3, <2>4, <2>6, <2>7
<1>6. CASE PublishDisconnected(s)
  <2>1. UNCHANGED <<count, hw, faults>>  BY <1>6 DEF PublishDisconnected, rows, hist
  <2>2. QED  BY <1>6, <2>1, HandlerEnds DEF PublishDisconnected, DisEnds, Quiet
<1>7. CASE DisconnectedThrow(s)
  <2>1. UNCHANGED <<count, hw>> /\ faults' = faults + 1
    BY <1>7 DEF DisconnectedThrow, Fault, rows, queue
  <2>2. QED  BY <1>7, <2>1, HandlerEnds DEF DisconnectedThrow, DisEnds, Quiet
<1>8. QED  BY <1>1, <1>2, <1>3, <1>4, <1>5, <1>6, <1>7

LEMMA CountWorker ==
  ASSUME SessionAssumption, TypeOK, Numbered, CountBound,
         WorkerStep \/ WThrow \/ \E j \in jobs : Fetch(j)
  PROVE  Numbered' /\ CountBound'
<1>1. dis' = dis /\ faults' \in {faults, faults + 1}
  BY DEF WorkerStep, WLoad, WReconnect, WCheck, WWrite, WPublish, WThrow, Fault, Fetch, mem, hist
<1>2. Numbered'  BY <1>1, NumberedStill
<1>3. CASE WLoad \/ WPublish \/ WThrow \/ \E j \in jobs : Fetch(j)
  BY <1>1, <1>2, <1>3, CountStill DEF WLoad, WPublish, WThrow, Fetch, IdleWorker, rows
<1>4. CASE WReconnect
  <2>1. hw \in Worker  BY <1>4, WorkerBusy DEF WReconnect
  <2>2. hw'.pc # "increment" /\ UNCHANGED count
    BY <1>4, <2>1 DEF WReconnect, Worker, IdleWorker, rows
  <2>3. QED  BY <1>1, <1>2, <2>2, CountStill
<1>5. CASE WCheck
  <2>1. hw \in Worker /\ hw.pc = "load" /\ hw.s \in Sessions  BY <1>5, WorkerBusy DEF WCheck
  <2>2. /\ UNCHANGED <<count, faults>>
        /\ hw'.pc = "increment" => hw'.s = hw.s /\ count[hw.s] < MaxAttempts
    BY <1>5, <2>1 DEF WCheck, Worker, IdleWorker, CanRetryReconnect, rows, mem, hist
  <2>3. CASE hw'.pc = "increment"
    <3>1. \A t \in Sessions : t # hw.s => Waits(t)' = Waits(t)
      BY <2>1, <2>2, <2>3 DEF Waits
    <3>2. QED  BY <1>1, <1>2, <2>1, <2>2, <2>3, <3>1, CountRead
  <2>4. CASE hw'.pc # "increment"  BY <1>1, <1>2, <2>2, <2>4, CountStill
  <2>5. QED  BY <2>3, <2>4
<1>6. CASE WWrite
  <2>1. hw \in Worker /\ hw.s \in Sessions  BY <1>6, WorkerBusy DEF WWrite
  <2>2. CASE hw.pc = "increment"
    <3>1. hw'.pc = "publish" /\ IncrementReconnectCount(hw.s) /\ UNCHANGED faults
      BY <1>6, <2>1, <2>2 DEF WWrite, Worker, hist
    <3>2. /\ Waits(hw.s) = 1 /\ Waits(hw.s)' = 0
          /\ \A t \in Sessions : t # hw.s => Waits(t)' = Waits(t)
      BY <2>2, <3>1 DEF Waits
    <3>3. \A t \in Sessions : t # hw.s => dis'[t] = dis[t] /\ Waits(t)' = Waits(t)
      BY <1>1, <3>2
    <3>4. dis'[hw.s] = dis[hw.s]  BY <1>1
    <3>5. PICK s \in Sessions : s = hw.s  BY <2>1
    <3>6. CountBound'
      <4>1. /\ IncrementReconnectCount(s) /\ Waits(s) = 1 /\ Waits(s)' = 0 /\ dis'[s] = dis[s]
            /\ \A t \in Sessions : t # s => dis'[t] = dis[t] /\ Waits(t)' = Waits(t)
        <5>1. IncrementReconnectCount(s) /\ dis'[s] = dis[s]  BY <3>1, <3>4, <3>5
        <5>2. Waits(s) = 1 /\ Waits(s)' = 0
          <6>1. hw'.pc # "increment"  BY <3>1
          <6>2. QED  BY <2>2, <3>5, <6>1 DEF Waits
        <5>3. \A t \in Sessions : t # s => dis'[t] = dis[t] /\ Waits(t)' = Waits(t)
          BY <3>3, <3>5
        <5>4. QED  BY <5>1, <5>2, <5>3
      <4>2. QED  BY <3>1, <4>1, CountWritten
    <3>7. QED  BY <1>2, <3>6
  <2>3. CASE hw.pc = "mark"
    BY <1>1, <1>2, <1>6, <2>3, CountStill DEF WWrite, MarkAsDisconnected, IdleWorker
  <2>4. QED  BY <1>6, <2>2, <2>3 DEF WWrite
<1>7. QED  BY <1>3, <1>4, <1>5, <1>6 DEF WorkerStep

LEMMA CountStep ==
  ASSUME SessionAssumption, TypeOK, Numbered, CountBound, [Next]_vars
  PROVE  Numbered' /\ CountBound'
<1> DEFINE Still == UNCHANGED <<count, dis, hw>> /\ faults' \in {faults, faults + 1}
<1>1. Still => Numbered' /\ CountBound'  BY CountStill, NumberedStill
<1>2. ASSUME NEW s \in Sessions,
             \/ LoadAuth(s) \/ Boot(s) \/ ClearAuthState(s) \/ SaveCreds(s) \/ Timer(s)
             \/ HandleLogout(s) \/ CheckStaleHeartbeats(s) \/ PhoneLogout(s) \/ HandlerThrow(s)
      PROVE  Still
  BY <1>2 DEF LoadAuth, Boot, ClearAuthState, SaveCreds, SetCreds, Timer, HandleLogout, Fault,
              DisconnectSession, CheckStaleHeartbeats, PhoneLogout, HandlerThrow, rows, mem, queue,
              hist
<1>3. ASSUME NEW k \in Sockets, Scan(k) \/ Open(k) \/ Lose(k) \/ LoggedOut(k) \/ CredsUpdate(k)
      PROVE  Still
  BY <1>3 DEF Scan, Open, Lose, LoggedOut, CredsUpdate, Fault, rows, queue, hist
<1>4. ASSUME NEW c \in Clients,
             \/ Initiate(c) \/ Disconnect(c) \/ DestroyForNew(c) \/ DestroyForCode(c)
             \/ Invalidate(c) \/ Create(c) \/ Rollback(c) \/ Start(c) \/ Logout(c) \/ Forget(c)
             \/ Clear(c) \/ EndSession(c) \/ ClientThrow(c)
             \/ \E s \in Sessions : RefreshQr(c, s) \/ ReconnectSession(c, s)
      PROVE  Still
  BY <1>4
     DEF Initiate, Disconnect, DestroyForNew, DestroyForCode, Invalidate, DisconnectSession,
     Create, Rollback, SoftDelete, Start, Logout, Forget, Clear, SetCreds, EndSession,
     ClientThrow, RefreshQr, ReconnectSession, Ask, Fault, rows, mem, queue, hist
<1>5. ASSUME NEW c \in Clients, Reset(c) PROVE Numbered' /\ CountBound'
  <2>1. UNCHANGED <<dis, hw, faults>> /\ \A t \in Sessions : count'[t] = count[t] \/ count'[t] = 0
    BY <1>5 DEF Reset, ResetReconnectCount, TypeOK, mem, queue, hist
  <2>2. QED  BY <2>1, CountReset, NumberedStill
<1>6. CASE Crash
  <2>1. /\ UNCHANGED count /\ faults' = faults + 1 /\ hw'.pc = "idle"
        /\ \A s \in Sessions, i \in Handlers : dis'[s][i].pc = "off"
    BY <1>6 DEF Crash, Fault, Quiet, IdleWorker, rows
  <2>2. \A s \in Sessions : Rising(dis'[s]) \subseteq Rising(dis[s])  BY <2>1 DEF Rising
  <2>3. QED  BY <2>1, <2>2, CountStill, NumberedStill
<1>7. CASE Age \/ UNCHANGED vars  BY <1>1, <1>7 DEF Age, vars, rows, mem, queue, hist
<1>8. QED
  BY <1>1, <1>2, <1>3, <1>4, <1>5, <1>6, <1>7, CountSession, CountWorker
     DEF Next, SessionStep, ClientStep

\* The worker and the handlers of failed automatic reconnects count together:
\* the counter passes its limit by no more than there were faults.
THEOREM AttemptsAreBounded == Spec => []AttemptsBounded
<1> DEFINE Inv == TypeOK /\ Numbered /\ CountBound
<1>1. Init => Inv  BY TypeInit, CountInit, SessionAssumption
<1>2. Inv /\ [Next]_vars => Inv'  BY TypeStep, CountStep, SessionAssumption
<1>3. Inv => AttemptsBounded
  <2> SUFFICES ASSUME Inv, NEW s \in Sessions PROVE count[s] <= MaxAttempts + faults
    BY DEF AttemptsBounded
  <2>1. Cardinality(Rising(dis[s])) \in Nat  BY RisingBound DEF TypeOK, Numbered
  <2>2. Waits(s) \in 0 .. 1  BY DEF Waits
  <2>3. QED  BY <2>1, <2>2, SessionAssumption DEF SessionAssumption, TypeOK, CountBound
<1>4. QED  BY <1>1, <1>2, <1>3, PTL DEF Spec

=============================================================================
