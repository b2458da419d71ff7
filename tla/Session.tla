------------------------------- MODULE Session -------------------------------
(***************************************************************************)
(* The WhatsApp sessions of one CRM user: the rows of whatsapp_sessions,    *)
(* the sockets BaileysConnectionManager keeps in memory, the events they    *)
(* emit, the requests of the session controller and the health worker with  *)
(* its cron and its queue.  Sessions are numbered in order of creation.     *)
(* Each action is what one process does between two awaits.                 *)
(***************************************************************************)
EXTENDS Naturals, FiniteSets

CONSTANTS
  Clients,        \* the requests that may be under way at once
  Kinds,          \* the kinds of request they make
  MaxSessions,    \* bound: rows ever created
  Sockets,        \* bound: sockets alive at once
  NoSocket,       \* "no entry" in the map of connections
  MaxAttempts,    \* WHATSAPP_CONFIG.MAX_RECONNECT_ATTEMPTS
  MaxRequests,    \* bound: requests in all
  MaxFaults,      \* bound: faults in all
  Faults          \* the kinds of fault that may occur

RequestKinds == {"initiate", "refresh", "reconnect", "disconnect"}
FaultKinds == {"crash",   \* the process dies and starts again
               "db",      \* a database call throws
               "net",     \* a connection is lost
               "phone"}   \* the device is removed on the phone

ASSUME SessionAssumption ==
  /\ Kinds \subseteq RequestKinds
  /\ MaxSessions \in Nat /\ MaxAttempts \in Nat \ {0}
  /\ MaxRequests \in Nat /\ MaxFaults \in Nat
  /\ NoSocket \notin Sockets
  /\ Faults \subseteq FaultKinds

Sessions == 1 .. MaxSessions
Status == {"NONE", "CONNECTING", "CONNECTED", "RECONNECTING", "DISCONNECTED"}

VARIABLES
  status,    \* the row's status; NONE before it is created
  creds,     \* encryptedCreds is set
  known,     \* phoneNumber and lastHeartbeatAt are set
  count,     \* reconnectCount
  deleted,   \* deletedAt is set
  aged,      \* the sessions up to this one are older than five minutes
  linked,    \* WhatsApp has the session among the phone's devices
  sock,      \* each socket: free, new or open; whose; with which credentials
  conn,      \* BaileysConnectionManager.connections
  mk,        \* the calls of createConnection under way: "initializing"
  timer,     \* automatic reconnects that are due
  closing,   \* a logged-out socket's handler is to clear the credentials
  saving,    \* a socket's creds.update handler is to save the credentials
  pend,      \* 'connected' and 'logout' events whose handler has yet to write
  dis,       \* the handlers of 'disconnected' events, by the fault each comes from
  boot,      \* the sessions onModuleInit has yet to reconnect
  jobs,      \* the health queue
  hw,        \* the health worker
  cl,        \* the requests
  requests, faults,
  torn,      \* history: a disconnect dropped a socket that was alive
  ended      \* history: the user or the phone asked for the session's end

rows == <<status, creds, known, count, deleted>>
net == <<linked, sock, conn>>
mem == <<mk, timer, closing, saving, pend, dis, boot>>
queue == <<jobs, hw>>
hist == <<requests, faults, torn, ended>>
vars == <<rows, aged, net, mem, queue, cl, hist>>

Free == [state |-> "free", s |-> 0, creds |-> FALSE]
Maker(by) == [pc |-> "auth", by |-> by, creds |-> FALSE]
Handlers == 1 .. MaxFaults
Quiet == [pc |-> "off", n |-> 0]
IdleWorker == [pc |-> "idle", s |-> 0, kind |-> "none", n |-> 0]
IdleClient == [pc |-> "idle", kind |-> "none", s |-> 0]

Init ==
  /\ status = [s \in Sessions |-> "NONE"]
  /\ creds = [s \in Sessions |-> FALSE]
  /\ known = [s \in Sessions |-> FALSE]
  /\ count = [s \in Sessions |-> 0]
  /\ deleted = [s \in Sessions |-> FALSE]
  /\ aged = 0
  /\ linked = [s \in Sessions |-> FALSE]
  /\ sock = [k \in Sockets |-> Free]
  /\ conn = [s \in Sessions |-> NoSocket]
  /\ mk = [s \in Sessions |-> {}]
  /\ timer = [s \in Sessions |-> 0]
  /\ closing = [s \in Sessions |-> FALSE]
  /\ saving = [s \in Sessions |-> FALSE]
  /\ pend = [s \in Sessions |-> {}]
  /\ dis = [s \in Sessions |-> [i \in Handlers |-> Quiet]]
  /\ boot = {}
  /\ jobs = {} /\ hw = IdleWorker
  /\ cl = [c \in Clients |-> IdleClient]
  /\ requests = 0 /\ faults = 0
  /\ torn = [s \in Sessions |-> FALSE]
  /\ ended = [s \in Sessions |-> FALSE]

Fault(kind) == kind \in Faults /\ faults < MaxFaults /\ faults' = faults + 1

Rows == {s \in Sessions : status[s] # "NONE"}
Live(k) == sock[k].state # "free"
\* Mutation: one more.
CanRetryReconnectOnce(n) == n <= MaxAttempts
CanRetryReconnect(n) == n < MaxAttempts

-----------------------------------------------------------------------------
(* WhatsAppSessionRepository: one statement each                           *)

DisconnectSession(s) ==
  /\ status' = [status EXCEPT ![s] = "DISCONNECTED"]
  /\ creds' = [creds EXCEPT ![s] = FALSE]
  /\ UNCHANGED <<known, count, deleted>>

SoftDelete(s) ==
  /\ status' = [status EXCEPT ![s] = "DISCONNECTED"]
  /\ creds' = [creds EXCEPT ![s] = FALSE]
  /\ deleted' = [deleted EXCEPT ![s] = TRUE]
  /\ UNCHANGED <<known, count>>

\* Mutation: disconnectSession used for it.
MarkAsDisconnectedHard(s) == DisconnectSession(s)
MarkAsDisconnected(s) ==
  /\ status' = [status EXCEPT ![s] = "DISCONNECTED"]
  /\ UNCHANGED <<creds, known, count, deleted>>

IncrementReconnectCount(s) ==
  /\ status' = [status EXCEPT ![s] = "RECONNECTING"]
  /\ count' = [count EXCEPT ![s] = @ + 1]
  /\ UNCHANGED <<creds, known, deleted>>

ResetReconnectCount(s) ==
  /\ status' = [status EXCEPT ![s] = "RECONNECTING"]
  /\ count' = [count EXCEPT ![s] = 0]
  /\ UNCHANGED <<creds, known, deleted>>

SetCreds(s, b) ==
  /\ creds' = [creds EXCEPT ![s] = b]
  /\ UNCHANGED <<status, known, count, deleted>>

\* findActiveByUserId: the newest of the sessions that count as active.
Active ==
  {s \in Rows :
     /\ ~deleted[s]
     /\ \/ status[s] = "CONNECTED"
        \/ status[s] = "RECONNECTING" /\ known[s]
        \/ status[s] = "CONNECTING" /\ s > aged
        \/ status[s] = "DISCONNECTED" /\ creds[s]}
Newest == {s \in Active : \A t \in Active : t <= s}

\* findAllActive: what a restart reconnects.
FindAllActive ==
  {s \in Rows : ~deleted[s] /\ status[s] \in {"CONNECTED", "RECONNECTING"} /\ creds[s] /\ known[s]}

\* Five minutes pass over the oldest session that is still young.
Age ==
  /\ aged + 1 \in Rows
  /\ status[aged + 1] = "CONNECTING"
  /\ aged' = aged + 1
  /\ UNCHANGED <<rows, net, mem, queue, cl, hist>>

-----------------------------------------------------------------------------
(* createConnection                                                        *)

\* Mutation: only finished connections are looked at.
BusyNot(s) == conn[s] # NoSocket
Busy(s) == conn[s] # NoSocket \/ mk[s] # {}

\* Returns at once when a connection exists or is being made.
Begin(s, by) ==
  mk' = IF Busy(s) THEN mk ELSE [mk EXCEPT ![s] = @ \cup {Maker(by)}]

\* await getAuthState: the stored credentials, or fresh ones.
LoadAuth(s) ==
  /\ \E x \in mk[s] :
       /\ x.pc = "auth"
       /\ mk' = [mk EXCEPT ![s] =
                   (@ \ {x}) \cup {[x EXCEPT !.pc = "version", !.creds = creds[s]]}]
  /\ UNCHANGED <<rows, aged, net, timer, closing, saving, pend, dis, boot, queue, cl, hist>>

\* The caller that awaits the connection goes on.
Awaiting(c, s) == cl[c].pc = "creating" /\ cl[c].s = s
Answer(s, ok) ==
  /\ cl' = [c \in Clients |->
       IF ~Awaiting(c, s) THEN cl[c]
       ELSE IF ok \/ cl[c].kind = "refresh" THEN IdleClient
       ELSE [cl[c] EXCEPT !.pc = "rollback"]]
  /\ hw' = IF hw.pc # "creating" \/ hw.s # s THEN hw
           ELSE IF ok THEN IdleWorker
           ELSE [hw EXCEPT !.pc = IF CanRetryReconnect(hw.n) THEN "publish" ELSE "mark"]

\* After await fetchLatestBaileysVersion, which does not throw.
MakeSocket(s) ==
  /\ \E x \in mk[s], k \in Sockets :
       /\ x.pc = "version" /\ ~Live(k)
       /\ mk' = [mk EXCEPT ![s] = @ \ {x}]
       /\ sock' = [sock EXCEPT ![k] = [state |-> "new", s |-> s, creds |-> x.creds]]
       /\ conn' = [conn EXCEPT ![s] = k]
  /\ Answer(s, TRUE)
  /\ UNCHANGED <<rows, aged, linked, timer, closing, saving, pend, dis, boot, jobs, hist>>

\* getAuthState throws.  Only the automatic reconnect makes an event of it,
\* whatever events of the session are still being handled.
FailCreate(s) ==
  /\ Fault("db")
  /\ \E x \in mk[s] :
       /\ x.pc = "auth"
       /\ dis' = IF x.by = "timer" THEN [dis EXCEPT ![s][faults'].pc = "find"] ELSE dis
       /\ mk' = [mk EXCEPT ![s] = @ \ {x}]
  /\ Answer(s, FALSE)
  /\ UNCHANGED <<rows, aged, net, timer, closing, saving, pend, boot, jobs,
                 requests, torn, ended>>

\* A socket ends: its handler takes the session's entry out of the map.
Closed(k) ==
  /\ sock' = [sock EXCEPT ![k] = Free]
  /\ conn' = [conn EXCEPT ![sock[k].s] = NoSocket]

\* onModuleInit: one session after the other.
Boot(s) ==
  /\ s \in boot
  /\ \A t \in Sessions : \A x \in mk[t] : x.by # "boot"
  /\ boot' = boot \ {s}
  /\ Begin(s, "boot")
  /\ UNCHANGED <<rows, aged, net, timer, closing, saving, pend, dis, queue, cl, hist>>

-----------------------------------------------------------------------------
(* The events of a socket                                                  *)

\* The user scans the code a socket shows: WhatsApp links the device, the
\* socket saves its credentials and is told to restart.
Scan(k) == LET s == sock[k].s IN
  /\ sock[k].state = "new" /\ ~sock[k].creds
  /\ linked' = [linked EXCEPT ![s] = TRUE]
  /\ saving' = [saving EXCEPT ![s] = TRUE]
  /\ timer' = [timer EXCEPT ![s] = @ + 1]
  /\ Closed(k)
  /\ UNCHANGED <<rows, aged, mk, closing, pend, dis, boot, queue, cl, hist>>

Open(k) == LET s == sock[k].s IN
  /\ sock[k].state = "new" /\ sock[k].creds /\ linked[s]
  /\ sock' = [sock EXCEPT ![k].state = "open"]
  /\ pend' = [pend EXCEPT ![s] = @ \cup {"connected"}]
  /\ UNCHANGED <<rows, aged, linked, conn, mk, timer, closing, saving, dis, boot, queue, cl, hist>>

\* Closed for any reason but a logout: reconnect in 1.5 seconds.
Lose(k) ==
  /\ Live(k)
  /\ Fault("net")
  /\ timer' = [timer EXCEPT ![sock[k].s] = @ + 1]
  /\ Closed(k)
  /\ UNCHANGED <<rows, aged, linked, mk, closing, saving, pend, dis, boot, queue, cl,
                 requests, torn, ended>>

\* Closed by a logout.
LoggedOut(k) == LET s == sock[k].s IN
  /\ Live(k) /\ sock[k].creds /\ ~linked[s]
  /\ closing' = [closing EXCEPT ![s] = TRUE]
  /\ Closed(k)
  /\ UNCHANGED <<rows, aged, linked, mk, timer, saving, pend, dis, boot, queue, cl, hist>>

ClearAuthState(s) ==
  /\ closing[s]
  /\ SetCreds(s, FALSE)
  /\ closing' = [closing EXCEPT ![s] = FALSE]
  /\ pend' = [pend EXCEPT ![s] = @ \cup {"logout"}]
  /\ UNCHANGED <<aged, net, mk, timer, saving, dis, boot, queue, cl, hist>>

\* An open socket renews its credentials from time to time.
CredsUpdate(k) ==
  /\ sock[k].state = "open"
  /\ saving' = [saving EXCEPT ![sock[k].s] = TRUE]
  /\ UNCHANGED <<rows, aged, net, mk, timer, closing, pend, dis, boot, queue, cl, hist>>

SaveCreds(s) ==
  /\ saving[s]
  /\ SetCreds(s, TRUE)
  /\ saving' = [saving EXCEPT ![s] = FALSE]
  /\ UNCHANGED <<aged, net, mk, timer, closing, pend, dis, boot, queue, cl, hist>>

\* setTimeout: whatever the row says by now.
Timer(s) ==
  /\ timer[s] > 0
  /\ timer' = [timer EXCEPT ![s] = @ - 1]
  /\ Begin(s, "timer")
  /\ UNCHANGED <<rows, aged, net, closing, saving, pend, dis, boot, queue, cl, hist>>

PhoneLogout(s) ==
  /\ linked[s]
  /\ Fault("phone")
  /\ linked' = [linked EXCEPT ![s] = FALSE]
  /\ ended' = [ended EXCEPT ![s] = TRUE]
  /\ UNCHANGED <<rows, aged, sock, conn, mem, queue, cl, requests, torn>>

-----------------------------------------------------------------------------
(* HandleSessionEventUseCase                                               *)

SetConnected(s) ==
  /\ status' = [status EXCEPT ![s] = "CONNECTED"]
  /\ known' = [known EXCEPT ![s] = TRUE]
  /\ count' = [count EXCEPT ![s] = 0]
  /\ UNCHANGED <<creds, deleted>>

\* findById does not find a deleted row; one deleted after it was found is
\* written all the same.
HandleConnected(s) ==
  /\ "connected" \in pend[s]
  /\ pend' = [pend EXCEPT ![s] = @ \ {"connected"}]
  /\ \/ SetConnected(s)
     \/ deleted[s] /\ UNCHANGED rows
  /\ UNCHANGED <<aged, net, mk, timer, closing, saving, dis, boot, queue, cl, hist>>

HandleLogout(s) ==
  /\ "logout" \in pend[s]
  /\ pend' = [pend EXCEPT ![s] = @ \ {"logout"}]
  /\ \/ DisconnectSession(s)
     \/ deleted[s] /\ UNCHANGED rows
  /\ UNCHANGED <<aged, net, mk, timer, closing, saving, dis, boot, queue, cl, hist>>

\* BaileysBridgeHandler swallows the error.
HandlerThrow(s) ==
  /\ Fault("db")
  /\ \E e \in pend[s] : pend' = [pend EXCEPT ![s] = @ \ {e}]
  /\ UNCHANGED <<rows, aged, net, mk, timer, closing, saving, dis, boot, queue, cl,
                 requests, torn, ended>>

DisGoto(s, i, pc, n) == dis' = [dis EXCEPT ![s][i] = [pc |-> pc, n |-> n]]
DisEnds(s, i) == dis' = [dis EXCEPT ![s][i] = Quiet]
Reconnect(s, n) == [s |-> s, kind |-> "reconnect", n |-> n]
Check(s) == [s |-> s, kind |-> "check", n |-> 0]

FindDisconnected(s) ==
  /\ \E i \in Handlers :
       /\ dis[s][i].pc = "find"
       /\ IF deleted[s] THEN DisEnds(s, i)
          ELSE DisGoto(s, i, IF CanRetryReconnect(count[s]) THEN "increment" ELSE "mark", count[s])
  /\ UNCHANGED <<rows, aged, net, mk, timer, closing, saving, pend, boot, queue, cl, hist>>

WriteDisconnected(s) ==
  /\ \E i \in Handlers :
       \/ /\ dis[s][i].pc = "increment" /\ IncrementReconnectCount(s)
          /\ DisGoto(s, i, "publish", dis[s][i].n)
       \/ dis[s][i].pc = "mark" /\ MarkAsDisconnected(s) /\ DisEnds(s, i)
  /\ UNCHANGED <<aged, net, mk, timer, closing, saving, pend, boot, queue, cl, hist>>

PublishDisconnected(s) ==
  /\ \E i \in Handlers :
       /\ dis[s][i].pc = "publish"
       /\ jobs' = jobs \cup {Reconnect(s, dis[s][i].n + 1)}
       /\ DisEnds(s, i)
  /\ UNCHANGED <<rows, aged, net, mk, timer, closing, saving, pend, boot, hw, cl, hist>>

DisconnectedThrow(s) ==
  /\ Fault("db")
  /\ \E i \in Handlers : dis[s][i].pc # "off" /\ DisEnds(s, i)
  /\ UNCHANGED <<rows, aged, net, mk, timer, closing, saving, pend, boot, queue, cl,
                 requests, torn, ended>>

-----------------------------------------------------------------------------
(* SessionHealthWorker                                                     *)

\* Mutation: sessions that are already reconnecting are left alone.
StaleConnected(s) == ~deleted[s] /\ known[s] /\ status[s] = "CONNECTED"
Stale(s) == ~deleted[s] /\ known[s] /\ status[s] \in {"CONNECTED", "RECONNECTING"}

\* The cron finds a heartbeat older than two minutes and publishes a check,
\* unless one is waiting or running.
CheckStaleHeartbeats(s) ==
  /\ Stale(s)
  /\ ~(hw.s = s /\ hw.kind = "check")
  /\ jobs' = jobs \cup {Check(s)}
  /\ UNCHANGED <<rows, aged, net, mem, hw, cl, hist>>

Fetch(j) ==
  /\ hw = IdleWorker /\ j \in jobs
  /\ jobs' = jobs \ {j}
  /\ hw' = [pc |-> "load", s |-> j.s, kind |-> j.kind, n |-> j.n]
  /\ UNCHANGED <<rows, aged, net, mem, cl, hist>>

\* findById and what follows up to the next await.
Dropped(s) == deleted[s] \/ status[s] = "DISCONNECTED"

WLoad ==
  /\ hw.pc = "load"
  /\ Dropped(hw.s)
  /\ hw' = IdleWorker
  /\ UNCHANGED <<rows, aged, net, mem, jobs, cl, hist>>

WReconnect == LET s == hw.s IN
  /\ hw.pc = "load" /\ hw.kind = "reconnect" /\ ~Dropped(s)
  /\ IF ~CanRetryReconnect(hw.n - 1) THEN hw' = [hw EXCEPT !.pc = "mark"] /\ mk' = mk
     ELSE /\ Begin(s, "job")
          /\ hw' = IF Busy(s) THEN IdleWorker ELSE [hw EXCEPT !.pc = "creating"]
  /\ UNCHANGED <<rows, aged, net, timer, closing, saving, pend, dis, boot, jobs, cl, hist>>

WCheck == LET s == hw.s IN
  /\ hw.pc = "load" /\ hw.kind = "check" /\ ~Dropped(s)
  /\ hw' = IF conn[s] # NoSocket THEN IdleWorker
           ELSE [hw EXCEPT !.n = count[s],
                   !.pc = IF CanRetryReconnect(count[s]) THEN "increment" ELSE "mark"]
  /\ UNCHANGED <<rows, aged, net, mem, jobs, cl, hist>>

WWrite ==
  /\ \/ hw.pc = "increment" /\ IncrementReconnectCount(hw.s) /\ hw' = [hw EXCEPT !.pc = "publish"]
     \/ hw.pc = "mark" /\ MarkAsDisconnected(hw.s) /\ hw' = IdleWorker
  /\ UNCHANGED <<aged, net, mem, jobs, cl, hist>>

WPublish ==
  /\ hw.pc = "publish"
  /\ jobs' = jobs \cup {Reconnect(hw.s, hw.n + 1)}
  /\ hw' = IdleWorker
  /\ UNCHANGED <<rows, aged, net, mem, cl, hist>>

\* The job goes back to the queue.
Job == [s |-> hw.s, kind |-> hw.kind, n |-> IF hw.kind = "check" THEN 0 ELSE hw.n]
Unfinished == IF hw.pc = "idle" THEN jobs ELSE jobs \cup {Job}

WThrow ==
  /\ Fault("db")
  /\ hw.pc \in {"load", "increment", "publish", "mark"}
  /\ jobs' = Unfinished
  /\ hw' = IdleWorker
  /\ UNCHANGED <<rows, aged, net, mem, cl, requests, torn, ended>>

-----------------------------------------------------------------------------
(* The requests                                                            *)

Goto(c, pc) == cl' = [cl EXCEPT ![c].pc = pc]
Finish(c) == cl' = [cl EXCEPT ![c] = IdleClient]

\* The request and the row it reads decide what follows.
Ask(c, kind, s, pc) ==
  /\ cl[c].pc = "idle"
  /\ requests < MaxRequests
  /\ requests' = requests + 1
  /\ cl' = [cl EXCEPT ![c] = [pc |-> pc, kind |-> kind, s |-> s]]
  /\ ended' = [t \in Sessions |-> ended[t] \/ (t = s /\ kind \in {"initiate", "disconnect"})]
  /\ UNCHANGED <<rows, aged, net, mem, queue, faults, torn>>

\* InitiateSession: a session that is CONNECTING gives way, any other one is
\* a conflict and ends the request.
Initiate(c) ==
  /\ "initiate" \in Kinds
  /\ \/ Active = {} /\ Ask(c, "initiate", 0, "create")
     \/ \E s \in Newest : status[s] = "CONNECTING" /\ Ask(c, "initiate", s, "destroy")

RefreshQr(c, s) ==
  /\ "refresh" \in Kinds
  /\ status[s] = "CONNECTING" /\ ~deleted[s]
  /\ Ask(c, "refresh", s, "destroy")

ReconnectSession(c, s) ==
  /\ "reconnect" \in Kinds
  /\ status[s] = "DISCONNECTED" /\ ~deleted[s] /\ creds[s]
  /\ Ask(c, "reconnect", s, "reset")

Disconnect(c) ==
  /\ "disconnect" \in Kinds
  /\ \E s \in Newest : Ask(c, "disconnect", s, "logout")

\* destroyConnection without logout: the socket ends, and its handler, which
\* takes that for a lost connection, sets the timer.
End(s) ==
  IF conn[s] = NoSocket THEN UNCHANGED <<sock, conn, timer>>
  ELSE Closed(conn[s]) /\ timer' = [timer EXCEPT ![s] = @ + 1]

DestroyForNew(c) ==
  /\ cl[c].pc = "destroy" /\ cl[c].kind = "initiate"
  /\ End(cl[c].s)
  /\ Goto(c, "invalidate")
  /\ UNCHANGED <<rows, aged, linked, mk, closing, saving, pend, dis, boot, queue, hist>>

DestroyForCode(c) == LET s == cl[c].s IN
  /\ cl[c].pc = "destroy" /\ cl[c].kind = "refresh"
  /\ End(s)
  /\ IF mk[s] = {}
     THEN mk' = [mk EXCEPT ![s] = {Maker("refresh")}] /\ Goto(c, "creating")
     ELSE mk' = mk /\ Finish(c)
  /\ UNCHANGED <<rows, aged, linked, closing, saving, pend, dis, boot, queue, hist>>

Invalidate(c) ==
  /\ cl[c].pc = "invalidate"
  /\ DisconnectSession(cl[c].s)
  /\ Goto(c, "create")
  /\ UNCHANGED <<aged, net, mem, queue, hist>>

\* The new row.
Create(c) ==
  /\ cl[c].pc = "create"
  /\ LET s == Cardinality(Rows) + 1 IN
       /\ s \in Sessions
       /\ status' = [status EXCEPT ![s] = "CONNECTING"]
       /\ cl' = [cl EXCEPT ![c] = [@ EXCEPT !.pc = "start", !.s = s]]
  /\ UNCHANGED <<creds, known, count, deleted, aged, net, mem, queue, hist>>

\* The clean-up after the request's own createConnection has failed, whoever has
\* connected the session since.
Rollback(c) ==
  /\ cl[c].pc = "rollback"
  /\ SoftDelete(cl[c].s)
  /\ Finish(c)
  /\ UNCHANGED <<aged, net, mem, queue, hist>>

Reset(c) ==
  /\ cl[c].pc = "reset"
  /\ ResetReconnectCount(cl[c].s)
  /\ Goto(c, "start")
  /\ UNCHANGED <<aged, net, mem, queue, hist>>

\* A new session's request awaits its connection, a reconnect does not.
Start(c) == LET s == cl[c].s IN
  /\ cl[c].pc = "start"
  /\ Begin(s, IF cl[c].kind = "initiate" THEN "request" ELSE "manual")
  /\ IF cl[c].kind = "initiate" /\ ~Busy(s) THEN Goto(c, "creating") ELSE Finish(c)
  /\ UNCHANGED <<rows, aged, net, timer, closing, saving, pend, dis, boot, queue, hist>>

\* destroyConnection with logout.  Without a socket nothing is logged out or
\* cleared.  An open socket unlinks the device and ends; one that is not open
\* yet ends, or, having credentials, throws and lives on.
Logout(c) == LET s == cl[c].s  k == conn[s] IN
  /\ cl[c].pc = "logout"
  /\ \/ k = NoSocket /\ Goto(c, "end") /\ UNCHANGED <<linked, sock, conn, closing>>
     \/ /\ k # NoSocket
        /\ linked' = IF sock[k].state = "open" THEN [linked EXCEPT ![s] = FALSE] ELSE linked
        /\ closing' = [closing EXCEPT ![s] = TRUE]
        /\ Closed(k)
        /\ Goto(c, "forget")
     \/ /\ k # NoSocket /\ sock[k].state = "new" /\ sock[k].creds
        /\ Goto(c, "forget")
        /\ UNCHANGED <<linked, sock, conn, closing>>
  /\ UNCHANGED <<rows, aged, mk, timer, saving, pend, dis, boot, queue, hist>>

\* connections.delete, whatever is there by now.
Forget(c) == LET s == cl[c].s IN
  /\ cl[c].pc = "forget"
  /\ conn' = [conn EXCEPT ![s] = NoSocket]
  /\ torn' = [torn EXCEPT ![s] = @ \/ conn[s] # NoSocket]
  /\ Goto(c, "clear")
  /\ UNCHANGED <<rows, aged, linked, sock, mem, queue, requests, faults, ended>>

Clear(c) ==
  /\ cl[c].pc = "clear"
  /\ SetCreds(cl[c].s, FALSE)
  /\ Goto(c, "end")
  /\ UNCHANGED <<aged, net, mem, queue, hist>>

EndSession(c) ==
  /\ cl[c].pc = "end"
  /\ DisconnectSession(cl[c].s)
  /\ Finish(c)
  /\ UNCHANGED <<aged, net, mem, queue, hist>>

ClientThrow(c) ==
  /\ Fault("db")
  /\ cl[c].pc \in {"invalidate", "create", "rollback", "reset", "clear", "end"}
  /\ Finish(c)
  /\ UNCHANGED <<rows, aged, net, mem, queue, requests, torn, ended>>

-----------------------------------------------------------------------------
\* The process dies and starts again.
Crash ==
  /\ Fault("crash")
  /\ sock' = [k \in Sockets |-> Free]
  /\ conn' = [s \in Sessions |-> NoSocket]
  /\ mk' = [s \in Sessions |-> {}]
  /\ timer' = [s \in Sessions |-> 0]
  /\ closing' = [s \in Sessions |-> FALSE]
  /\ saving' = [s \in Sessions |-> FALSE]
  /\ pend' = [s \in Sessions |-> {}]
  /\ dis' = [s \in Sessions |-> [i \in Handlers |-> Quiet]]
  /\ boot' = FindAllActive
  /\ jobs' = Unfinished /\ hw' = IdleWorker
  /\ cl' = [c \in Clients |-> IdleClient]
  /\ torn' = [s \in Sessions |-> FALSE]
  /\ UNCHANGED <<rows, aged, linked, requests, ended>>

SessionStep(s) ==
  \/ LoadAuth(s) \/ MakeSocket(s) \/ Boot(s) \/ ClearAuthState(s) \/ SaveCreds(s) \/ Timer(s)
  \/ HandleConnected(s) \/ HandleLogout(s)
  \/ FindDisconnected(s) \/ WriteDisconnected(s) \/ PublishDisconnected(s)

WorkerStep == WLoad \/ WReconnect \/ WCheck \/ WWrite \/ WPublish

ClientStep(c) ==
  \/ DestroyForNew(c) \/ DestroyForCode(c) \/ Invalidate(c) \/ Create(c) \/ Rollback(c)
  \/ Reset(c) \/ Start(c) \/ Logout(c) \/ Forget(c) \/ Clear(c) \/ EndSession(c)

Next ==
  \/ \E s \in Sessions : SessionStep(s) \/ CheckStaleHeartbeats(s) \/ PhoneLogout(s)
  \/ \E s \in Sessions : FailCreate(s) \/ HandlerThrow(s) \/ DisconnectedThrow(s)
  \/ \E k \in Sockets : Scan(k) \/ Open(k) \/ Lose(k) \/ LoggedOut(k) \/ CredsUpdate(k)
  \/ \E j \in jobs : Fetch(j)
  \/ WorkerStep \/ WThrow
  \/ \E c \in Clients : Initiate(c) \/ Disconnect(c) \/ ClientStep(c) \/ ClientThrow(c)
  \/ \E c \in Clients, s \in Sessions : RefreshQr(c, s) \/ ReconnectSession(c, s)
  \/ Age \/ Crash

Spec == Init /\ [][Next]_vars

(* Fairness: the event loop runs every pending continuation and timer,     *)
(* pg-boss hands out every job, the cron fires every ten seconds, and      *)
(* WhatsApp lets a linked device in.  Nobody has to ask or scan anything.  *)
Fairness ==
  /\ \A s \in Sessions : WF_vars(SessionStep(s)) /\ WF_vars(CheckStaleHeartbeats(s))
  /\ \A s \in Sessions, n \in 1 .. MaxAttempts : SF_vars(Fetch(Reconnect(s, n)))
  /\ \A s \in Sessions : SF_vars(Fetch(Check(s)))
  /\ WF_vars(WorkerStep)
  /\ \A k \in Sockets : WF_vars(Open(k)) /\ WF_vars(LoggedOut(k))
  /\ \A c \in Clients : WF_vars(ClientStep(c))

FairSpec == Spec /\ Fairness
-----------------------------------------------------------------------------
Worker == [pc : {"load", "creating", "increment", "publish", "mark"}, s : Sessions,
           kind : {"reconnect", "check"}, n : Nat]
Client == [pc : {"destroy", "invalidate", "creating", "rollback", "reset", "start", "logout",
                 "forget", "clear", "end"},
           kind : RequestKinds, s : Sessions]
NewClient == [pc : {"create"}, kind : RequestKinds, s : Sessions \cup {0}]

TypeOK ==
  /\ status \in [Sessions -> Status]
  /\ creds \in [Sessions -> BOOLEAN] /\ known \in [Sessions -> BOOLEAN]
  /\ count \in [Sessions -> Nat] /\ deleted \in [Sessions -> BOOLEAN]
  /\ aged \in 0 .. MaxSessions
  /\ linked \in [Sessions -> BOOLEAN]
  /\ sock \in [Sockets -> [state : {"new", "open"}, s : Sessions, creds : BOOLEAN] \cup {Free}]
  /\ conn \in [Sessions -> Sockets \cup {NoSocket}]
  /\ mk \in [Sessions -> SUBSET [pc : {"auth", "version"}, creds : BOOLEAN,
                                 by : {"request", "refresh", "manual", "job", "timer", "boot"}]]
  /\ timer \in [Sessions -> Nat] /\ closing \in [Sessions -> BOOLEAN]
  /\ saving \in [Sessions -> BOOLEAN]
  /\ pend \in [Sessions -> SUBSET {"connected", "logout"}]
  /\ dis \in [Sessions ->
              [Handlers -> [pc : {"off", "find", "increment", "publish", "mark"}, n : Nat]]]
  /\ boot \in SUBSET Sessions
  /\ jobs \in SUBSET [s : Sessions, kind : {"reconnect", "check"}, n : Nat]
  /\ hw \in Worker \cup {IdleWorker}
  /\ cl \in [Clients -> Client \cup NewClient \cup {IdleClient}]
  /\ requests \in Nat /\ faults \in Nat
  /\ torn \in [Sessions -> BOOLEAN] /\ ended \in [Sessions -> BOOLEAN]

(* Requests, timers, jobs and the restart all ask for connections; still a *)
(* session never has two sockets, nor one the map does not know, unless a  *)
(* disconnect dropped a live one from the map.                             *)
NoGhost ==
  \A k \in Sockets : Live(k) /\ ~torn[sock[k].s] => conn[sock[k].s] = k

(* And a connection is made by one caller at a time and only while there   *)
(* is none: every other caller is told so.                                 *)
OneMaker ==
  \A s \in Sessions : \A x, y \in mk[s] : x = y /\ conn[s] = NoSocket

(* reconnectCount is read, compared and then incremented, by the worker    *)
(* and by the handler of every failed automatic reconnect: it passes the   *)
(* limit by no more than there were faults.                                *)
AttemptsBounded == \A s \in Sessions : count[s] <= MaxAttempts + faults

(* Only the user and the phone can cost a session its credentials, and so  *)
(* a new scan: no exhausted retry, lost connection, crash or late event    *)
(* does.  The one error that does is that of the request which created the *)
(* session: it deletes the row when its own createConnection has failed,   *)
(* even though a refreshed code may have been scanned meanwhile.           *)
RolledBack(s) ==
  \E c \in Clients : cl[c].pc = "rollback" /\ cl[c].s = s /\ cl'[c].pc = "idle" /\ deleted'[s]
KeepsCreds ==
  [][\A s \in Sessions : creds[s] /\ ~creds'[s] => ended'[s] \/ RolledBack(s)]_vars

(* A session WhatsApp still knows is brought back after lost connections,  *)
(* errors and crashes, or declared disconnected: none of timer, restart,   *)
(* cron and queue relies on another one that may have failed.              *)
Up(s) == conn[s] # NoSocket /\ sock[conn[s]].state = "open"
Lost(s) == status[s] \in {"CONNECTED", "RECONNECTING"} /\ known[s] /\ creds[s] /\ linked[s]
Recovers ==
  \A s \in Sessions : Lost(s) ~> Up(s) \/ ~Lost(s)

=============================================================================
