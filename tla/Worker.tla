------------------------------- MODULE Worker -------------------------------
(***************************************************************************)
(* The thread of a QXL device (red-worker.cpp) and the calls of the        *)
(* emulator that reach it through its dispatcher (red-qxl.cpp).            *)
(*                                                                         *)
(* The guest puts commands on two rings and is asked for a notification    *)
(* only after the worker has polled an empty ring in vain; the vCPU then   *)
(* calls spice_qxl_wakeup.  The worker takes commands while the pipes of   *)
(* the clients are short, and a GMainLoop source decides when it looks at  *)
(* the rings again.  Calls of the emulator are messages: some wait for an  *)
(* acknowledgement, the asynchronous ones are answered through a cookie.   *)
(***************************************************************************)
EXTENDS Integers, Sequences, FiniteSets

CONSTANTS RingSize,     \* slots of a command ring
          MaxPipe,      \* MAX_PIPE_SIZE: longest pipe for which commands are taken
          Cookies,      \* cookies of asynchronous calls
          MaxActs,      \* bound on what the emulator and the guest do
          NoCookie

ASSUME WorkerAssumption == RingSize \in Nat /\ MaxPipe \in Nat /\ NoCookie \notin Cookies

VARIABLES wk,           \* the worker, the rings and the pipes of its clients
          msgs,         \* messages in the dispatcher's socket pair
          pending,      \* the pending bits of QXLState
          ack,          \* call whose sender waits for the acknowledgement
          active,       \* QXLState.primary_active
          owed,         \* asynchronous calls not completed, by cookie
          vm,           \* what the emulator made of the virtual machine
          kick,         \* the guest consumed a notification and will call wakeup
          due,          \* sources of the main loop that are ready
          acts

workerVars == <<wk, msgs, pending, ack, active, owed, vm, kick, due, acts>>

Rings == {"cursor", "display"}
Retries == 1                    \* CMD_RING_POLL_RETRIES
TriesCap == Retries + 1         \* larger counts behave alike
Now == 0                        \* event_timeout: 0, CMD_RING_POLL_TIMEOUT and
Poll == 1                       \* INF_EVENT_WAIT, in their order
Inf == 2

WorkerInit ==
    /\ wk = [running |-> FALSE, open |-> TRUE, primary |-> FALSE,
             ring |-> [r \in Rings |-> 0], notify |-> [r \in Rings |-> FALSE],
             tries |-> [r \in Rings |-> 0], pipe |-> [r \in Rings |-> 0],
             timeout |-> Inf, wasBlocked |-> FALSE]
    /\ msgs = <<>> /\ pending = {} /\ ack = "none" /\ active = FALSE
    /\ owed = [c \in Cookies |-> 0]
    /\ vm = "stopped" /\ kick = FALSE /\ due = {} /\ acts = 0

-----------------------------------------------------------------------------
(* Taking commands. *)

Lower(a, b) == IF a < b THEN a ELSE b

Blocked(w) == \E r \in Rings : w.pipe[r] > MaxPipe

\* k commands of ring r taken, of which the clients got items in their pipes
Taken(w, r, k, items) ==
    [w EXCEPT !.ring[r] = @ - k, !.pipe[r] = @ + items,
              !.tries[r] = IF k > 0 THEN 0 ELSE @]

\* as FoundEmpty, without the request for a notification
FoundEmptyTwice(w, r) ==
    [w EXCEPT !.timeout = IF w.tries[r] < Retries THEN Lower(@, Poll) ELSE @,
              !.tries[r] = Lower(@ + 1, TriesCap)]

\* The ring was found empty: poll once more soon, then ask for a notification,
\* which the device grants as the ring is empty.
FoundEmpty(w, r) ==
    [w EXCEPT !.timeout = IF w.tries[r] < Retries THEN Lower(@, Poll) ELSE @,
              !.notify[r] = @ \/ w.tries[r] = Retries,
              !.tries[r] = Lower(@ + 1, TriesCap)]

Result(w, n, empty) == [w |-> w, n |-> n, empty |-> empty]

\* The loop common to both rings; a command puts at most one item in a pipe.
ProcessLoop(w, r) ==
    LET Outcome == {o \in (0 .. w.ring[r]) \X (0 .. w.ring[r]) : o[2] <= o[1]}
        Full == {o \in Outcome : \/ w.pipe[r] > MaxPipe /\ o = <<0, 0>>
                                 \/ w.pipe[r] + o[2] = MaxPipe + 1}
        Empty == {o \in Outcome : o[1] = w.ring[r] /\ w.pipe[r] + o[2] <= MaxPipe}
    IN  {Result([Taken(w, r, o[1], o[2]) EXCEPT !.wasBlocked = TRUE], o[1], FALSE) : o \in Full}
        \cup {Result(FoundEmpty(Taken(w, r, o[1], o[2]), r), o[1], TRUE) : o \in Empty}

RedProcessCursor(w) ==
    IF ~w.running THEN {Result(w, 0, TRUE)} ELSE ProcessLoop(w, "cursor")

\* The display ring is also left when all clients are blocked or after 10 ms.
RedProcessDisplay(w) ==
    IF ~w.running THEN {Result(w, 0, TRUE)}
    ELSE ProcessLoop(w, "display")
         \cup {Result([Taken(w, "display", o[1], o[2]) EXCEPT !.timeout = Now], o[1], FALSE) :
                 o \in {x \in (1 .. w.ring["display"]) \X (0 .. w.ring["display"]) :
                          x[2] <= x[1] /\ w.pipe["display"] + x[2] <= MaxPipe + 1}}

\* the ring is emptied, which leaves a pipe of p items, a timeout and a flag
Flushed(w, r, p, t, b) ==
    FoundEmpty([Taken(w, r, w.ring[r], 0) EXCEPT
                   !.pipe[r] = p, !.timeout = t, !.wasBlocked = b], r)

\* flush_commands: until the ring is empty; a pipe that stays long is sent,
\* or its client is disconnected after COMMON_CLIENT_TIMEOUT.
FlushCommands(w, r) ==
    IF ~w.running THEN {w}
    ELSE {Flushed(w, r, p, t, b) :
            p \in 0 .. Lower(MaxPipe, w.pipe[r] + w.ring[r]),
            t \in {w.timeout} \cup (IF r = "display" /\ w.ring[r] > 0 THEN {Now} ELSE {}),
            b \in {w.wasBlocked} \cup (IF w.pipe[r] + w.ring[r] > MaxPipe THEN {TRUE} ELSE {})}

FlushAllQxlCommands(w) ==
    UNION {FlushCommands(u, "cursor") : u \in FlushCommands(w, "display")}

-----------------------------------------------------------------------------
(* The handlers of the dispatcher's messages: the states each may leave.     *)

\* what a handler itself tells the clients, none or some of them connected
Told(w) == {[w EXCEPT !.pipe = p] :
              p \in {q \in [Rings -> 0 .. MaxPipe + 1] :
                        \A r \in Rings : q[r] \in {w.pipe[r], w.pipe[r] + 1}}}

HandleUpdate(w) == IF w.running THEN FlushCommands(w, "display") ELSE {w}

HandleDestroySurfaceWait(w) == FlushAllQxlCommands(w)

HandleDestroySurfaces(w) ==
    UNION {Told([u EXCEPT !.primary = FALSE]) : u \in FlushAllQxlCommands(w)}

\* a request that fails the validation creates nothing
DevCreatePrimarySurface(w) == {w} \cup Told([w EXCEPT !.primary = TRUE])

DestroyPrimarySurface(w) ==
    IF ~w.primary THEN {w}
    ELSE UNION {Told([u EXCEPT !.primary = FALSE]) : u \in FlushAllQxlCommands(w)}

HandleFlushSurfaces(w) == FlushAllQxlCommands(w)

\* the surfaces are flushed and everything in the pipes is sent, or the client
\* is disconnected
HandleStop(w) ==
    IF ~w.running THEN {w}
    ELSE {[w EXCEPT !.running = FALSE, !.pipe = [r \in Rings |-> 0]]}

HandleStart(w) ==
    IF w.running THEN {w} ELSE {[w EXCEPT !.running = TRUE, !.timeout = Now]}

\* what draining the display ring may leave, before the last call
DrainedTo(w, k, p, t) ==
    [Taken(w, "display", k, 0) EXCEPT !.pipe["display"] = p, !.timeout = t]

Drained(w) ==
    {w} \cup {DrainedTo(w, k, p, t) :
                k \in 1 .. w.ring["display"], p \in 0 .. MaxPipe + 1, t \in {w.timeout, Now}}

\* the ring is drained until a call takes nothing, then memory is released
HandleOom(w) ==
    IF ~w.running THEN {w}
    ELSE {o.w : o \in {res \in UNION {RedProcessDisplay(u) : u \in Drained(w)} : res.n = 0}}

\* the saved commands are given to the channels; the cursor disappears
HandleLoadvm(w) == Told(w)
HandleResetCursor(w) == Told(w)

\* a configuration that cannot be read from guest memory is not pushed
HandleMonitorsConfig(w) == {w} \cup Told(w)

HandleWakeup(w) == {w}

\* compression, streaming, mouse mode, memory slots, the driver's unload
HandleSetting(w) == {w}

HandleClose(w) == {[w EXCEPT !.open = FALSE]}

Handled(w, kind) ==
    CASE kind \in {"update", "update_async"} -> HandleUpdate(w)
      [] kind = "destroy_surface_wait" -> HandleDestroySurfaceWait(w)
      [] kind \in {"destroy_surfaces", "destroy_surfaces_async"} -> HandleDestroySurfaces(w)
      [] kind \in {"create_primary", "create_primary_async"} -> DevCreatePrimarySurface(w)
      [] kind \in {"destroy_primary", "destroy_primary_async"} -> DestroyPrimarySurface(w)
      [] kind = "flush_surfaces_async" -> HandleFlushSurfaces(w)
      [] kind = "stop" -> HandleStop(w)
      [] kind = "start" -> HandleStart(w)
      [] kind = "oom" -> HandleOom(w)
      [] kind = "close" -> HandleClose(w)
      [] kind = "loadvm" -> HandleLoadvm(w)
      [] kind = "reset_cursor" -> HandleResetCursor(w)
      [] kind = "monitors_config_async" -> HandleMonitorsConfig(w)
      [] kind = "wakeup" -> HandleWakeup(w)
      [] kind = "setting" -> HandleSetting(w)

\* the calls that wait, and the asynchronous ones
AckKinds == {"update", "destroy_surfaces", "destroy_primary", "create_primary",
             "stop", "loadvm", "reset_cursor", "destroy_surface_wait"}
AsyncKinds == {"update_async", "destroy_surfaces_async", "destroy_primary_async",
               "create_primary_async", "flush_surfaces_async", "monitors_config_async"}

-----------------------------------------------------------------------------
(* The emulator: the main thread and the vCPUs.  A call that waits holds the *)
(* dispatcher's lock, so nobody else can send.                               *)

May(condition) == wk.open /\ ack = "none" /\ acts < MaxActs /\ condition

Message(kind, cookie) == [kind |-> kind, cookie |-> cookie]

\* a ring the worker wants to hear of makes the vCPU call spice_qxl_wakeup
GuestPush(r) ==
    /\ vm = "running" /\ wk.open /\ acts < MaxActs /\ acts' = acts + 1
    /\ wk.ring[r] < RingSize
    /\ wk' = [wk EXCEPT !.ring[r] = @ + 1, !.notify[r] = FALSE]
    /\ kick' = (kick \/ wk.notify[r])
    /\ UNCHANGED <<msgs, pending, ack, active, owed, vm, due>>

SetPending(bit, kind) ==
    IF bit \in pending THEN UNCHANGED <<pending, msgs>>
    ELSE pending' = pending \cup {bit} /\ msgs' = Append(msgs, Message(kind, NoCookie))

SpiceQxlWakeup ==
    /\ kick /\ ack = "none"
    /\ kick' = FALSE
    /\ SetPending("WAKEUP", "wakeup")
    /\ UNCHANGED <<wk, ack, active, owed, vm, due, acts>>

SpiceQxlOom ==
    /\ May(vm = "running") /\ acts' = acts + 1
    /\ SetPending("OOM", "oom")
    /\ UNCHANGED <<wk, ack, active, owed, vm, kick, due>>

\* the guest's I/O; the emulator has one asynchronous call at a time per cookie
AsyncCall(kind, c) ==
    /\ May(vm = "running" /\ owed[c] = 0) /\ acts' = acts + 1
    /\ owed' = [owed EXCEPT ![c] = 1]
    /\ msgs' = Append(msgs, Message(kind, c))
    /\ UNCHANGED <<wk, pending, ack, active, vm, kick, due>>

SyncCall(kind) ==
    /\ May(vm = "running" \/ kind \in {"loadvm", "create_primary", "destroy_surfaces"})
    /\ kind # "stop"
    /\ acts' = acts + 1
    /\ msgs' = Append(msgs, Message(kind, NoCookie)) /\ ack' = kind
    /\ UNCHANGED <<wk, pending, active, owed, vm, kick, due>>

SettingCall ==
    /\ May(TRUE) /\ acts' = acts + 1
    /\ msgs' = Append(msgs, Message("setting", NoCookie))
    /\ UNCHANGED <<wk, pending, ack, active, owed, vm, kick, due>>

\* the vCPUs run from the moment the start was sent, and are stopped, their
\* wakeup sent, before the worker is
VmStart ==
    /\ May(vm = "stopped") /\ acts' = acts + 1
    /\ vm' = "running"
    /\ msgs' = Append(msgs, Message("start", NoCookie))
    /\ UNCHANGED <<wk, pending, ack, active, owed, kick, due>>

VmStop ==
    /\ May(vm = "running" /\ ~kick) /\ acts' = acts + 1
    /\ vm' = "stopped"
    /\ msgs' = Append(msgs, Message("stop", NoCookie)) /\ ack' = "stop"
    /\ UNCHANGED <<wk, pending, active, owed, kick, due>>

RedQxlDestroy ==
    /\ May(vm = "stopped") /\ acts' = MaxActs
    /\ msgs' = Append(msgs, Message("close", NoCookie))
    /\ UNCHANGED <<wk, pending, ack, active, owed, vm, kick, due>>

-----------------------------------------------------------------------------
(* The main loop of the worker's thread. *)

\* worker_source_prepare, and worker_source_check once something woke the loop
Prepared == wk.timeout = Now \/ (wk.wasBlocked /\ ~Blocked(wk))

Ready(w) == (IF msgs # <<>> THEN {"watch"} ELSE {})
            \cup (IF Prepared \/ w.running THEN {"source"} ELSE {})

\* ready at once, a message, or the timeout of an earlier poll
LoopWakes ==
    /\ wk.open /\ due = {}
    /\ msgs # <<>> \/ Prepared \/ wk.timeout = Poll
    /\ due' = Ready(wk) /\ due' # {}
    /\ UNCHANGED <<wk, msgs, pending, ack, active, owed, vm, kick, acts>>

\* a client's socket took an item of its pipe
ClientTakes(r) ==
    /\ wk.open /\ due = {} /\ wk.pipe[r] > 0
    /\ LET w == [wk EXCEPT !.pipe[r] = @ - 1]
       IN  wk' = w /\ due' = Ready(w)
    /\ UNCHANGED <<msgs, pending, ack, active, owed, vm, kick, acts>>

\* the handler, the completion it calls, and the acknowledgement
HandleSingleRead ==
    /\ "watch" \in due /\ msgs # <<>>
    /\ LET m == Head(msgs)
       IN  /\ wk' \in Handled(wk, m.kind)
           /\ pending' = CASE m.kind = "wakeup" -> pending \ {"WAKEUP"}
                           [] m.kind = "oom" /\ wk.running -> pending \ {"OOM"}
                           [] OTHER -> pending
           /\ active' = CASE m.kind \in {"create_primary", "create_primary_async"} -> TRUE
                          [] m.kind \in {"destroy_primary", "destroy_primary_async"} -> FALSE
                          [] OTHER -> active
           /\ owed' = IF m.cookie = NoCookie \/ (m.kind = "update_async" /\ ~wk.running)
                      THEN owed ELSE [owed EXCEPT ![m.cookie] = @ - 1]
           /\ ack' = IF m.kind = ack THEN "none" ELSE ack
    /\ msgs' = Tail(msgs)
    /\ due' = IF Len(msgs) = 1 THEN due \ {"watch"} ELSE due
    /\ UNCHANGED <<vm, kick, acts>>

WorkerSourceDispatch ==
    /\ "source" \in due /\ "watch" \notin due
    /\ due' = due \ {"source"}
    /\ \E c \in RedProcessCursor([wk EXCEPT !.timeout = Inf, !.wasBlocked = FALSE]) :
         \E d \in RedProcessDisplay(c.w) : wk' = d.w
    /\ UNCHANGED <<msgs, pending, ack, active, owed, vm, kick, acts>>

WorkerNext ==
    \/ \E r \in Rings : GuestPush(r) \/ ClientTakes(r)
    \/ SpiceQxlWakeup \/ SpiceQxlOom \/ VmStart \/ VmStop \/ RedQxlDestroy \/ SettingCall
    \/ \E k \in AsyncKinds, c \in Cookies : AsyncCall(k, c)
    \/ \E k \in AckKinds : SyncCall(k)
    \/ LoopWakes \/ HandleSingleRead \/ WorkerSourceDispatch

WorkerSpec == WorkerInit /\ [][WorkerNext]_workerVars

-----------------------------------------------------------------------------
\* While the machine runs, a command on a ring that no full pipe holds back is
\* never forgotten: the loop is due, has a timeout, will unblock, has a message
\* to read, or the vCPU is about to send one (red_process_display,
\* worker_source_prepare, spice_qxl_wakeup).
CommandsNoticed ==
    \A r \in Rings :
        wk.open /\ wk.running /\ wk.ring[r] > 0 =>
            \/ due # {} \/ wk.timeout # Inf \/ wk.wasBlocked
            \/ msgs # <<>> \/ kick

Queued(kinds) == {i \in DOMAIN msgs : msgs[i].kind \in kinds}

\* Every queued message is accounted for: the bit of spice_qxl_wakeup or
\* spice_qxl_oom is set exactly while its message is on the way, an asynchronous
\* call owes one completion exactly while its message is, and a sender waits
\* exactly while a message that will be acknowledged is.
MessagesOwed ==
    /\ Cardinality(Queued({"wakeup"})) = (IF "WAKEUP" \in pending THEN 1 ELSE 0)
    /\ Cardinality(Queued({"oom"})) = (IF "OOM" \in pending THEN 1 ELSE 0)
    /\ Cardinality(Queued(AckKinds)) = (IF ack = "none" THEN 0 ELSE 1)
    /\ \A c \in Cookies : Cardinality({i \in DOMAIN msgs : msgs[i].cookie = c}) = owed[c]

\* The worker's loop loses nothing: no command on a ring is forgotten, and every
\* message, completion and acknowledgement owed is still to come, exactly once.
WorkerLosesNothing == CommandsNoticed /\ MessagesOwed
=============================================================================
