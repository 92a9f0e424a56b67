--------------------------- MODULE MigrationSource ---------------------------
(***************************************************************************)
(* The source side of a client migration: spice_server_migrate_connect and *)
(* spice_server_migrate_end (reds.cpp), the main channel's count of the    *)
(* clients it waits for (main-channel.cpp) and their state                 *)
(* (main-channel-client.cpp), the migration timer, and the two callbacks   *)
(* the emulator waits for.  It all runs on the main thread; a main channel *)
(* that is disconnected reaches reds_client_disconnect by a message to it. *)
(***************************************************************************)
EXTENDS Naturals, Sequences, FiniteSets

CONSTANTS
  Clients,
  Modes,      \* of "single", "seamless" and "multi": how the server is configured
  Semi,       \* clients with SPICE_MAIN_CAP_SEMI_SEAMLESS_MIGRATE
  MaxMig      \* bound: calls of spice_server_migrate_connect

ASSUME MigrationAssumption ==
  /\ IsFiniteSet(Clients) /\ Semi \subseteq Clients /\ Modes \subseteq {"single", "seamless", "multi"}

VARIABLES
  mode,         \* the configuration, which does not change
  link,         \* "no" yet, "up", "closing" (disconnected, not yet removed), "gone"
  targets,      \* mig_target_clients: arrived by a migration, channels not linked
  atTarget,     \* during_target_migrate: migration to this server not complete
  completing,   \* seamless_migrate_dst_complete is on its way to the main thread
  inProgress, waitConnect, waitDisconnect, waitList, timer,  \* mig_* of RedsState
  expect, srcSeamless,         \* expect_migrate, src_do_seamless_migrate
  num,                         \* num_clients_mig_wait
  waitC, connectOk, waitPrev,  \* clients with mig_wait_connect, mig_connect_ok, mig_wait_prev_complete
  begins,       \* MIGRATE_BEGINs a client has not answered: the number of the call of each
  mig,          \* calls of spice_server_migrate_connect
  owedConnect, owedEnd,  \* callbacks the emulator waits for
  stray         \* a callback came that the emulator did not wait for

arrival  == <<targets, atTarget, completing>>
redsVars == <<inProgress, waitConnect, waitDisconnect, waitList, timer>>
mccVars  == <<waitC, connectOk, waitPrev, begins>>
emulator == <<owedConnect, owedEnd, stray>>
vars == <<mode, link, arrival, redsVars, expect, srcSeamless, num, mccVars, mig, emulator>>

\* allow_multiple_clients; seamless_migration_enabled, which spice_server_set_seamless_migration
\* refuses with several clients, and the clients can do it.
Multi    == mode = "multi"
Seamless == mode = "seamless"

Init ==
  /\ mode \in Modes
  /\ link = [c \in Clients |-> "no"] /\ targets = {} /\ atTarget = {} /\ completing = {}
  /\ inProgress = FALSE /\ waitConnect = FALSE /\ waitDisconnect = FALSE /\ waitList = {} /\ timer = FALSE
  /\ expect = FALSE /\ srcSeamless = FALSE /\ num = 0
  /\ waitC = {} /\ connectOk = {} /\ waitPrev = {} /\ begins = [c \in Clients |-> <<>>]
  /\ mig = 0 /\ owedConnect = FALSE /\ owedEnd = FALSE /\ stray = FALSE

Up    == {c \in Clients : link[c] = "up"}                 \* clients of the main channel
Known == {c \in Clients : link[c] \in {"up", "closing"}}  \* reds->clients

-----------------------------------------------------------------------------
(* The end of a migration, and of a client *)

\* The body of reds_mig_cleanup, with the callback it owes.
EndKeepFlags ==
  /\ timer' = FALSE /\ waitList' = {}
  /\ owedConnect' = (owedConnect /\ ~waitConnect)
  /\ owedEnd' = (owedEnd /\ (waitConnect \/ ~waitDisconnect))
  /\ stray' = (stray \/ IF waitConnect THEN ~owedConnect ELSE waitDisconnect /\ ~owedEnd)
  /\ UNCHANGED <<inProgress, waitConnect, waitDisconnect>>

EndMigration ==
  /\ inProgress' = FALSE /\ waitConnect' = FALSE /\ waitDisconnect' = FALSE
  /\ timer' = FALSE /\ waitList' = {}
  /\ owedConnect' = (owedConnect /\ ~waitConnect)
  /\ owedEnd' = (owedEnd /\ (waitConnect \/ ~waitDisconnect))
  /\ stray' = (stray \/ IF waitConnect THEN ~owedConnect ELSE waitDisconnect /\ ~owedEnd)

\* reds_mig_cleanup.
Cleanup == IF inProgress THEN EndMigration ELSE UNCHANGED <<redsVars, emulator>>

\* RedClient::destroy, as far as reds and the main channel see it.
Destroy(gone) ==
  /\ link' = [c \in Clients |-> IF c \in gone THEN "gone" ELSE link[c]]
  /\ targets' = targets \ gone /\ atTarget' = atTarget \ gone /\ completing' = completing \ gone
  /\ begins' = [c \in Clients |-> IF c \in gone THEN <<>> ELSE begins[c]]

\* reds_client_disconnect: the client leaves the list of those waited for, with
\* reds_mig_remove_wait_disconnect_client; the last one there, or of all, ends the migration.
ClientDisconnect(c) ==
  /\ Destroy({c})
  /\ waitC' = waitC \ {c} /\ connectOk' = connectOk \ {c} /\ waitPrev' = waitPrev \ {c}
  /\ IF (waitDisconnect /\ waitList \subseteq {c}) \/ Known = {c}
     THEN Cleanup
     ELSE /\ waitList' = IF waitDisconnect THEN waitList \ {c} ELSE waitList
          /\ UNCHANGED <<inProgress, waitConnect, waitDisconnect, timer, emulator>>

\* reds_disconnect: every client, and then reds_mig_cleanup whatever is left.
Disconnect ==
  /\ Destroy(Known)
  /\ waitC' = waitC \ Known /\ connectOk' = connectOk \ Known /\ waitPrev' = waitPrev \ Known
  /\ Cleanup

-----------------------------------------------------------------------------
(* Clients come and go *)

\* reds_handle_main_link: a new client, by itself or (target) by a migration to this server.
\* With one client allowed the earlier one is disconnected; then the mig_* flags are cleared.
MainLink(c, target) ==
  LET others == IF Multi THEN {} ELSE Known
      Add(s) == (s \ others) \cup (IF target THEN {c} ELSE {})
  IN  /\ link[c] = "no"
      /\ link' = [d \in Clients |-> IF d = c THEN "up" ELSE IF d \in others THEN "gone" ELSE link[d]]
      /\ targets' = Add(targets) /\ atTarget' = Add(atTarget) /\ completing' = completing \ others
      /\ waitC' = waitC \ others /\ connectOk' = connectOk \ others /\ waitPrev' = waitPrev \ others
      /\ begins' = [d \in Clients |-> IF d \in others THEN <<>> ELSE begins[d]]
      /\ IF Multi
         THEN /\ inProgress' = FALSE /\ waitConnect' = FALSE /\ waitDisconnect' = FALSE
              /\ UNCHANGED <<waitList, timer, emulator>>
         ELSE Cleanup
      /\ UNCHANGED <<mode, expect, srcSeamless, num, mig>>

\* RedChannelClient::disconnect of the main channel, and the message it sends.  The main channel
\* no longer reaches the client, so what it knew of it is dropped here.
MainDisconnect(c) ==
  /\ link[c] = "up" /\ link' = [link EXCEPT ![c] = "closing"]
  /\ waitC' = waitC \ {c} /\ connectOk' = connectOk \ {c} /\ waitPrev' = waitPrev \ {c}
  /\ begins' = [begins EXCEPT ![c] = <<>>]
  /\ UNCHANGED <<mode, arrival, redsVars, expect, srcSeamless, num, mig, emulator>>

\* main_dispatcher_handle_client_disconnect.
HandleDisconnect(c) ==
  /\ link[c] = "closing" /\ ClientDisconnect(c)
  /\ UNCHANGED <<mode, expect, srcSeamless, num, mig>>

-----------------------------------------------------------------------------
(* A client that came here by a migration finishes it *)

\* reds_on_migrate_dst_set_seamless: the channels are linked at once.
DstDoSeamless(c) ==
  /\ ~Multi /\ c \in Up \cap targets /\ targets' = targets \ {c}
  /\ UNCHANGED <<mode, link, atTarget, completing, redsVars, expect, srcSeamless, num, mccVars, mig, emulator>>

\* RedClient::seamless_migration_done_for_channel, for the last channel.
SeamlessDone(c) ==
  /\ c \in (Known \cap atTarget) \ targets
  /\ atTarget' = atTarget \ {c} /\ completing' = completing \cup {c}
  /\ UNCHANGED <<mode, link, targets, redsVars, expect, srcSeamless, num, mccVars, mig, emulator>>

\* MainChannelClient::migrate_dst_complete.
DstComplete(c) ==
  /\ waitPrev' = waitPrev \ {c}
  /\ IF c \in waitPrev
     THEN waitC' = waitC \cup {c} /\ begins' = [begins EXCEPT ![c] = Append(@, mig)]
     ELSE UNCHANGED <<waitC, begins>>

\* reds_on_client_seamless_migrate_complete.
SeamlessComplete(c) ==
  /\ c \in completing /\ completing' = completing \ {c}
  /\ IF c \in Up THEN DstComplete(c) ELSE UNCHANGED <<waitC, waitPrev, begins>>
  /\ UNCHANGED <<mode, link, targets, atTarget, redsVars, expect, srcSeamless, num, connectOk, mig, emulator>>

\* MainChannelClient::handle_migrate_end, RedClient::semi_seamless_migrate_complete.
SemiSeamlessComplete(c) ==
  /\ c \in Up \cap Semi \cap targets
  /\ targets' = targets \ {c} /\ atTarget' = atTarget \ {c}
  /\ DstComplete(c)
  /\ UNCHANGED <<mode, link, completing, redsVars, expect, srcSeamless, num, connectOk, mig, emulator>>

-----------------------------------------------------------------------------
(* The emulator's calls *)

\* MainChannel::migrate_src_complete; what it sends, END or CANCEL or SWITCH_HOST, is left out.
SrcComplete == waitC' = waitC \ Up /\ connectOk' = connectOk \ Up

\* spice_server_migrate_connect, MainChannel::migrate_connect, reds_mig_started.  A client that
\* has not completed its own migration is asked when it has.
Asked == Up \cap Semi

ConnectNoTimer == inProgress' = TRUE /\ waitConnect' = TRUE /\ UNCHANGED <<waitDisconnect, waitList, timer>>

Started == inProgress' = TRUE /\ waitConnect' = TRUE /\ timer' = TRUE /\ UNCHANGED <<waitDisconnect, waitList>>

\* num_clients_mig_wait: all that were asked, those that have to complete first included.
CountNow == Cardinality(Asked \ atTarget)

Count == Cardinality(Asked)

MigrateConnect ==
  LET dropped == IF expect THEN Up ELSE {}
  IN  /\ ~owedConnect /\ ~owedEnd /\ mig < MaxMig
      /\ mig' = mig + 1 /\ expect' = TRUE
      /\ num' = Count
      /\ waitC' = (waitC \ dropped) \cup (Asked \ atTarget)
      /\ connectOk' = connectOk \ (dropped \cup Asked)
      /\ waitPrev' = waitPrev \cup (Asked \cap atTarget)
      /\ begins' = [c \in Clients |-> IF c \in Asked \ atTarget THEN Append(begins[c], mig + 1) ELSE begins[c]]
      /\ IF Asked # {} THEN Started ELSE UNCHANGED redsVars
      /\ owedConnect' = (Asked # {})
      /\ UNCHANGED <<mode, link, arrival, srcSeamless, owedEnd, stray>>

\* reds_mig_fill_wait_disconnect.  A completed migration supersedes the answer to its
\* migrate_connect.
FillWaitDisconnect ==
  /\ inProgress' = TRUE /\ waitConnect' = FALSE /\ waitDisconnect' = TRUE /\ timer' = TRUE
  /\ waitList' = waitList \cup Known
  /\ owedConnect' = FALSE /\ owedEnd' = TRUE /\ UNCHANGED stray

\* reds_mig_finished: mig_inprogress is set first, so reds_mig_cleanup always has its effect.
Finished(completed) ==
  /\ IF srcSeamless /\ completed THEN UNCHANGED <<waitC, connectOk>> ELSE SrcComplete
  /\ IF completed THEN FillWaitDisconnect ELSE EndMigration

\* spice_server_migrate_end; its own call of migrate_end_complete leaves nothing owed.
MigrateEnd(completed) ==
  /\ ~owedEnd
  /\ IF completed /\ ~expect /\ Known # {}
     THEN Disconnect /\ UNCHANGED expect
     ELSE /\ expect' = FALSE /\ UNCHANGED <<link, arrival, waitPrev, begins>>
          /\ IF Up = {} THEN UNCHANGED <<redsVars, waitC, connectOk, emulator>> ELSE Finished(completed)
  /\ UNCHANGED <<mode, srcSeamless, num, mig>>

-----------------------------------------------------------------------------
(* The answer of a client, and the timer *)

\* MainChannelClient::handle_migrate_connected, MainChannel::on_migrate_connected and
\* reds_on_main_migrate_connected.  The client answers the BEGINs in order, and may leave out
\* some of them; an answer that is not waited for has no effect here.  An answer takes a round
\* trip, in which the main loop has read its own dispatcher: completing clients come first.
Answer(c, i, ok, seamless) ==
  /\ c \in Up \ completing /\ i \in DOMAIN begins[c]
  /\ begins' = [begins EXCEPT ![c] = SubSeq(@, i + 1, Len(@))]
  /\ IF c \in waitC
     THEN /\ waitC' = waitC \ {c}
          /\ connectOk' = IF ok THEN connectOk \cup {c} ELSE connectOk \ {c}
          /\ num' = IF num = 0 THEN 0 ELSE num - 1
          /\ IF num = 1
             THEN /\ srcSeamless' = (seamless /\ ok)
                  /\ IF waitConnect THEN Cleanup ELSE UNCHANGED <<redsVars, emulator>>
             ELSE UNCHANGED <<srcSeamless, redsVars, emulator>>
     ELSE UNCHANGED <<waitC, connectOk, num, srcSeamless, redsVars, emulator>>
  /\ UNCHANGED <<mode, link, arrival, expect, waitPrev, mig>>

\* migrate_timeout: stop waiting for the answers, or for the clients to leave.
MigrateTimeout ==
  /\ timer
  /\ IF waitConnect
     THEN /\ waitC' = {} /\ connectOk' = connectOk \ (waitC \cup targets) /\ waitPrev' = {}
          /\ Destroy(targets)
          /\ num' = 0 /\ Cleanup
     ELSE Disconnect /\ UNCHANGED num
  /\ UNCHANGED <<mode, expect, srcSeamless, mig>>

Next ==
  \/ \E c \in Clients :
       \/ \E target \in BOOLEAN : MainLink(c, target)
       \/ MainDisconnect(c)
       \/ HandleDisconnect(c)
       \/ DstDoSeamless(c)
       \/ SeamlessDone(c)
       \/ SeamlessComplete(c)
       \/ SemiSeamlessComplete(c)
       \/ \E i \in 1..MaxMig, ok \in BOOLEAN : Answer(c, i, ok, Seamless)
  \/ MigrateConnect
  \/ \E completed \in BOOLEAN : MigrateEnd(completed)
  \/ MigrateTimeout

Spec == Init /\ [][Next]_vars

\* The main loop runs its timers.
FairSpec == Spec /\ WF_vars(MigrateTimeout)

-----------------------------------------------------------------------------
(* Properties *)

\* The type of every variable; the count of answers is never below zero or above the clients.
TypeOK ==
  /\ link \in [Clients -> {"no", "up", "closing", "gone"}]
  /\ \A s \in {targets, atTarget, completing, waitList, waitC, connectOk, waitPrev} : s \subseteq Clients
  /\ \A b \in {inProgress, waitConnect, waitDisconnect, timer, expect, srcSeamless,
                owedConnect, owedEnd, stray} : b \in BOOLEAN
  /\ num \in 0..(IF Multi THEN Cardinality(Clients) ELSE 1) /\ mig \in 0..MaxMig
  /\ begins \in [Clients -> Seq(1..MaxMig)]

\* A callback the emulator waits for will come: the migration is in progress, in the phase that
\* answers it, and the timer that ends that phase runs, and only then (mig_inprogress, mig_wait_*,
\* mig_timer; the assertion of migrate_timeout).
\* With several clients allowed, a new one takes this away (reds_handle_main_link).
CallbackWillCome ==
  Multi \/
    /\ owedConnect => inProgress /\ waitConnect /\ timer
    /\ owedEnd => inProgress /\ waitDisconnect /\ ~waitConnect /\ timer
    /\ timer => waitConnect \/ waitDisconnect

\* Every call of migrate_connect_complete or migrate_end_complete made by reds_mig_cleanup
\* answers a call of the emulator that is still open: none is answered twice.
AnsweredOnce == ~stray

\* The count of answers is never less than the clients that still have to give one, so that it
\* does not run out before they do: the assertions of MainChannel::on_migrate_connected.  And the
\* clients waited for after the migration are still there, at least one while the server waits:
\* the last to leave ends the wait (mig_wait_disconnect_clients).
WaitsCovered ==
  /\ Cardinality(waitC \cup waitPrev) <= num /\ (Seamless => num <= 1)
  /\ Multi \/ (waitList \subseteq Known /\ (waitDisconnect => waitList # {}))

\* The emulator gets both its callbacks, whatever the clients do (migrate_connect_complete,
\* migrate_end_complete): the timer bounds every wait.
EmulatorAnswered == (owedConnect /\ ~Multi ~> ~owedConnect) /\ (owedEnd /\ ~Multi ~> ~owedEnd)

-----------------------------------------------------------------------------
(* What the code or its comments say and TLC refutes *)

\* The migration timer never fires when nothing is waited for: the assertion of migrate_timeout.
\* It does when a client connects during a migration and several are allowed.
TimerWaits == timer => waitConnect \/ waitDisconnect

\* A client counted as connected to the migration's target has answered the BEGIN of the current
\* call of spice_server_migrate_connect, not that of an earlier call (handle_migrate_connected).
AnswersCurrent ==
  [][\A c \in Clients : c \in connectOk' \ connectOk =>
        begins[c][Len(begins[c]) - Len(begins'[c])] = mig]_vars

\* A seamless migration is only carried out with a client that has shaken hands with the target
\* of this migration: src_do_seamless_migrate is "per migration", as its declaration says.
SeamlessPerMigration ==
  expect /\ srcSeamless /\ ~waitConnect => Up \subseteq connectOk

=============================================================================
