----------------------------- MODULE RedsProofs -----------------------------
(***************************************************************************)
(* LinksAdmittedAndReleased holds for any number of sockets, any tickets   *)
(* and any number of changes of the configuration.  It is not inductive:   *)
(* what a link may become depends on what was checked and decided in       *)
(* earlier reads.                                                          *)
(*                                                                         *)
(* The emulator's callbacks of a migration, for any clients, any           *)
(* configuration and any number of migrations: each is waited for by a     *)
(* phase that the timer ends, and none comes twice; the invariant relates  *)
(* the mig_* flags to what the emulator waits for in both directions.  And *)
(* the count of answers covers the clients that have to give one; the      *)
(* invariant says which clients those can be.                              *)
(*                                                                         *)
(* WorkerLosesNothing holds for the thread of a QXL device, for rings and  *)
(* pipes of any size and any number of calls.  Its invariant follows each  *)
(* call from the queue of the dispatcher to its completion, and says of    *)
(* every ring with commands in it what will wake the worker.               *)
(***************************************************************************)

EXTENDS Link, MigrationSource, Worker, TLAPS

-----------------------------------------------------------------------------
(* Links *)

Stages == Reading \cup {"none", "accept", "abandoned", "linked", "closed"}

LinkRecord == [stage : Stages, ssl : BOOLEAN, skip : BOOLEAN, type : {"main", "other"}, id : Sockets \cup {0},
               key : BOOLEAN, auth : BOOLEAN, offered : BOOLEAN, closes : Nat, entitled : BOOLEAN]

ConfRecord == [ticketing : BOOLEAN, password : Passwords \cup {NoPassword}, expired : BOOLEAN, sasl : BOOLEAN,
               secure : SUBSET {"main", "other"}, channel : BOOLEAN]

Checked == {"mech", "ticket", "linked"} \cup InSasl

\* What is true of a link whose state is l: SASL is offered to no peer that may then use a
\* ticket, unless the application vouches for it; from the link message on the security of
\* the channel has been checked; a socket is open until the link ends.
LinkOK(l, cf, cl) ==
    /\ l \in LinkRecord
    /\ l.offered => l.skip
    /\ l.closes = IF l.stage = "closed" THEN 1 ELSE 0
    /\ l.auth <=> l.stage \in InSasl
    /\ l.stage = "ticket" => l.key
    /\ l.stage \in Checked => (l.type \in cf.secure => l.ssl)
    /\ l.stage = "linked" => l.entitled /\ cl # 0 /\ (l.type = "other" => l.id = cl)

LinkInductive ==
    /\ conf \in ConfRecord /\ client \in Sockets \cup {0}
    /\ lk \in [Sockets -> LinkRecord]
    /\ \A s \in Sockets : LinkOK(lk[s], conf, client)

-----------------------------------------------------------------------------

\* A link that has not begun, and one that has ended.
LEMMA FreshOK ==
  ASSUME NEW cf, NEW cl
  PROVE  LinkOK(FreshLink, cf, cl) /\ \A l \in LinkRecord : l.closes = 0 => LinkOK(FreeLink(l), cf, cl)
<1>1. FreshLink \in LinkRecord BY DEF FreshLink, LinkRecord, Stages
<1>2. LinkOK(FreshLink, cf, cl) BY <1>1 DEF LinkOK, FreshLink, InSasl, Checked
<1>3. ASSUME NEW l \in LinkRecord, l.closes = 0 PROVE LinkOK(FreeLink(l), cf, cl)
  <2>1. FreeLink(l) = [stage |-> "closed", ssl |-> FALSE, skip |-> FALSE, type |-> "main", id |-> 0, key |-> FALSE,
                       auth |-> FALSE, offered |-> FALSE, closes |-> 1, entitled |-> FALSE]
    <3>1. l.closes + 1 = 1 BY <1>3
    <3>2. FreeLink(l) = [FreshLink EXCEPT !.stage = "closed", !.closes = 1] BY <3>1, Zenon DEF FreeLink
    <3> QED BY <3>2, Zenon DEF FreshLink
  <2>2. /\ FreeLink(l) \in LinkRecord /\ FreeLink(l).stage = "closed" /\ FreeLink(l).closes = 1
        /\ ~FreeLink(l).offered /\ ~FreeLink(l).auth
    BY <2>1 DEF LinkRecord, Stages
  <2> QED BY <2>2 DEF LinkOK, InSasl, Checked
<1> QED BY <1>2, <1>3

-----------------------------------------------------------------------------

\* Every step keeps the invariant.
LEMMA LinkStepInductive == LinkInductive /\ [LinkNext]_linkVars => LinkInductive'
\* A step of one link leaves the others as they are.
<1>BecomeStep.
      ASSUME LinkInductive, NEW s \in Sockets, NEW l, LinkOK(l, conf, client), Become(s, l)
      PROVE  LinkInductive'
  <2> USE <1>BecomeStep
  <2>1. l \in LinkRecord BY DEF LinkOK
  <2>2. lk' = [lk EXCEPT ![s] = l] /\ conf' = conf /\ client' = client BY DEF Become
  <2>3. lk' \in [Sockets -> LinkRecord] /\ lk'[s] = l /\ \A t \in Sockets : t # s => lk'[t] = lk[t]
    BY <2>1, <2>2 DEF LinkInductive
  <2>4. \A t \in Sockets : LinkOK(lk'[t], conf, client) BY <2>3 DEF LinkInductive
  <2> QED BY <2>2, <2>3, <2>4 DEF LinkInductive
\* A link that is refused or fails is closed once.
<1>RefuseStep.
      ASSUME LinkInductive, NEW s \in Sockets, lk[s].stage # "closed", Refuse(s)
      PROVE  LinkInductive'
  <2> USE <1>RefuseStep
  <2>1. lk[s] \in LinkRecord /\ lk[s].closes = 0 BY DEF LinkInductive, LinkOK
  <2> QED BY <2>1, FreshOK, <1>BecomeStep, Zenon DEF Refuse
\* A link goes from one read to the next.
<1>AwaitOK.
      ASSUME NEW cf, NEW cl, NEW l, LinkOK(l, cf, cl), NEW stage \in Reading \cup {"accept", "abandoned"}, l.stage # "closed",
             stage = "ticket" => l.key,
             stage \in InSasl <=> l.stage \in InSasl,
             stage \in Checked => (l.type \in cf.secure => l.ssl)
      PROVE  LinkOK([l EXCEPT !.stage = stage], cf, cl)
  <2> USE <1>AwaitOK
  <2> DEFINE m == [l EXCEPT !.stage = stage]
  <2>1. /\ m \in LinkRecord /\ m.stage = stage /\ m.offered = l.offered /\ m.skip = l.skip /\ m.closes = l.closes
        /\ m.auth = l.auth /\ m.key = l.key /\ m.type = l.type /\ m.ssl = l.ssl
    BY DEF LinkOK, LinkRecord, Stages
  <2>2. stage # "closed" /\ stage # "linked" BY DEF Reading
  <2> HIDE DEF m
  <2>3. LinkOK(m, cf, cl) BY <2>1, <2>2 DEF LinkOK
  <2> QED BY <2>3 DEF m
\* A stream that is handed to a channel.
<1>HandOK.
      ASSUME NEW cf, NEW cl, NEW l \in LinkRecord, NEW entitled, entitled = TRUE, l.type \in cf.secure => l.ssl,
             cl # 0, l.type = "other" => l.id = cl
      PROVE  LinkOK(Hand(l, entitled), cf, cl)
  <2> USE <1>HandOK
  <2> DEFINE h1 == [FreshLink EXCEPT !.stage = "linked", !.ssl = l.ssl]
             h2 == [h1 EXCEPT !.type = l.type, !.id = l.id]
  <2>1. Hand(l, entitled) = [h2 EXCEPT !.entitled = entitled] BY DEF Hand
  <2>2. /\ h1 \in LinkRecord /\ h1.stage = "linked" /\ h1.ssl = l.ssl /\ h1.auth = FALSE
        /\ h1.offered = FALSE /\ h1.closes = 0
    BY Zenon DEF FreshLink, LinkRecord, Stages
  <2> HIDE DEF h1
  <2>3. /\ h2 \in LinkRecord /\ h2.stage = "linked" /\ h2.ssl = l.ssl /\ h2.auth = FALSE
        /\ h2.offered = FALSE /\ h2.closes = 0 /\ h2.type = l.type /\ h2.id = l.id
    BY <2>2, Zenon DEF LinkRecord
  <2> HIDE DEF h2
  <2>4. /\ Hand(l, entitled) \in LinkRecord /\ Hand(l, entitled).stage = "linked" /\ Hand(l, entitled).ssl = l.ssl
        /\ Hand(l, entitled).auth = FALSE /\ Hand(l, entitled).offered = FALSE /\ Hand(l, entitled).closes = 0
        /\ Hand(l, entitled).type = l.type /\ Hand(l, entitled).id = l.id /\ Hand(l, entitled).entitled = TRUE
    BY <2>1, <2>3, Zenon DEF LinkRecord
  <2> QED BY <2>4, Zenon DEF LinkOK, InSasl
\* The other links, when the client in place changes: its channels are closed.
<1>DroppedOK.
      ASSUME NEW cf, NEW cl, NEW cl2, NEW l, LinkOK(l, cf, cl)
      PROVE  LinkOK(Dropped(l), cf, cl2) /\ Dropped(l) \in LinkRecord
  <2> USE <1>DroppedOK
  <2>1. CASE l.stage = "linked"
    <3>1. l \in LinkRecord /\ l.closes = 0 BY <2>1 DEF LinkOK
    <3> QED BY <2>1, <3>1, FreshOK DEF Dropped, LinkOK
  <2>2. CASE l.stage # "linked" BY <2>2 DEF Dropped, LinkOK
  <2> QED BY <2>1, <2>2
\* An entitled peer becomes a channel (reds_handle_main_link, reds_handle_other_links).
<1>HandleLinkStep.
      ASSUME LinkInductive, NEW s \in Sockets, lk[s].stage \in {"ticket", "step"}, NEW entitled, entitled = TRUE,
             HandleLink(s, entitled)
      PROVE  LinkInductive'
  <2> USE <1>HandleLinkStep
  <2>0. /\ lk[s] \in LinkRecord /\ lk[s].closes = 0 /\ (lk[s].type \in conf.secure => lk[s].ssl)
        /\ conf' = conf /\ s # 0 /\ client \in Sockets \cup {0}
    BY LinkAssumption DEF LinkInductive, LinkOK, Checked, InSasl, HandleLink
  <2>1. CASE lk[s].type = "main"
    <3>1. client' = s /\ lk' = [t \in Sockets |-> IF t = s THEN Hand(lk[s], entitled) ELSE Dropped(lk[t])]
      BY <2>1, Zenon DEF HandleLink
    <3>2. LinkOK(Hand(lk[s], entitled), conf, s) BY <2>0, <2>1, <1>HandOK, Zenon
    <3>3. \A t \in Sockets : LinkOK(Dropped(lk[t]), conf, s) BY <1>DroppedOK DEF LinkInductive
    <3>4. \A t \in Sockets : LinkOK(lk'[t], conf, s) BY <3>1, <3>2, <3>3, Zenon
    <3>5. lk' \in [Sockets -> LinkRecord]
      <4>1. \A t \in Sockets : lk'[t] \in LinkRecord BY <3>4 DEF LinkOK
      <4> QED BY <3>1, <4>1, Zenon
    <3> QED BY <2>0, <3>1, <3>4, <3>5, Zenon DEF LinkInductive
  <2>2. CASE lk[s].type # "main"
    <3> DEFINE l == IF client # 0 /\ lk[s].id = client /\ conf.channel THEN Hand(lk[s], entitled) ELSE FreeLink(lk[s])
    <3>1. client' = client /\ lk' = [lk EXCEPT ![s] = l] BY <2>2, Zenon DEF HandleLink
    <3>2. LinkOK(l, conf, client) BY <2>0, <1>HandOK, FreshOK, Zenon
    <3> HIDE DEF l
    <3>3. l \in LinkRecord BY <3>2 DEF LinkOK
    <3>4. lk' \in [Sockets -> LinkRecord] /\ lk'[s] = l /\ \A t \in Sockets : t # s => lk'[t] = lk[t]
      BY <3>1, <3>3 DEF LinkInductive
    <3> QED BY <2>0, <3>1, <3>2, <3>4 DEF LinkInductive
  <2> QED BY <2>1, <2>2
\* A ticket that is accepted is one of a peer that may enter: SASL was not offered to it.
<1>TicketStep.
      ASSUME LinkInductive, NEW s \in Sockets, NEW pw, HandleTicket(s, pw)
      PROVE  LinkInductive'
  <2> USE <1>TicketStep
  <2>0. lk[s].stage = "ticket" /\ lk[s] \in LinkRecord /\ (lk[s].offered => lk[s].skip) /\ conf \in ConfRecord
    BY DEF HandleTicket, Is, LinkInductive, LinkOK
  <2>1. CASE pw \in Passwords /\ TicketAccepted(lk[s], pw)
    <3>1. HandleLink(s, Entitled(lk[s], pw)) BY <2>1 DEF HandleTicket
    <3>2. Entitled(lk[s], pw) = TRUE BY <2>0, <2>1 DEF TicketAccepted, Entitled, LinkRecord, ConfRecord
    <3> QED BY <2>0, <3>1, <3>2, <1>HandleLinkStep, Zenon
  <2>2. CASE ~(pw \in Passwords /\ TicketAccepted(lk[s], pw))
    <3>1. Refuse(s) BY <2>2 DEF HandleTicket
    <3> QED BY <2>0, <3>1, <1>RefuseStep
  <2> QED BY <2>1, <2>2
\* A link that goes from one read to the next, or is refused.
<1>ReadStep.
      ASSUME LinkInductive, NEW s \in Sockets, lk[s].stage \notin {"none", "linked", "closed"},
             NEW stage \in Reading \cup {"accept"}, Await(s, stage),
             stage \in {"magic", "wsmagic", "header", "mess", "accept"} \/ (stage \in InSasl /\ lk[s].stage \in InSasl),
             stage \in {"magic", "wsmagic", "header", "mess", "accept"} => lk[s].stage \notin InSasl
      PROVE  LinkInductive'
  <2> USE <1>ReadStep
  <2>1. LinkOK(lk[s], conf, client) BY DEF LinkInductive
  <2>2. LinkOK([lk[s] EXCEPT !.stage = stage], conf, client)
    <3>1. stage # "ticket" BY DEF InSasl
    <3>2. stage \in InSasl <=> lk[s].stage \in InSasl BY DEF InSasl
    <3>3. stage \in Checked => (lk[s].type \in conf.secure => lk[s].ssl)
      BY <2>1 DEF LinkOK, Checked, InSasl
    <3> QED BY <2>1, <3>1, <3>2, <3>3, <1>AwaitOK
  <2> QED BY <2>2, <1>BecomeStep DEF Await
\* A socket that is accepted.
<1>AcceptStep.
      ASSUME LinkInductive, NEW s \in Sockets, NEW skip \in BOOLEAN
      PROVE  /\ Accept(s, skip) => LinkInductive'
             /\ \A st \in {"ok", "wait", "error"} : AcceptSsl(s, skip, st) => LinkInductive'
  <2> USE <1>AcceptStep
  <2>1. ASSUME NEW l \in LinkRecord, l.offered = FALSE, l.closes = 0, l.auth = FALSE, l.stage = "none",
               NEW stage \in {"magic", "accept"}
        PROVE  LinkOK([l EXCEPT !.stage = stage], conf, client)
    <3>1. LinkOK(l, conf, client) BY <2>1 DEF LinkOK, InSasl, Checked
    <3>2. stage \in Reading \cup {"accept"} /\ stage \notin InSasl /\ stage \notin Checked BY DEF Reading, InSasl, Checked
    <3> QED BY <2>1, <3>1, <3>2, <1>AwaitOK DEF InSasl, Checked
  <2> DEFINE plain == [FreshLink EXCEPT !.skip = skip]
             tls == [FreshLink EXCEPT !.ssl = TRUE, !.skip = skip]
  <2>a. plain \in LinkRecord /\ plain.offered = FALSE /\ plain.closes = 0 /\ plain.auth = FALSE /\ plain.stage = "none"
    BY Zenon DEF FreshLink, LinkRecord, Stages
  <2>b. tls \in LinkRecord /\ tls.offered = FALSE /\ tls.closes = 0 /\ tls.auth = FALSE /\ tls.stage = "none"
    BY Zenon DEF FreshLink, LinkRecord, Stages
  <2>2. ASSUME Accept(s, skip) PROVE LinkInductive'
    <3>1. Become(s, [plain EXCEPT !.stage = "magic"]) BY <2>2 DEF Accept
    <3> HIDE DEF plain
    <3> QED BY <2>1, <2>a, <3>1, <1>BecomeStep, Zenon
  <2>3. ASSUME NEW st \in {"ok", "wait", "error"}, AcceptSsl(s, skip, st) PROVE LinkInductive'
    <3>1. CASE st = "ok"
      <4>1. Become(s, [tls EXCEPT !.stage = "magic"]) BY <2>3, <3>1 DEF AcceptSsl
      <4> HIDE DEF tls
      <4> QED BY <2>1, <2>b, <4>1, <1>BecomeStep, Zenon
    <3>2. CASE st = "wait"
      <4>1. Become(s, [tls EXCEPT !.stage = "accept"]) BY <2>3, <3>2 DEF AcceptSsl
      <4> HIDE DEF tls
      <4> QED BY <2>1, <2>b, <4>1, <1>BecomeStep, Zenon
    <3>3. CASE st = "error"
      <4>1. Become(s, FreeLink(FreshLink))
        <5>1. CallerCloses(SocketDetached([FreshLink EXCEPT !.ssl = TRUE, !.skip = skip])) = FreeLink(FreshLink)
          BY DEF CallerCloses, SocketDetached, FreeLink, FreshLink
        <5> QED BY <2>3, <3>3, <5>1 DEF AcceptSsl
      <4>2. FreshLink \in LinkRecord /\ FreshLink.closes = 0
        <5>1. LinkOK(FreshLink, conf, client) BY FreshOK
        <5> QED BY <5>1 DEF LinkOK, FreshLink
      <4> QED BY <4>1, <4>2, FreshOK, <1>BecomeStep, Zenon
    <3> QED BY <3>1, <3>2, <3>3
  <2> QED BY <2>2, <2>3
\* A ticket is awaited only for a link that has a key.
<1>GetTicketStep.
      ASSUME LinkInductive, NEW s \in Sockets, NEW l, LinkOK(l, conf, client), l.stage \notin InSasl \cup {"closed", "linked"},
             l.type \in conf.secure => l.ssl, GetTicket(s, l)
      PROVE  LinkInductive'
  <2> USE <1>GetTicketStep
  <2>0. l \in LinkRecord /\ l.closes = 0 BY DEF LinkOK
  <2>1. CASE l.key
    <3>1. "ticket" \in Reading /\ "ticket" \notin InSasl BY DEF Reading, InSasl
    <3>2. LinkOK([l EXCEPT !.stage = "ticket"], conf, client) BY <2>1, <3>1, <1>AwaitOK
    <3> QED BY <2>1, <3>2, <1>BecomeStep DEF GetTicket
  <2>2. CASE ~l.key
    <3>1. LinkOK(FreeLink(l), conf, client) BY <2>0, FreshOK, Zenon
    <3> QED BY <2>2, <3>1, <1>BecomeStep DEF GetTicket
  <2> QED BY <2>1, <2>2
\* Another field of a link that is neither read nor checked by what follows.
<1>OfferedOK.
      ASSUME NEW cf, NEW cl, NEW l, LinkOK(l, cf, cl), NEW offered \in BOOLEAN, offered => l.skip
      PROVE  LinkOK([l EXCEPT !.offered = offered], cf, cl)
  <2> USE <1>OfferedOK
  <2> DEFINE m == [l EXCEPT !.offered = offered]
  <2>1. /\ m \in LinkRecord /\ m.stage = l.stage /\ m.offered = offered /\ m.skip = l.skip /\ m.closes = l.closes
        /\ m.auth = l.auth /\ m.key = l.key /\ m.type = l.type /\ m.ssl = l.ssl /\ m.id = l.id /\ m.entitled = l.entitled
    BY DEF LinkOK, LinkRecord
  <2> HIDE DEF m
  <2>2. LinkOK(m, cf, cl) BY <2>1 DEF LinkOK
  <2> QED BY <2>2 DEF m
\* The link message: the security of the channel is checked before anything is awaited.
<1>MessStep.
      ASSUME LinkInductive, NEW s \in Sockets, NEW type \in {"main", "other"}, NEW id \in Sockets \cup {0},
             NEW selects \in BOOLEAN, NEW scap \in BOOLEAN, ReadMess(s, type, id, selects, scap)
      PROVE  LinkInductive'
  <2> USE <1>MessStep
  <2>0. lk[s] \in LinkRecord /\ LinkOK(lk[s], conf, client) /\ lk[s].stage = "mess" /\ conf \in ConfRecord
    BY DEF LinkInductive, LinkOK, ReadMess, Is
  <2> DEFINE l == [lk[s] EXCEPT !.type = type, !.id = id]
             k == ~(conf.sasl /\ scap)
             m == [l EXCEPT !.key = k]
  <2>1. CASE ~SecurityCheck(l, type) \/ (type = "other" /\ ~conf.channel)
    <3>1. Refuse(s) BY <2>1 DEF ReadMess
    <3> QED BY <2>0, <3>1, <1>RefuseStep
  <2>2. CASE ~(~SecurityCheck(l, type) \/ (type = "other" /\ ~conf.channel))
    <3>1. MessAnswered(s, m, selects) BY <2>2 DEF ReadMess, SendLinkAck
    <3>2. /\ l \in LinkRecord /\ l.stage = "mess" /\ l.offered = lk[s].offered /\ l.skip = lk[s].skip /\ l.closes = lk[s].closes
          /\ l.auth = lk[s].auth /\ l.type = type /\ l.ssl = lk[s].ssl
      BY <2>0, Zenon DEF LinkRecord
    <3>3. type \in conf.secure => l.ssl BY <2>2 DEF SecurityCheck
    <3> HIDE DEF l
    <3>4. k \in BOOLEAN BY <2>0 DEF ConfRecord
    <3> HIDE DEF k
    <3>5. /\ m \in LinkRecord /\ m.stage = "mess" /\ m.offered = l.offered /\ m.skip = l.skip /\ m.closes = l.closes
          /\ m.auth = l.auth /\ m.type = type /\ m.ssl = l.ssl
      BY <3>2, <3>4 DEF LinkRecord
    <3> HIDE DEF m
    <3>6. LinkOK(m, conf, client) /\ (m.type \in conf.secure => m.ssl) BY <2>0, <3>2, <3>3, <3>5 DEF LinkOK
    <3>7. CASE ~selects /\ conf.sasl /\ ~m.skip
      <4>1. Become(s, [FreshLink EXCEPT !.stage = "abandoned"]) BY <3>1, <3>7 DEF MessAnswered
      <4>2. LinkOK([FreshLink EXCEPT !.stage = "abandoned"], conf, client)
        <5>1. LinkOK(FreshLink, conf, client) /\ FreshLink.stage = "none" BY FreshOK DEF FreshLink
        <5> QED BY <5>1, <1>AwaitOK DEF InSasl, Checked
      <4> QED BY <4>1, <4>2, <1>BecomeStep
    <3>8. CASE ~selects /\ ~(conf.sasl /\ ~m.skip)
      <4> DEFINE n == [m EXCEPT !.offered = conf.sasl]
      <4>1. GetTicket(s, n) BY <3>1, <3>8 DEF MessAnswered
      <4>2. LinkOK(n, conf, client) BY <2>0, <3>6, <3>8, <1>OfferedOK DEF ConfRecord
      <4>3. n.stage = "mess" /\ n.type = m.type /\ n.ssl = m.ssl BY <3>5 DEF LinkRecord
      <4> HIDE DEF n
      <4> QED BY <3>6, <4>1, <4>2, <4>3, <1>GetTicketStep DEF InSasl
    <3>9. CASE selects
      <4>1. Become(s, [m EXCEPT !.stage = "mech"]) BY <3>1, <3>9 DEF MessAnswered
      <4>2. LinkOK([m EXCEPT !.stage = "mech"], conf, client) BY <3>5, <3>6, <1>AwaitOK, Zenon DEF Reading, InSasl
      <4> QED BY <4>1, <4>2, <1>BecomeStep
    <3> QED BY <3>7, <3>8, <3>9
  <2> QED BY <2>1, <2>2
\* The mechanism the peer selects: a ticket only while SASL is off.
<1>MechanismStep.
      ASSUME LinkInductive, NEW s \in Sockets, NEW mech \in {"spice", "sasl", "other"}, NEW started \in BOOLEAN,
             HandleAuthMechanism(s, mech, started)
      PROVE  LinkInductive'
  <2> USE <1>MechanismStep
  <2>0. /\ lk[s] \in LinkRecord /\ LinkOK(lk[s], conf, client) /\ lk[s].stage = "mech" /\ conf \in ConfRecord
        /\ lk[s].type \in conf.secure => lk[s].ssl
    BY DEF LinkInductive, LinkOK, HandleAuthMechanism, Is, Checked
  <2>1. CASE MechanismIsTicket(mech)
    <3> DEFINE n == [lk[s] EXCEPT !.offered = conf.sasl]
    <3>1. GetTicket(s, n) /\ conf.sasl = FALSE
      <4>1. mech = "spice" /\ ~conf.sasl BY <2>1 DEF MechanismIsTicket
      <4> QED BY <2>0, <2>1, <4>1 DEF HandleAuthMechanism, ConfRecord
    <3>2. LinkOK(n, conf, client) BY <2>0, <3>1, <1>OfferedOK, Zenon
    <3>3. n.stage = "mech" /\ n.type = lk[s].type /\ n.ssl = lk[s].ssl BY <2>0 DEF LinkRecord
    <3> HIDE DEF n
    <3> QED BY <2>0, <3>1, <3>2, <3>3, <1>GetTicketStep DEF InSasl
  <2>2. CASE mech = "sasl" /\ started
    <3>1. StartSasl(s)
      <4>1. ~MechanismIsTicket(mech) BY <2>2 DEF MechanismIsTicket
      <4> QED BY <2>2, <4>1 DEF HandleAuthMechanism
    <3> DEFINE h1 == [FreshLink EXCEPT !.stage = "mechlen", !.auth = TRUE]
               h2 == [h1 EXCEPT !.ssl = lk[s].ssl]
               h3 == [h2 EXCEPT !.type = lk[s].type, !.id = lk[s].id]
    <3>2. Become(s, h3) BY <3>1 DEF StartSasl
    <3>3. h1 \in LinkRecord /\ h1.stage = "mechlen" /\ h1.auth = TRUE /\ h1.offered = FALSE /\ h1.closes = 0
      BY Zenon DEF FreshLink, LinkRecord, Stages, Reading
    <3> HIDE DEF h1
    <3>4. /\ h2 \in LinkRecord /\ h2.stage = "mechlen" /\ h2.auth = TRUE /\ h2.offered = FALSE /\ h2.closes = 0
          /\ h2.ssl = lk[s].ssl
      BY <2>0, <3>3 DEF LinkRecord
    <3> HIDE DEF h2
    <3>5. /\ h3 \in LinkRecord /\ h3.stage = "mechlen" /\ h3.auth = TRUE /\ h3.offered = FALSE /\ h3.closes = 0
          /\ h3.ssl = lk[s].ssl /\ h3.type = lk[s].type
      BY <2>0, <3>4, Zenon DEF LinkRecord
    <3> HIDE DEF h3
    <3>6. LinkOK(h3, conf, client) BY <2>0, <3>5 DEF LinkOK, InSasl
    <3> QED BY <3>2, <3>6, <1>BecomeStep
  <2>3. CASE ~MechanismIsTicket(mech) /\ ~(mech = "sasl" /\ started)
    <3>1. Refuse(s) BY <2>3 DEF HandleAuthMechanism
    <3> QED BY <2>0, <3>1, <1>RefuseStep
  <2> QED BY <2>1, <2>2, <2>3
\* A read of the SASL exchange.
<1>SaslReadStep.
      ASSUME LinkInductive, NEW s \in Sockets, NEW good \in BOOLEAN, SaslRead(s, good)
      PROVE  LinkInductive'
  <2> USE <1>SaslReadStep
  <2>0. lk[s].stage \in {"mechlen", "mechname", "steplen"} BY DEF SaslRead, InSasl
  <2>1. CASE good
    <3>1. PICK stage \in InSasl : Await(s, stage)
      <4>1. CASE lk[s].stage = "mechlen" BY <2>1, <4>1 DEF SaslRead, Is, InSasl
      <4>2. CASE lk[s].stage = "mechname" BY <2>1, <4>2 DEF SaslRead, Is, InSasl
      <4>3. CASE lk[s].stage = "steplen" BY <2>1, <4>3 DEF SaslRead, Is, InSasl
      <4> QED BY <2>0, <4>1, <4>2, <4>3
    <3> QED BY <2>0, <3>1, <1>ReadStep DEF InSasl, Reading
  <2>2. CASE ~good BY <2>0, <2>2, <1>RefuseStep DEF SaslRead
  <2> QED BY <2>1, <2>2
\* An answer of the SASL exchange: only the last good one, strong enough, lets the peer in.
<1>SaslStepStep.
      ASSUME LinkInductive, NEW s \in Sockets, NEW result \in {"ok", "continue", "fail"}, NEW strong \in BOOLEAN,
             SaslStep(s, result, strong)
      PROVE  LinkInductive'
  <2> USE <1>SaslStepStep
  <2>0. lk[s].stage = "step" BY DEF SaslStep, Is
  <2>1. CASE result = "continue"
    <3>1. Await(s, "steplen") BY <2>1 DEF SaslStep
    <3> QED BY <2>0, <3>1, <1>ReadStep DEF InSasl, Reading
  <2>2. CASE result = "ok" /\ SsfGood(lk[s], strong)
    <3>1. HandleLink(s, TRUE) BY <2>2, Zenon DEF SaslStep
    <3> QED BY <2>0, <3>1, <1>HandleLinkStep, Zenon
  <2>3. CASE result = "fail" \/ (result = "ok" /\ ~SsfGood(lk[s], strong))
    <3>1. Refuse(s) BY <2>3, Zenon DEF SaslStep
    <3> QED BY <2>0, <3>1, <1>RefuseStep
  <2> QED BY <2>1, <2>2, <2>3
\* A channel that ends; the main channel takes the others with it.
<1>ClosedStep.
      ASSUME LinkInductive, NEW s \in Sockets, ChannelClosed(s)
      PROVE  LinkInductive'
  <2> USE <1>ClosedStep
  <2>0. lk[s].stage = "linked" /\ conf' = conf /\ LinkOK(lk[s], conf, client) BY DEF ChannelClosed, Is, LinkInductive
  <2>1. CASE lk[s].type = "main"
    <3>1. client' = 0 /\ lk' = [t \in Sockets |-> Dropped(lk[t])] BY <2>1 DEF ChannelClosed
    <3>2. \A t \in Sockets : LinkOK(Dropped(lk[t]), conf, 0) /\ Dropped(lk[t]) \in LinkRecord
      BY <1>DroppedOK DEF LinkInductive
    <3> QED BY <2>0, <3>1, <3>2 DEF LinkInductive
  <2>2. CASE lk[s].type # "main"
    <3>1. Become(s, FreeLink(lk[s])) BY <2>2 DEF ChannelClosed, Become
    <3>2. Refuse(s) BY <3>1 DEF Refuse
    <3> QED BY <2>0, <3>2, <1>RefuseStep
  <2> QED BY <2>1, <2>2
\* The configuration changes; what secures a channel does not.
<1>ChangeStep.
      ASSUME LinkInductive, NEW c \in ConfRecord, c.secure = conf.secure, Change(c)
      PROVE  LinkInductive'
  <2> USE <1>ChangeStep
  <2>1. lk' = lk /\ client' = client /\ conf' = c BY DEF Change
  <2>2. \A t \in Sockets : LinkOK(lk[t], c, client) BY DEF LinkInductive, LinkOK
  <2> QED BY <2>1, <2>2 DEF LinkInductive
\* Every change of the configuration is one of these.
<1>ConfigStep.
      ASSUME LinkInductive,
             \/ \E pw \in Passwords \cup {NoPassword} : SetTicket(pw)
             \/ SetLongTicket \/ SetNoauth \/ TicketExpires \/ SetSasl \/ ChannelComesOrGoes
      PROVE  LinkInductive'
  <2> USE <1>ConfigStep
  <2>0. conf \in ConfRecord BY DEF LinkInductive
  <2>1. ASSUME NEW pw \in Passwords \cup {NoPassword}, SetTicket(pw) PROVE LinkInductive'
    <3> DEFINE h == [conf EXCEPT !.ticketing = TRUE, !.password = pw]
               x == (pw = NoPassword)
               c == [h EXCEPT !.expired = x]
    <3>1. Change(c) BY <2>1, Zenon DEF SetTicket
    <3>2. h \in ConfRecord /\ h.secure = conf.secure BY <2>0, Zenon DEF ConfRecord
    <3>3. x \in BOOLEAN OBVIOUS
    <3> HIDE DEF h, x
    <3>4. c \in ConfRecord /\ c.secure = conf.secure BY <3>2, <3>3 DEF ConfRecord
    <3> HIDE DEF c
    <3> QED BY <3>1, <3>4, <1>ChangeStep
  <2>2. CASE SetLongTicket
    <3> DEFINE c == [conf EXCEPT !.ticketing = TRUE, !.expired = FALSE]
    <3>1. c \in ConfRecord /\ c.secure = conf.secure /\ Change(c) BY <2>0, <2>2, Zenon DEF ConfRecord, SetLongTicket
    <3> QED BY <3>1, <1>ChangeStep, Zenon
  <2>3. CASE SetNoauth
    <3> DEFINE c == [conf EXCEPT !.ticketing = FALSE, !.password = NoPassword]
    <3>1. c \in ConfRecord /\ c.secure = conf.secure /\ Change(c) BY <2>0, <2>3, Zenon DEF ConfRecord, SetNoauth
    <3> QED BY <3>1, <1>ChangeStep, Zenon
  <2>4. CASE TicketExpires
    <3> DEFINE c == [conf EXCEPT !.expired = TRUE]
    <3>1. c \in ConfRecord /\ c.secure = conf.secure /\ Change(c) BY <2>0, <2>4, Zenon DEF ConfRecord, TicketExpires
    <3> QED BY <3>1, <1>ChangeStep, Zenon
  <2>5. CASE SetSasl
    <3> DEFINE c == [conf EXCEPT !.sasl = ~conf.sasl]
    <3>1. c \in ConfRecord /\ c.secure = conf.secure /\ Change(c) BY <2>0, <2>5, Zenon DEF ConfRecord, SetSasl
    <3> QED BY <3>1, <1>ChangeStep, Zenon
  <2>6. CASE ChannelComesOrGoes
    <3> DEFINE c == [conf EXCEPT !.channel = ~conf.channel]
    <3>1. c \in ConfRecord /\ c.secure = conf.secure /\ Change(c) BY <2>0, <2>6, Zenon DEF ConfRecord, ChannelComesOrGoes
    <3> QED BY <3>1, <1>ChangeStep, Zenon
  <2> QED BY <2>1, <2>2, <2>3, <2>4, <2>5, <2>6
<1> SUFFICES ASSUME LinkInductive, [LinkNext]_linkVars PROVE LinkInductive' OBVIOUS
<1>1. CASE UNCHANGED linkVars BY <1>1 DEF linkVars, LinkInductive
<1>2. ASSUME NEW s \in Sockets, NEW skip \in BOOLEAN,
             Accept(s, skip) \/ \E st \in {"ok", "wait", "error"} : AcceptSsl(s, skip, st)
      PROVE  LinkInductive'
  BY <1>2, <1>AcceptStep
<1>3. ASSUME NEW s \in Sockets, NEW st \in {"ok", "wait", "error"}, SslAccept(s, st) PROVE LinkInductive'
  <2>1. lk[s].stage = "accept" /\ (Refuse(s) \/ Await(s, "magic") \/ Await(s, "accept")) BY <1>3 DEF SslAccept, Is
  <2> QED BY <2>1, <1>ReadStep, <1>RefuseStep DEF Reading, InSasl
<1>4. ASSUME NEW s \in Sockets, NEW m \in {"spice", "http"}, ReadMagic(s, m) PROVE LinkInductive'
  <2>1. lk[s].stage \in {"magic", "wsmagic"} /\ (Refuse(s) \/ Await(s, "header") \/ Await(s, "wsmagic")) BY <1>4 DEF ReadMagic
  <2> QED BY <2>1, <1>ReadStep, <1>RefuseStep DEF Reading, InSasl
<1>5. ASSUME NEW s \in Sockets, NEW good \in BOOLEAN, ReadHeader(s, good) PROVE LinkInductive'
  <2>1. lk[s].stage = "header" /\ (Refuse(s) \/ Await(s, "mess")) BY <1>5 DEF ReadHeader, Is
  <2> QED BY <2>1, <1>ReadStep, <1>RefuseStep DEF Reading, InSasl
<1>6. ASSUME NEW s \in Sockets, NEW sel \in BOOLEAN, NEW scap \in BOOLEAN,
             ReadMess(s, "main", 0, sel, scap) \/ \E id \in Ids : ReadMess(s, "other", id, sel, scap)
      PROVE  LinkInductive'
  BY <1>6, <1>MessStep DEF Ids
<1>7. ASSUME NEW s \in Sockets, ReadBadMess(s) \/ ReadError(s) PROVE LinkInductive'
  <2>1. lk[s].stage # "closed" /\ Refuse(s) BY <1>7 DEF ReadBadMess, ReadError, Is, Reading
  <2> QED BY <2>1, <1>RefuseStep
<1>8. ASSUME NEW s \in Sockets, NEW pw, HandleTicket(s, pw) PROVE LinkInductive' BY <1>8, <1>TicketStep
<1>9. ASSUME NEW s \in Sockets, NEW m \in {"spice", "sasl", "other"}, NEW started \in BOOLEAN,
             HandleAuthMechanism(s, m, started)
      PROVE  LinkInductive'
  BY <1>9, <1>MechanismStep
<1>10. ASSUME NEW s \in Sockets, NEW good \in BOOLEAN, SaslRead(s, good) PROVE LinkInductive' BY <1>10, <1>SaslReadStep
<1>11. ASSUME NEW s \in Sockets, NEW r \in {"ok", "continue", "fail"}, NEW strong \in BOOLEAN, SaslStep(s, r, strong)
       PROVE  LinkInductive'
  BY <1>11, <1>SaslStepStep
<1>12. ASSUME NEW s \in Sockets, ChannelClosed(s) PROVE LinkInductive' BY <1>12, <1>ClosedStep
<1>13. CASE \/ \E pw \in Passwords \cup {NoPassword} : SetTicket(pw)
            \/ SetLongTicket \/ SetNoauth \/ TicketExpires \/ SetSasl \/ ChannelComesOrGoes
  BY <1>13, <1>ConfigStep
<1> QED BY Zenon, <1>1, <1>2, <1>3, <1>4, <1>5, <1>6, <1>7, <1>8, <1>9, <1>10, <1>11, <1>12, <1>13 DEF LinkNext

\* For any number of peers and tickets, and whatever the other links and the configuration do
\* between the reads of a link: only an entitled peer becomes a channel, a channel belongs to
\* the client in place, and a link that ended closed its socket once (reds_handle_ticket,
\* reds_handle_other_links, reds_link_free).
THEOREM AlwaysLinksAdmitted == LinkSpec => []LinksAdmittedAndReleased
<1>1. LinkInit => LinkInductive
  <2> SUFFICES ASSUME LinkInit PROVE LinkInductive OBVIOUS
  <2>1. conf \in ConfRecord /\ client = 0 BY Zenon DEF LinkInit, ConfRecord
  <2>2. \A s \in Sockets : lk[s] = FreshLink /\ LinkOK(lk[s], conf, client) BY FreshOK DEF LinkInit
  <2>3. lk \in [Sockets -> LinkRecord]
    <3>1. FreshLink \in LinkRecord BY DEF FreshLink, LinkRecord, Stages
    <3> QED BY <3>1 DEF LinkInit
  <2> QED BY <2>1, <2>2, <2>3 DEF LinkInductive
<1>2. LinkInductive => LinksAdmittedAndReleased
  BY DEF LinkInductive, LinkOK, LinksAdmittedAndReleased, Checked, Reading
<1> QED BY <1>1, <1>2, LinkStepInductive, PTL DEF LinkSpec

-----------------------------------------------------------------------------
(* The thread of a QXL device *)

Counts == [Rings -> Nat]

Flags == [Rings -> BOOLEAN]

Tries == [Rings -> 0 .. 2]

WorkerState ==
    [running : BOOLEAN, open : BOOLEAN, primary : BOOLEAN, ring : Counts, notify : Flags,
     tries : Tries, pipe : Counts, timeout : {Now, Poll, Inf}, wasBlocked : BOOLEAN]

MessageKinds == AckKinds \cup AsyncKinds \cup {"start", "oom", "close", "wakeup", "setting"}

Messages == [kind : MessageKinds, cookie : Cookies \cup {NoCookie}]

\* The types of the worker, its messages and the emulator's bookkeeping.
WorkerTypeOK ==
    /\ wk \in WorkerState
    /\ msgs \in Seq(Messages)
    /\ pending \subseteq {"WAKEUP", "OOM"} /\ ack \in AckKinds \cup {"none"}
    /\ owed \in [Cookies -> {0, 1}] /\ vm \in {"running", "stopped"}
    /\ kick \in BOOLEAN /\ due \subseteq {"watch", "source"}

\* A ring that was polled in vain too often is watched, or has commands again.
Watched(w) == \A r \in Rings : w.tries[r] > Retries => w.notify[r] \/ w.ring[r] > 0

\* A ring with commands, or one whose next command will not be notified, is
\* looked at again.
RingsNoticed ==
    \A r \in Rings :
        wk.open /\ wk.running /\ (wk.ring[r] > 0 \/ ~wk.notify[r]) =>
            \/ due # {} \/ wk.timeout # Inf \/ wk.wasBlocked
            \/ msgs # <<>> \/ kick

\* The rings of a running worker are served in every round of the loop, in the
\* round of its start in the next one.
SourceDue == wk.running /\ due # {} => "source" \in due \/ wk.timeout = Now

\* One message of a kind or a cookie.
MessagesOnce ==
    \A i, j \in DOMAIN msgs :
        /\ msgs[i].kind = msgs[j].kind /\ msgs[i].kind \in {"wakeup", "oom", "start"} => i = j
        /\ msgs[i].cookie = msgs[j].cookie /\ msgs[i].cookie # NoCookie => i = j

\* The bits, the cookies and the waiting sender that belong to a message.
MessagesKnown ==
    \A i \in DOMAIN msgs :
        /\ msgs[i].kind = "wakeup" => "WAKEUP" \in pending
        /\ msgs[i].kind = "oom" => "OOM" \in pending
        /\ msgs[i].cookie # NoCookie => owed[msgs[i].cookie] = 1
        /\ msgs[i].cookie # NoCookie <=> msgs[i].kind \in AsyncKinds
        /\ msgs[i].kind \in AckKinds => i = Len(msgs) /\ ack = msgs[i].kind

\* Each of them has its message.
MessagesThere ==
    /\ "WAKEUP" \in pending => \E i \in DOMAIN msgs : msgs[i].kind = "wakeup"
    /\ "OOM" \in pending => \E i \in DOMAIN msgs : msgs[i].kind = "oom"
    /\ ack # "none" => \E i \in DOMAIN msgs : msgs[i].kind = ack
    /\ \A c \in Cookies : owed[c] = 1 => \E i \in DOMAIN msgs : msgs[i].cookie = c

MessagesSingle == MessagesOnce /\ MessagesKnown /\ MessagesThere

\* What only a running machine asks for is handled by a running worker.
MessagesInOrder ==
    /\ vm = "running" <=> /\ wk.running \/ \E i \in DOMAIN msgs : msgs[i].kind = "start"
                          /\ \A i \in DOMAIN msgs : msgs[i].kind # "stop"
    /\ \A i \in DOMAIN msgs : msgs[i].kind = "start" => ~wk.running
    /\ \A i \in DOMAIN msgs : msgs[i].kind \in {"oom"} \cup AsyncKinds =>
         wk.running \/ \E j \in 1 .. (i - 1) : msgs[j].kind = "start"

WorkerInductive ==
    /\ WorkerTypeOK /\ Watched(wk) /\ RingsNoticed /\ SourceDue
    /\ MessagesSingle /\ MessagesInOrder

-----------------------------------------------------------------------------
(* What a handler, or a round of the loop, does to the worker. *)

\* A ring is settled when it is empty and watched, or the loop comes back by itself.
Settled(w, r) == (w.ring[r] = 0 /\ w.notify[r]) \/ w.timeout # Inf \/ w.wasBlocked

Kept(w, u) ==
    /\ u \in WorkerState /\ Watched(u) /\ u.running = w.running
    /\ w.timeout = Now => u.timeout = Now

\* u is w after k commands of ring r were taken.
TakenFrom(w, r, k, u) ==
    /\ u \in WorkerState /\ u.notify = w.notify /\ u.timeout = w.timeout
    /\ u.wasBlocked = w.wasBlocked /\ u.running = w.running
    /\ u.ring[r] = w.ring[r] - k
    /\ u.tries[r] = IF k = 0 THEN w.tries[r] ELSE 0
    /\ \A q \in Rings : q # r => u.ring[q] = w.ring[q] /\ u.tries[q] = w.tries[q]

\* u is w after ring r was found empty.
EmptyFrom(w, r, u) ==
    /\ u \in WorkerState /\ u.ring = w.ring
    /\ u.wasBlocked = w.wasBlocked /\ u.running = w.running
    /\ u.notify[r] <=> w.notify[r] \/ w.tries[r] = 1
    /\ u.tries[r] = IF w.tries[r] = 0 THEN 1 ELSE 2
    /\ \A q \in Rings : q # r => u.notify[q] = w.notify[q] /\ u.tries[q] = w.tries[q]
    /\ u.timeout = IF w.tries[r] = 0 /\ w.timeout = Inf THEN Poll ELSE w.timeout

\* u is w but for the pipes, the timeout, the primary surface and the flag of a full pipe.
SameRings(w, u) ==
    /\ u \in WorkerState /\ u.ring = w.ring /\ u.notify = w.notify /\ u.tries = w.tries
    /\ u.running = w.running

\* u is w after a message of a kind was handled.
HandledTo(w, kind, u) ==
    /\ u \in WorkerState /\ Watched(u)
    /\ w.timeout = Now => u.timeout = Now
    /\ kind = "start" => u.running /\ (w.running \/ u.timeout = Now)
    /\ kind = "stop" => ~u.running
    /\ kind \notin {"start", "stop"} => u.running = w.running

-----------------------------------------------------------------------------
(* The messages between the emulator and the worker. *)

\* p is q with the message m at its end.
Longer(q, m, p) ==
    /\ \A i \in DOMAIN p : i = Len(p) \/ i \in DOMAIN q
    /\ \A i \in DOMAIN q : i \in DOMAIN p /\ i # Len(p) /\ p[i] = q[i] /\ q[i] \in Messages
    /\ Len(p) \in DOMAIN p /\ p[Len(p)] = m

\* p is q without its first message.
Shorter(q, p) ==
    /\ 1 \in DOMAIN q /\ q[1] \in Messages
    /\ \A i \in DOMAIN p : /\ i + 1 \in DOMAIN q /\ i + 1 # 1 /\ p[i] = q[i + 1]
                           /\ p[i] \in Messages
                           /\ 1 # Len(q)
                           /\ i + 1 = Len(q) => i = Len(p)
    /\ \A i, j \in DOMAIN p : i + 1 = j + 1 => i = j
    /\ \A i \in DOMAIN q : i # 1 => i - 1 \in DOMAIN p /\ p[i - 1] = q[i]

-----------------------------------------------------------------------------
(* The steps. *)

\* The worker starts stopped, with nothing queued.
LEMMA WorkerStarts ==
  ASSUME WorkerInit
  PROVE  WorkerInductive
<1>1. /\ wk = [running |-> FALSE, open |-> TRUE, primary |-> FALSE,
               ring |-> [r \in Rings |-> 0], notify |-> [r \in Rings |-> FALSE],
               tries |-> [r \in Rings |-> 0], pipe |-> [r \in Rings |-> 0],
               timeout |-> Inf, wasBlocked |-> FALSE]
      /\ msgs = <<>> /\ pending = {} /\ ack = "none" /\ owed = [c \in Cookies |-> 0]
      /\ vm = "stopped" /\ kick = FALSE /\ due = {}
  BY DEF WorkerInit
<1>2. /\ [r \in Rings |-> 0] \in Counts /\ [r \in Rings |-> FALSE] \in Flags
      /\ [r \in Rings |-> 0] \in Tries
  BY DEF Counts, Flags, Tries
<1>3. wk \in WorkerState
  BY <1>1, <1>2 DEF WorkerState
<1>4. ~wk.running /\ \A r \in Rings : wk.tries[r] = 0
  BY <1>1
<1>5. ~(0 > Retries)
  BY DEF Retries
<1>6. owed \in [Cookies -> {0, 1}] /\ msgs \in Seq(Messages) /\ DOMAIN msgs = {}
  BY <1>1
<1>7. WorkerTypeOK
  BY <1>1, <1>3, <1>6, Zenon DEF WorkerTypeOK
<1>8. Watched(wk) /\ RingsNoticed /\ SourceDue
  BY <1>1, <1>4, <1>5 DEF Watched, RingsNoticed, SourceDue
<1>9. MessagesSingle
  <2>1. \A c \in Cookies : owed[c] # 1
    BY <1>1
  <2> QED BY <1>1, <1>6, <2>1 DEF MessagesSingle, MessagesOnce, MessagesKnown, MessagesThere
<1>10. MessagesInOrder
  BY <1>1, <1>4, <1>6 DEF MessagesInOrder
<1> QED BY <1>7, <1>8, <1>9, <1>10 DEF WorkerInductive

\* Every step keeps the invariant.
LEMMA WorkerSteps ==
  WorkerInductive /\ [WorkerNext]_workerVars => WorkerInductive'
\* The fields of a worker's state have their types.
<1>StateFields.
      ASSUME NEW w \in WorkerState
      PROVE  /\ w.ring \in [Rings -> Nat] /\ w.pipe \in [Rings -> Nat]
             /\ w.tries \in [Rings -> {0, 1, 2}] /\ w.timeout \in {Now, Poll, Inf}
  BY <1>StateFields DEF WorkerState, Counts, Tries
\* Taking commands of a ring changes its count, its pipe and its tries.
<1>TakenFields.
      ASSUME NEW w \in WorkerState, NEW r \in Rings, NEW k \in Nat, k <= w.ring[r], NEW i \in Nat
      PROVE  TakenFrom(w, r, k, Taken(w, r, k, i))
  <2> USE <1>TakenFields
  <2> DEFINE ring == [w.ring EXCEPT ![r] = @ - k]
             pipe == [w.pipe EXCEPT ![r] = @ + i]
             tries == [w.tries EXCEPT ![r] = IF k > 0 THEN 0 ELSE @]
             u == [w EXCEPT !.ring = ring, !.pipe = pipe, !.tries = tries]
  <2>1. Taken(w, r, k, i) = u
    BY DEF Taken, WorkerState
  <2>2. ring \in Counts /\ pipe \in Counts /\ tries \in Tries
    BY <1>StateFields DEF Counts, Tries
  <2>3. /\ ring[r] = w.ring[r] - k /\ tries[r] = IF k = 0 THEN w.tries[r] ELSE 0
        /\ \A q \in Rings : q # r => ring[q] = w.ring[q] /\ tries[q] = w.tries[q]
    <3>1. k > 0 <=> k # 0
      OBVIOUS
    <3> QED BY <1>StateFields, <3>1, Zenon
  <2> HIDE DEF ring, pipe, tries
  <2>4. /\ u \in WorkerState /\ u.ring = ring /\ u.tries = tries /\ u.notify = w.notify
        /\ u.timeout = w.timeout /\ u.wasBlocked = w.wasBlocked /\ u.running = w.running
    BY <2>2, Zenon DEF WorkerState
  <2> HIDE DEF u
  <2>5. QED BY <2>1, <2>3, <2>4, Zenon DEF TakenFrom
\* A ring found empty is polled soon again, or watched.
<1>FoundEmptyFields.
      ASSUME NEW w \in WorkerState, NEW r \in Rings
      PROVE  EmptyFrom(w, r, FoundEmpty(w, r))
  <2> USE <1>FoundEmptyFields
  <2> DEFINE notify == [w.notify EXCEPT ![r] = @ \/ w.tries[r] = 1]
             tries == [w.tries EXCEPT ![r] = IF @ = 0 THEN 1 ELSE 2]
             timeout == IF w.tries[r] = 0 /\ w.timeout = Inf THEN Poll ELSE w.timeout
             u == [w EXCEPT !.timeout = timeout, !.notify = notify, !.tries = tries]
  <2>0. w.notify \in [Rings -> BOOLEAN]
    BY DEF WorkerState, Flags
  <2>1. /\ (IF w.tries[r] < Retries THEN Lower(w.timeout, Poll) ELSE w.timeout) = timeout
        /\ Lower(w.tries[r] + 1, TriesCap) = (IF w.tries[r] = 0 THEN 1 ELSE 2)
    BY <1>StateFields DEF TriesCap, Retries, Lower, Now, Poll, Inf
  <2>2. FoundEmpty(w, r) = u
    BY <2>1, Zenon DEF FoundEmpty, WorkerState, Retries
  <2>3. tries \in Tries /\ timeout \in {Now, Poll, Inf}
    BY <1>StateFields DEF Tries
  <2>4. notify \in Flags
    BY <2>0, Zenon DEF Flags
  <2>5. /\ notify[r] <=> w.notify[r] \/ w.tries[r] = 1
        /\ tries[r] = IF w.tries[r] = 0 THEN 1 ELSE 2
        /\ \A q \in Rings : q # r => notify[q] = w.notify[q] /\ tries[q] = w.tries[q]
    BY <2>0, <1>StateFields, Zenon
  <2> HIDE DEF notify, tries, timeout
  <2>6. /\ u \in WorkerState /\ u.ring = w.ring /\ u.wasBlocked = w.wasBlocked
        /\ u.running = w.running /\ u.notify = notify /\ u.tries = tries /\ u.timeout = timeout
    BY <2>3, <2>4, Zenon DEF WorkerState
  <2> HIDE DEF u
  <2>7. QED BY <2>2, <2>5, <2>6, Zenon DEF EmptyFrom, timeout
\* Watched in terms of the counts that occur.
<1>WatchedMeans.
      ASSUME NEW w \in WorkerState
      PROVE  Watched(w) <=> \A q \in Rings : w.tries[q] = 2 => w.notify[q] \/ w.ring[q] # 0
  <2> USE <1>WatchedMeans
  <2>1. \A q \in Rings : /\ w.tries[q] > Retries <=> w.tries[q] = 2
                         /\ w.ring[q] > 0 <=> w.ring[q] # 0
    BY <1>StateFields DEF Retries
  <2> QED BY <2>1, Zenon DEF Watched
\* Taking commands leaves every ring watched that has to be.
<1>TakenWatched.
      ASSUME NEW w \in WorkerState, Watched(w), NEW r \in Rings,
             NEW k \in Nat, k <= w.ring[r], NEW u, TakenFrom(w, r, k, u)
      PROVE  Watched(u)
  <2> USE <1>TakenWatched
  <2>1. \A q \in Rings : w.tries[q] = 2 => w.notify[q] \/ w.ring[q] # 0
    BY <1>WatchedMeans, Zenon
  <2>2. u \in WorkerState
    BY DEF TakenFrom
  <2>3. k = 0 => u.ring[r] = w.ring[r]
    BY <1>StateFields DEF TakenFrom
  <2>4. 0 # 2
    OBVIOUS
  <2>5. ASSUME NEW q \in Rings, u.tries[q] = 2 PROVE u.notify[q] \/ u.ring[q] # 0
    <3>1. CASE q = r BY <2>1, <2>3, <2>4, <2>5, <3>1, Zenon DEF TakenFrom
    <3>2. CASE q # r BY <2>1, <2>5, <3>2, Zenon DEF TakenFrom
    <3> QED BY <3>1, <3>2
  <2> QED BY <2>2, <2>5, <1>WatchedMeans, Zenon
\* A ring that is empty when it is found empty is settled, and watched.
<1>FoundEmptyKept.
      ASSUME NEW w \in WorkerState, Watched(w), NEW r \in Rings, w.ring[r] = 0,
             NEW u, EmptyFrom(w, r, u)
      PROVE  /\ Kept(w, u) /\ Settled(u, r)
             /\ \A q \in Rings : Settled(w, q) => Settled(u, q)
  <2> USE <1>FoundEmptyKept
  <2>1. \A q \in Rings : w.tries[q] = 2 => w.notify[q] \/ w.ring[q] # 0
    BY <1>WatchedMeans, Zenon
  <2>2. u \in WorkerState
    BY DEF EmptyFrom
  <2>3. /\ \A q \in Rings : w.tries[q] = 0 \/ w.tries[q] = 1 \/ w.tries[q] = 2
        /\ 1 # 2 /\ Poll # Inf /\ Now # Inf
    BY <1>StateFields DEF Poll, Inf, Now
  <2>4. ASSUME NEW q \in Rings, u.tries[q] = 2 PROVE u.notify[q] \/ u.ring[q] # 0
    <3>1. CASE q = r BY <2>1, <2>3, <2>4, <3>1, Zenon DEF EmptyFrom
    <3>2. CASE q # r BY <2>1, <2>4, <3>2, Zenon DEF EmptyFrom
    <3> QED BY <3>1, <3>2
  <2>5. Watched(u)
    BY <2>2, <2>4, <1>WatchedMeans, Zenon
  <2>6. Settled(u, r)
    BY <2>1, <2>3, Zenon DEF Settled, EmptyFrom
  <2>7. ASSUME NEW q \in Rings, Settled(w, q) PROVE Settled(u, q)
    <3>1. CASE q = r BY <2>6, <3>1, Zenon
    <3>2. CASE q # r BY <2>3, <2>7, <3>2, Zenon DEF Settled, EmptyFrom
    <3> QED BY <3>1, <3>2
  <2>8. w.timeout = Now => u.timeout = Now
    BY <2>3, Zenon DEF EmptyFrom
  <2> QED BY <2>2, <2>5, <2>6, <2>7, <2>8, Zenon DEF Kept, EmptyFrom
\* Kept is transitive.
<1>KeptTwice.
      ASSUME NEW w, NEW u, NEW v, Kept(w, u), Kept(u, v)
      PROVE  Kept(w, v)
  BY <1>KeptTwice DEF Kept
\* What does not touch the rings keeps them watched.
<1>SameRingsWatched.
      ASSUME NEW w, NEW u, SameRings(w, u), Watched(w)
      PROVE  Watched(u)
  BY <1>SameRingsWatched, Zenon DEF SameRings, Watched
\* The loop over a ring ends with the ring settled.
<1>ProcessLoopSettles.
      ASSUME NEW w \in WorkerState, Watched(w), NEW r \in Rings, NEW o \in ProcessLoop(w, r)
      PROVE  /\ Kept(w, o.w) /\ Settled(o.w, r)
             /\ \A q \in Rings : Settled(w, q) => Settled(o.w, q)
  <2> USE <1>ProcessLoopSettles
  <2>0. PICK n \in (0 .. w.ring[r]) \X (0 .. w.ring[r]) :
          \/ o = Result([Taken(w, r, n[1], n[2]) EXCEPT !.wasBlocked = TRUE], n[1], FALSE)
          \/ /\ n[1] = w.ring[r]
             /\ o = Result(FoundEmpty(Taken(w, r, n[1], n[2]), r), n[1], TRUE)
    BY Zenon DEF ProcessLoop
  <2> DEFINE t == Taken(w, r, n[1], n[2])
             k == n[1]
  <2>1. w.ring[r] \in Nat
    BY <1>StateFields
  <2>2. k \in Nat /\ k <= w.ring[r] /\ n[2] \in Nat
    BY <2>1
  <2>3. TakenFrom(w, r, k, t)
    BY <2>2, <1>TakenFields, Zenon
  <2> HIDE DEF t, k
  <2>4. Watched(t)
    BY <2>2, <2>3, <1>TakenWatched, Zenon
  <2>5. \A q \in Rings : q # r /\ Settled(w, q) => Settled(t, q)
    BY <2>3, Zenon DEF TakenFrom, Settled
  <2>6. CASE o = Result([t EXCEPT !.wasBlocked = TRUE], k, FALSE)
    <3> DEFINE u == [t EXCEPT !.wasBlocked = TRUE]
    <3>1. SameRings(t, u) /\ u.wasBlocked = TRUE /\ u.timeout = t.timeout
      BY <2>3, Zenon DEF TakenFrom, SameRings, WorkerState
    <3>2. o.w = u
      BY <2>6 DEF Result
    <3> HIDE DEF u
    <3>3. Watched(u)
      BY <2>4, <3>1, <1>SameRingsWatched, Zenon
    <3>4. Kept(w, u) /\ \A q \in Rings : Settled(u, q)
      BY <2>3, <3>1, <3>3, Zenon DEF Kept, SameRings, Settled, TakenFrom
    <3> QED BY <3>2, <3>4, Zenon
  <2>7. CASE k = w.ring[r] /\ o = Result(FoundEmpty(t, r), k, TRUE)
    <3> DEFINE u == FoundEmpty(t, r)
    <3>1. o.w = u
      BY <2>7 DEF Result
    <3>2. t \in WorkerState
      BY <2>3 DEF TakenFrom
    <3>3. EmptyFrom(t, r, u)
      BY <3>2, <1>FoundEmptyFields, Zenon
    <3>4. t.ring[r] = 0
      BY <2>1, <2>3, <2>7 DEF TakenFrom
    <3> HIDE DEF u
    <3>5. /\ Kept(t, u) /\ Settled(u, r)
          /\ \A q \in Rings : Settled(t, q) => Settled(u, q)
      BY <2>4, <3>2, <3>3, <3>4, <1>FoundEmptyKept, Zenon
    <3>6. Kept(w, u)
      BY <2>3, <3>5, Zenon DEF Kept, TakenFrom
    <3> QED BY <2>5, <3>1, <3>5, <3>6, Zenon
  <2> QED BY <2>0, <2>6, <2>7, Zenon DEF t, k
\* So does a call of red_process_display, whichever way it is left.
<1>ProcessDisplaySettles.
      ASSUME NEW w \in WorkerState, Watched(w), w.running, NEW o \in RedProcessDisplay(w)
      PROVE  /\ Kept(w, o.w) /\ Settled(o.w, "display")
             /\ \A q \in Rings : Settled(w, q) => Settled(o.w, q)
  <2> USE <1>ProcessDisplaySettles
  <2>0. "display" \in Rings
    BY DEF Rings
  <2>1. CASE o \in ProcessLoop(w, "display")
    BY <2>0, <2>1, <1>ProcessLoopSettles, Zenon
  <2>2. CASE o \notin ProcessLoop(w, "display")
    <3>1. PICK n \in (1 .. w.ring["display"]) \X (0 .. w.ring["display"]) :
            o = Result([Taken(w, "display", n[1], n[2]) EXCEPT !.timeout = Now], n[1], FALSE)
      BY <2>2, Zenon DEF RedProcessDisplay
    <3> DEFINE t == Taken(w, "display", n[1], n[2])
               u == [t EXCEPT !.timeout = Now]
               k == n[1]
    <3>2. w.ring["display"] \in Nat
      BY <2>0, <1>StateFields
    <3>3. k \in Nat /\ k <= w.ring["display"] /\ n[2] \in Nat
      BY <3>2
    <3>4. TakenFrom(w, "display", k, t)
      BY <2>0, <3>3, <1>TakenFields, Zenon
    <3>5. o.w = u
      BY <3>1 DEF Result
    <3> HIDE DEF t, k
    <3>6. Watched(t)
      BY <2>0, <3>3, <3>4, <1>TakenWatched, Zenon
    <3>7. SameRings(t, u) /\ u.timeout = Now
      BY <3>4, Zenon DEF TakenFrom, SameRings, WorkerState
    <3>10. Now # Inf
      BY DEF Now, Inf
    <3> HIDE DEF u
    <3>8. Watched(u)
      BY <3>6, <3>7, <1>SameRingsWatched, Zenon
    <3>9. Kept(w, u) /\ \A q \in Rings : Settled(u, q)
      BY <3>4, <3>7, <3>8, <3>10, Zenon DEF Kept, SameRings, Settled, TakenFrom
    <3> QED BY <2>0, <3>5, <3>9, Zenon
  <2> QED BY <2>1, <2>2
\* What flush_commands may leave.
<1>FlushOutcome.
      ASSUME NEW w \in WorkerState, NEW r \in Rings, NEW u \in FlushCommands(w, r), w.running
      PROVE  \E p \in Nat, x \in {w.timeout, Now}, b \in {w.wasBlocked, TRUE} :
                u = Flushed(w, r, p, x, b)
  <2> USE <1>FlushOutcome
  <2> DEFINE P == 0 .. Lower(MaxPipe, w.pipe[r] + w.ring[r])
    T == {w.timeout} \cup (IF r = "display" /\ w.ring[r] > 0 THEN {Now} ELSE {})
    B == {w.wasBlocked} \cup (IF w.pipe[r] + w.ring[r] > MaxPipe THEN {TRUE} ELSE {})
    S == {Flushed(w, r, p, t, b) : p \in P, t \in T, b \in B}
  <2>0. FlushCommands(w, r) = IF ~w.running THEN {w} ELSE S
    BY DEF FlushCommands
  <2>1. P \subseteq Nat
    OBVIOUS
  <2>2. T \subseteq {w.timeout, Now} /\ B \subseteq {w.wasBlocked, TRUE}
    BY Zenon
  <2> HIDE DEF P, T, B
  <2>3. u \in S
   <3> HIDE DEF S
   <3> QED BY <2>0, Zenon
  <2>4. \E p \in P, t \in T, b \in B : u = Flushed(w, r, p, t, b)
    BY <2>3
  <2>5. QED BY <2>1, <2>2, <2>4, Zenon
\* Emptying a ring keeps what a handler has to keep.
<1>FlushKeeps.
      ASSUME NEW w \in WorkerState, Watched(w), NEW r \in Rings, NEW u \in FlushCommands(w, r)
      PROVE  Kept(w, u)
  <2> USE <1>FlushKeeps
  <2>1. CASE ~w.running
    BY <2>1 DEF FlushCommands, Kept
  <2>2. CASE w.running
    <3> DEFINE t == Taken(w, r, w.ring[r], 0)
    <3>1. PICK p \in Nat, x \in {w.timeout, Now}, b \in {w.wasBlocked, TRUE} :
            u = Flushed(w, r, p, x, b)
      BY <2>2, <1>FlushOutcome, Zenon
    <3> DEFINE v == [t EXCEPT !.pipe[r] = p, !.timeout = x, !.wasBlocked = b]
    <3>2. w.ring[r] \in Nat /\ w.ring[r] <= w.ring[r] /\ 0 \in Nat /\ w.ring[r] - w.ring[r] = 0
      BY <1>StateFields
    <3>3. TakenFrom(w, r, w.ring[r], t)
      BY <3>2, <1>TakenFields, Zenon
    <3> HIDE DEF t
    <3>4. Watched(t)
      BY <3>2, <3>3, <1>TakenWatched, Zenon
    <3>5. /\ t \in WorkerState /\ t.ring[r] = 0 /\ p \in Nat /\ x \in {w.timeout, Now}
          /\ x \in {Now, Poll, Inf} /\ b \in BOOLEAN
      <4>1. t \in WorkerState /\ t.ring[r] = 0
        BY <3>2, <3>3, Zenon DEF TakenFrom
      <4>2. w.timeout \in {Now, Poll, Inf} /\ w.wasBlocked \in BOOLEAN
        BY DEF WorkerState
      <4> QED BY <4>1, <4>2, Zenon
    <3>6. [t.pipe EXCEPT ![r] = p] \in Counts
      BY <3>5, <1>StateFields DEF Counts
    <3>7. SameRings(t, v) /\ v.timeout = x
      <4> DEFINE pipe == [t.pipe EXCEPT ![r] = p]
      <4>1. v = [t EXCEPT !.pipe = pipe, !.timeout = x, !.wasBlocked = b]
        BY <3>5 DEF WorkerState
      <4> HIDE DEF pipe
      <4>2. pipe \in Counts
        BY <3>6 DEF pipe
      <4> HIDE DEF v
      <4> QED BY <3>5, <4>1, <4>2, Zenon DEF SameRings, WorkerState
    <3> HIDE DEF v
    <3>8. Watched(v) /\ v \in WorkerState /\ v.ring[r] = 0
      BY <3>4, <3>5, <3>7, <1>SameRingsWatched, Zenon DEF SameRings
    <3>9. EmptyFrom(v, r, u)
      BY <3>1, <3>8, <1>FoundEmptyFields, Zenon DEF v, t, Flushed
    <3>10. Kept(v, u)
      BY <3>8, <3>9, <1>FoundEmptyKept, Zenon
    <3>11. v.running = w.running /\ (w.timeout = Now => v.timeout = Now)
      BY <3>3, <3>5, <3>7, Zenon DEF SameRings, TakenFrom
    <3> QED BY <3>10, <3>11, Zenon DEF Kept
  <2> QED BY <2>1, <2>2
\* Both rings are emptied in turn.
<1>FlushAllKeeps.
      ASSUME NEW w \in WorkerState, Watched(w), NEW u \in FlushAllQxlCommands(w)
      PROVE  Kept(w, u)
  <2> USE <1>FlushAllKeeps
  <2>1. PICK v \in FlushCommands(w, "display") : u \in FlushCommands(v, "cursor")
    BY DEF FlushAllQxlCommands
  <2>2. "display" \in Rings /\ "cursor" \in Rings
    BY DEF Rings
  <2>3. Kept(w, v)
    BY <2>2, <1>FlushKeeps, Zenon
  <2>4. Kept(v, u)
    BY <2>1, <2>2, <2>3, <1>FlushKeeps, Zenon DEF Kept
  <2> QED BY <2>3, <2>4, <1>KeptTwice, Zenon
\* What a handler tells the clients does not touch the rings.
<1>ToldKeeps.
      ASSUME NEW w \in WorkerState, Watched(w), NEW u \in Told(w)
      PROVE  Kept(w, u)
  <2> USE <1>ToldKeeps
  <2>1. PICK p \in [Rings -> 0 .. MaxPipe + 1] : u = [w EXCEPT !.pipe = p]
    BY DEF Told
  <2>2. p \in Counts
    BY WorkerAssumption DEF Counts
  <2>3. SameRings(w, u) /\ u.timeout = w.timeout
    BY <2>1, <2>2 DEF SameRings, WorkerState
  <2>4. Watched(u)
    BY <2>3, <1>SameRingsWatched, Zenon
  <2> QED BY <2>3, <2>4, Zenon DEF Kept, SameRings
\* Nor does what becomes of the primary surface.
<1>PrimaryKeeps.
      ASSUME NEW w \in WorkerState, Watched(w), NEW b \in BOOLEAN
      PROVE  Kept(w, [w EXCEPT !.primary = b])
  <2> USE <1>PrimaryKeeps
  <2> DEFINE u == [w EXCEPT !.primary = b]
  <2>1. SameRings(w, u) /\ u.timeout = w.timeout
    BY DEF SameRings, WorkerState
  <2> HIDE DEF u
  <2>2. Watched(u)
    BY <2>1, <1>SameRingsWatched, Zenon
  <2>3. Kept(w, u)
    BY <2>1, <2>2, Zenon DEF Kept, SameRings
  <2> QED BY <2>3 DEF u
\* The handlers that flush the rings, change the primary surface and tell it.
<1>SurfaceKeeps.
      ASSUME NEW w \in WorkerState, Watched(w), NEW b \in BOOLEAN,
             NEW v, Kept(w, v), NEW u \in Told([v EXCEPT !.primary = b])
      PROVE  Kept(w, u)
  <2> USE <1>SurfaceKeeps
  <2> DEFINE x == [v EXCEPT !.primary = b]
  <2>1. Kept(v, x)
    BY <1>PrimaryKeeps, Zenon DEF Kept
  <2> HIDE DEF x
  <2>2. Kept(x, u)
    BY <2>1, <1>ToldKeeps, Zenon DEF Kept, x
  <2> QED BY <2>1, <2>2, <1>KeptTwice, Zenon
\* What handle_dev_oom drains first.
<1>DrainedKeeps.
      ASSUME NEW w \in WorkerState, Watched(w), NEW v \in Drained(w)
      PROVE  Kept(w, v)
  <2> USE <1>DrainedKeeps
  <2>0. "display" \in Rings
    BY DEF Rings
  <2>1. CASE v = w
    BY <2>1 DEF Kept
  <2>2. CASE v # w
    <3>1. PICK k \in 1 .. w.ring["display"], p \in 0 .. MaxPipe + 1, t \in {w.timeout, Now} :
            v = DrainedTo(w, k, p, t)
      <4> DEFINE some == {DrainedTo(w, k, p, t) : k \in 1 .. w.ring["display"],
                            p \in 0 .. MaxPipe + 1, t \in {w.timeout, Now}}
      <4>1. Drained(w) = {w} \cup some
        BY DEF Drained
      <4>2. v \in some
        <5> HIDE DEF some
        <5> QED BY <2>2, <4>1
      <4> QED BY <4>2
    <3> DEFINE y == Taken(w, "display", k, 0)
               pipe == [y.pipe EXCEPT !["display"] = p]
    <3>2. w.ring["display"] \in Nat /\ t \in {Now, Poll, Inf}
      BY <2>0, <1>StateFields
    <3>3. k \in Nat /\ k <= w.ring["display"] /\ 0 \in Nat /\ p \in Nat
      BY <3>2, WorkerAssumption
    <3>4. TakenFrom(w, "display", k, y)
      BY <2>0, <3>3, <1>TakenFields, Zenon
    <3>5. v = [y EXCEPT !.pipe = pipe, !.timeout = t]
      BY <3>1, <3>4 DEF TakenFrom, WorkerState, DrainedTo
    <3> HIDE DEF y
    <3>6. Watched(y) /\ y \in WorkerState
      BY <2>0, <3>3, <3>4, <1>TakenWatched, Zenon DEF TakenFrom
    <3>7. pipe \in Counts
      BY <3>3, <3>6, <1>StateFields, Zenon DEF Counts
    <3> HIDE DEF pipe
    <3>8. SameRings(y, v) /\ v.timeout = t
      BY <3>2, <3>5, <3>6, <3>7, Zenon DEF SameRings, WorkerState
    <3>9. Watched(v)
      BY <3>6, <3>8, <1>SameRingsWatched, Zenon
    <3> QED BY <3>4, <3>8, <3>9, Zenon DEF Kept, SameRings, TakenFrom
  <2> QED BY <2>1, <2>2
\* The call of red_process_display that follows.
<1>OomKeeps.
      ASSUME NEW w \in WorkerState, Watched(w), NEW u \in HandleOom(w)
      PROVE  Kept(w, u)
  <2> USE <1>OomKeeps
  <2>1. CASE ~w.running
    BY <2>1 DEF HandleOom, Kept
  <2>2. CASE w.running
    <3>1. PICK v \in Drained(w) : \E o \in RedProcessDisplay(v) : u = o.w
      BY <2>2 DEF HandleOom
    <3>2. Kept(w, v)
      BY <1>DrainedKeeps, Zenon
    <3>3. Kept(v, u)
      BY <2>2, <3>1, <3>2, <1>ProcessDisplaySettles, Zenon DEF Kept
    <3> QED BY <3>2, <3>3, <1>KeptTwice, Zenon
  <2> QED BY <2>1, <2>2
\* The handlers keep the rings watched, and only a start or a stop changes
\* whether the worker runs.
<1>HandledKeeps.
      ASSUME NEW w \in WorkerState, Watched(w), NEW kind \in MessageKinds, NEW u \in Handled(w, kind)
      PROVE  HandledTo(w, kind, u)
  <2> USE <1>HandledKeeps
  <2> USE DEF HandledTo
  <2>0. Kept(w, w)
    BY DEF Kept
  <2>1. CASE kind \in {"update", "update_async"}
    <3>1. u \in HandleUpdate(w)
      BY <2>1 DEF Handled
    <3>2. "display" \in Rings
      BY DEF Rings
    <3>3. u = w \/ u \in FlushCommands(w, "display")
      BY <3>1 DEF HandleUpdate
    <3>4. Kept(w, u)
      BY <2>0, <3>2, <3>3, <1>FlushKeeps, Zenon
    <3> QED BY <2>1, <3>4 DEF Kept
  <2>2. CASE kind \in {"destroy_surface_wait", "flush_surfaces_async"}
    <3>1. u \in FlushAllQxlCommands(w)
      BY <2>2 DEF Handled, HandleDestroySurfaceWait, HandleFlushSurfaces
    <3>2. Kept(w, u)
      BY <3>1, <1>FlushAllKeeps, Zenon
    <3> QED BY <2>2, <3>2 DEF Kept
  <2>3. CASE kind \in {"destroy_surfaces", "destroy_surfaces_async"}
    <3>1. u \in HandleDestroySurfaces(w)
      BY <2>3 DEF Handled
    <3>2. PICK v \in FlushAllQxlCommands(w) : u \in Told([v EXCEPT !.primary = FALSE])
      BY <3>1 DEF HandleDestroySurfaces
    <3>3. Kept(w, v) /\ FALSE \in BOOLEAN
      BY <1>FlushAllKeeps, Zenon
    <3>4. Kept(w, u)
      BY <3>2, <3>3, <1>SurfaceKeeps, Zenon
    <3> QED BY <2>3, <3>4 DEF Kept
  <2>4. CASE kind \in {"create_primary", "create_primary_async"}
    <3>1. u \in DevCreatePrimarySurface(w)
      BY <2>4 DEF Handled
    <3>2. u = w \/ u \in Told([w EXCEPT !.primary = TRUE])
      BY <3>1 DEF DevCreatePrimarySurface
    <3>3. TRUE \in BOOLEAN
      OBVIOUS
    <3>4. Kept(w, u)
      BY <2>0, <3>2, <3>3, <1>SurfaceKeeps, Zenon
    <3> QED BY <2>4, <3>4 DEF Kept
  <2>5. CASE kind \in {"destroy_primary", "destroy_primary_async"}
    <3>1. u \in DestroyPrimarySurface(w)
      BY <2>5 DEF Handled
    <3>2. u = w \/ \E v \in FlushAllQxlCommands(w) : u \in Told([v EXCEPT !.primary = FALSE])
      BY <3>1 DEF DestroyPrimarySurface
    <3>3. \A v \in FlushAllQxlCommands(w) : Kept(w, v) /\ FALSE \in BOOLEAN
      BY <1>FlushAllKeeps, Zenon
    <3>4. Kept(w, u)
      BY <2>0, <3>2, <3>3, <1>SurfaceKeeps, Zenon
    <3> QED BY <2>5, <3>4 DEF Kept
  <2>6. CASE kind \in {"stop"}
    <3>1. u \in HandleStop(w)
      BY <2>6 DEF Handled
    <3> DEFINE v == [w EXCEPT !.running = FALSE, !.pipe = [r \in Rings |-> 0]]
    <3>2. (~w.running /\ u = w) \/ u = v
      BY <3>1 DEF HandleStop
    <3>3. /\ v \in WorkerState /\ v.ring = w.ring /\ v.notify = w.notify /\ v.tries = w.tries
          /\ v.timeout = w.timeout /\ ~v.running
      <4>1. [r \in Rings |-> 0] \in Counts
        BY DEF Counts
      <4> QED BY <4>1, Zenon DEF WorkerState
    <3> HIDE DEF v
    <3>4. Watched(v)
      BY <3>3, Zenon DEF Watched
    <3> QED BY <2>6, <3>2, <3>3, <3>4
  <2>7. CASE kind \in {"start"}
    <3>1. u \in HandleStart(w)
      BY <2>7 DEF Handled
    <3> DEFINE v == [w EXCEPT !.running = TRUE, !.timeout = Now]
    <3>2. (w.running /\ u = w) \/ u = v
      BY <3>1 DEF HandleStart
    <3>3. /\ v \in WorkerState /\ v.ring = w.ring /\ v.notify = w.notify /\ v.tries = w.tries
          /\ v.timeout = Now /\ v.running
      BY Zenon DEF WorkerState
    <3> HIDE DEF v
    <3>4. Watched(v)
      BY <3>3, Zenon DEF Watched
    <3> QED BY <2>7, <3>2, <3>3, <3>4
  <2>8. CASE kind \in {"oom"}
    <3>1. u \in HandleOom(w)
      BY <2>8 DEF Handled
    <3>2. Kept(w, u)
      BY <3>1, <1>OomKeeps, Zenon
    <3> QED BY <2>8, <3>2 DEF Kept
  <2>9. CASE kind \in {"close"}
    <3>1. u \in HandleClose(w)
      BY <2>9 DEF Handled
    <3>2. SameRings(w, u) /\ u.timeout = w.timeout
      BY <3>1, Zenon DEF HandleClose, SameRings, WorkerState
    <3>3. Watched(u)
      BY <3>2, <1>SameRingsWatched, Zenon
    <3>4. Kept(w, u)
      BY <3>2, <3>3, Zenon DEF Kept, SameRings
    <3> QED BY <2>9, <3>4 DEF Kept
  <2>10. CASE kind \in {"loadvm", "reset_cursor", "monitors_config_async"}
    <3>1. u \in {w} \cup Told(w)
      BY <2>10 DEF Handled, HandleLoadvm, HandleResetCursor, HandleMonitorsConfig
    <3>2. Kept(w, u)
      BY <2>0, <3>1, <1>ToldKeeps, Zenon
    <3> QED BY <2>10, <3>2 DEF Kept
  <2>11. CASE kind \in {"wakeup", "setting"}
    <3>1. u \in {w}
      BY <2>11 DEF Handled, HandleWakeup, HandleSetting
    <3> QED BY <2>0, <2>11, <3>1 DEF Kept
  <2> QED BY <2>1, <2>2, <2>3, <2>4, <2>5, <2>6, <2>7, <2>8, <2>9, <2>10, <2>11
         DEF MessageKinds, AckKinds, AsyncKinds
\* A message more.
<1>AppendMessage.
      ASSUME NEW q \in Seq(Messages), NEW m \in Messages
      PROVE  Longer(q, m, Append(q, m)) /\ Append(q, m) \in Seq(Messages) /\ Append(q, m) # <<>>
  BY <1>AppendMessage DEF Longer
\* A message less.
<1>TailMessage.
      ASSUME NEW q \in Seq(Messages), q # <<>>
      PROVE  Shorter(q, Tail(q)) /\ Tail(q) \in Seq(Messages) /\ Head(q) = q[1]
  <2> USE <1>TailMessage
  <2>1. /\ Tail(q) \in Seq(Messages) /\ Head(q) = q[1] /\ q[1] \in Messages
        /\ Len(Tail(q)) = Len(q) - 1 /\ Len(q) \in Nat /\ Len(q) >= 1
        /\ DOMAIN q = 1 .. Len(q) /\ DOMAIN Tail(q) = 1 .. (Len(q) - 1)
        /\ \A i \in 1 .. (Len(q) - 1) : Tail(q)[i] = q[i + 1] /\ Tail(q)[i] \in Messages
    OBVIOUS
  <2> DEFINE p == Tail(q)
  <2> HIDE DEF p
  <2> QED BY <2>1 DEF Shorter
\* A message is sent while nobody waits for an acknowledgement.
<1>SendKeepsSingle.
      ASSUME WorkerTypeOK, MessagesSingle, NEW m \in Messages, msgs' = Append(msgs, m), ack = "none",
             m.cookie # NoCookie <=> m.kind \in AsyncKinds,
             m.kind = "wakeup" => "WAKEUP" \notin pending,
             m.kind = "oom" => "OOM" \notin pending,
             m.kind = "start" => \A i \in DOMAIN msgs : msgs[i].kind # "start",
             m.cookie # NoCookie => owed[m.cookie] = 0,
             "WAKEUP" \in pending' <=> "WAKEUP" \in pending \/ m.kind = "wakeup",
             "OOM" \in pending' <=> "OOM" \in pending \/ m.kind = "oom",
             owed' = IF m.cookie = NoCookie THEN owed ELSE [owed EXCEPT ![m.cookie] = 1],
             ack' = IF m.kind \in AckKinds THEN m.kind ELSE ack
      PROVE  MessagesSingle'
  <2> USE <1>SendKeepsSingle
  <2> DEFINE D == DOMAIN msgs
             E == DOMAIN msgs'
             new == Len(msgs')
  <2>0. msgs \in Seq(Messages) /\ owed \in [Cookies -> {0, 1}]
    BY DEF WorkerTypeOK
  <2>1. Longer(msgs, m, msgs')
    BY <2>0, <1>AppendMessage, Zenon
  <2>2. /\ \A i \in E : i = new \/ i \in D
        /\ \A i \in D : i \in E /\ i # new /\ msgs'[i] = msgs[i] /\ msgs[i] \in Messages
        /\ new \in E /\ msgs'[new] = m /\ Len(msgs') = new
    BY <2>1, Zenon DEF Longer
  <2> HIDE DEF D, E, new
  <2>3. \A i, j \in D :
           /\ msgs[i].kind = msgs[j].kind /\ msgs[i].kind \in {"wakeup", "oom", "start"} => i = j
           /\ msgs[i].cookie = msgs[j].cookie /\ msgs[i].cookie # NoCookie => i = j
    BY Zenon DEF MessagesSingle, MessagesOnce, D
  <2>11. \A i \in D :
           /\ msgs[i].kind = "wakeup" => "WAKEUP" \in pending
           /\ msgs[i].kind = "oom" => "OOM" \in pending
           /\ msgs[i].cookie # NoCookie => owed[msgs[i].cookie] = 1
           /\ msgs[i].cookie # NoCookie <=> msgs[i].kind \in AsyncKinds
           /\ msgs[i].kind \in AckKinds => ack = msgs[i].kind
    BY Zenon DEF MessagesSingle, MessagesKnown, D
  <2>12. /\ "WAKEUP" \in pending => \E i \in D : msgs[i].kind = "wakeup"
         /\ "OOM" \in pending => \E i \in D : msgs[i].kind = "oom"
         /\ \A c \in Cookies : owed[c] = 1 => \E i \in D : msgs[i].cookie = c
    BY Zenon DEF MessagesSingle, MessagesThere, D
  <2>13. m.kind = "start" => \A i \in D : msgs[i].kind # "start"
    BY Zenon DEF D
  <2>4. \A i \in D : msgs[i].kind \notin AckKinds
    <3>1. "none" \notin AckKinds
      BY DEF AckKinds
    <3> QED BY <2>11, <3>1, Zenon
  <2>5. \A c \in Cookies : owed'[c] = 1 <=> owed[c] = 1 \/ c = m.cookie
    <3>1. CASE m.cookie = NoCookie
      BY <3>1, WorkerAssumption, Zenon
    <3>2. CASE m.cookie # NoCookie
      <4>1. m.cookie \in Cookies
        BY <3>2 DEF Messages
      <4>2. owed' = [owed EXCEPT ![m.cookie] = 1]
        BY <3>2, Zenon
      <4> QED BY <2>0, <4>1, <4>2, Zenon
    <3> QED BY <3>1, <3>2
  <2>6. /\ \A i \in D : msgs[i].cookie # NoCookie => msgs[i].cookie # m.cookie
        /\ \A i \in D : msgs[i].cookie # NoCookie => owed'[msgs[i].cookie] = 1
        /\ m.cookie # NoCookie => owed'[m.cookie] = 1
    <3>1. \A i \in D : msgs[i].cookie # NoCookie =>
             msgs[i].cookie \in Cookies /\ owed[msgs[i].cookie] = 1
      BY <2>2, <2>11 DEF Messages
    <3>2. m.cookie # NoCookie => m.cookie \in Cookies
      BY DEF Messages
    <3>3. 0 # 1
      OBVIOUS
    <3> QED BY <2>5, <3>1, <3>2, <3>3, Zenon
  <2>7. MessagesOnce'
    <3> SUFFICES ASSUME NEW i \in E, NEW j \in E
                 PROVE  /\ msgs'[i].kind = msgs'[j].kind /\ msgs'[i].kind \in {"wakeup", "oom", "start"}
                             => i = j
                        /\ msgs'[i].cookie = msgs'[j].cookie /\ msgs'[i].cookie # NoCookie => i = j
      BY Zenon DEF MessagesOnce, E
    <3>1. CASE i \in D /\ j \in D
      <4>1. msgs'[i] = msgs[i] /\ msgs'[j] = msgs[j]
        BY <2>2, <3>1, Zenon
      <4> QED BY <2>3, <3>1, <4>1, Zenon
    <3>2. CASE i = new /\ j = new
      BY <3>2
    <3>3. ASSUME NEW k \in D
          PROVE  /\ ~(msgs[k].kind = m.kind /\ m.kind \in {"wakeup", "oom", "start"})
                 /\ ~(msgs[k].cookie = m.cookie /\ m.cookie # NoCookie)
      BY <2>6, <2>11, <2>13, Zenon
    <3>4. CASE i = new /\ j \in D
      <4>1. msgs'[i] = m /\ msgs'[j] = msgs[j]
        BY <2>2, <3>4, Zenon
      <4> QED BY <3>3, <3>4, <4>1, Zenon
    <3>5. CASE i \in D /\ j = new
      <4>1. msgs'[j] = m /\ msgs'[i] = msgs[i]
        BY <2>2, <3>5, Zenon
      <4> QED BY <3>3, <3>5, <4>1, Zenon
    <3> QED BY <2>2, <3>1, <3>2, <3>4, <3>5, Zenon
  <2>8. MessagesKnown'
    <3> SUFFICES ASSUME NEW i \in E
                 PROVE  /\ msgs'[i].kind = "wakeup" => "WAKEUP" \in pending'
                        /\ msgs'[i].kind = "oom" => "OOM" \in pending'
                        /\ msgs'[i].cookie # NoCookie => owed'[msgs'[i].cookie] = 1
                        /\ msgs'[i].cookie # NoCookie <=> msgs'[i].kind \in AsyncKinds
                        /\ msgs'[i].kind \in AckKinds => i = Len(msgs') /\ ack' = msgs'[i].kind
      BY Zenon DEF MessagesKnown, E
    <3>1. CASE i \in D
      <4>1. msgs'[i] = msgs[i]
        BY <2>2, <3>1, Zenon
      <4> QED BY <2>4, <2>6, <2>11, <3>1, <4>1, Zenon
    <3>2. CASE i = new
      <4>1. msgs'[i] = m /\ i = Len(msgs')
        BY <2>2, <3>2, Zenon
      <4> QED BY <2>6, <4>1, Zenon
    <3> QED BY <2>2, <3>1, <3>2, Zenon
  <2>9. /\ "WAKEUP" \in pending' => \E i \in E : msgs'[i].kind = "wakeup"
        /\ "OOM" \in pending' => \E i \in E : msgs'[i].kind = "oom"
        /\ ack' # "none" => \E i \in E : msgs'[i].kind = ack'
    <3>1. /\ \A i \in D : \E j \in E : msgs'[j] = msgs[i]
          /\ \E j \in E : msgs'[j] = m
      BY <2>2, Zenon
    <3>2. "WAKEUP" \in pending' => \E i \in E : msgs'[i].kind = "wakeup"
      BY <2>12, <3>1, Zenon
    <3>3. "OOM" \in pending' => \E i \in E : msgs'[i].kind = "oom"
      BY <2>12, <3>1, Zenon
    <3>4. ack' # "none" => \E i \in E : msgs'[i].kind = ack'
      BY <3>1, Zenon
    <3> QED BY <3>2, <3>3, <3>4, Zenon
  <2>10. \A c \in Cookies : owed'[c] = 1 => \E i \in E : msgs'[i].cookie = c
    <3>1. /\ \A i \in D : \E j \in E : msgs'[j] = msgs[i]
          /\ \E j \in E : msgs'[j] = m
      BY <2>2, Zenon
    <3>2. ASSUME NEW c \in Cookies, owed'[c] = 1 PROVE \E i \in E : msgs'[i].cookie = c
      <4>1. CASE c = m.cookie
        BY <3>1, <4>1, Zenon
      <4>2. CASE c # m.cookie
        <5>1. owed[c] = 1
          BY <2>5, <3>2, <4>2, Zenon
        <5>2. PICK i \in D : msgs[i].cookie = c
          BY <2>12, <5>1, Zenon
        <5>3. PICK j \in E : msgs'[j] = msgs[i]
          BY <3>1, Zenon
        <5> QED BY <5>2, <5>3, Zenon
      <4> QED BY <4>1, <4>2, Zenon
    <3> QED BY <3>2, Zenon
  <2> QED BY <2>7, <2>8, <2>9, <2>10, Zenon DEF MessagesSingle, MessagesThere, E
\* The order of the messages that start and stop the worker, and those for a
\* running one, when a message is sent.
<1>SendKeepsOrder.
      ASSUME WorkerTypeOK, MessagesSingle, MessagesInOrder, NEW m \in Messages,
             msgs' = Append(msgs, m), ack = "none", wk'.running = wk.running,
             m.kind \in {"oom"} \cup AsyncKinds => vm = "running",
             m.kind = "start" => vm = "stopped",
             vm' = IF m.kind = "start" THEN "running"
                   ELSE IF m.kind = "stop" THEN "stopped" ELSE vm
      PROVE  MessagesInOrder'
  <2> USE <1>SendKeepsOrder
  <2> DEFINE n == Len(msgs)
             new == n + 1
  <2>0. msgs \in Seq(Messages) /\ "running" # "stopped"
    BY DEF WorkerTypeOK
  <2>1. /\ n \in Nat /\ DOMAIN msgs = 1 .. n /\ DOMAIN msgs' = 1 .. new
        /\ \A i \in 1 .. n : msgs'[i] = msgs[i]
        /\ msgs'[new] = m
    BY <2>0
  <2> HIDE DEF n
  <2>2. \A i \in 1 .. new : i = new \/ i \in 1 .. n
    BY <2>1
  <2>3. /\ new \in 1 .. new /\ 1 .. (new - 1) = 1 .. n
        /\ \A i \in 1 .. n : i \in 1 .. new /\ i # new /\ 1 .. (i - 1) \subseteq 1 .. n
    BY <2>1
  <2> HIDE DEF new
  <2>4. \A i \in 1 .. n : msgs[i].kind # "stop"
    BY <2>1, Zenon DEF MessagesSingle, MessagesKnown, AckKinds
  <2>5. vm = "running" <=> wk.running \/ \E i \in 1 .. n : msgs[i].kind = "start"
    BY <2>1, <2>4, Zenon DEF MessagesInOrder
  <2>6. "start" # "stop" /\ "start" \notin {"oom"} \cup AsyncKinds /\ "stop" \notin {"oom"} \cup AsyncKinds
    BY DEF AsyncKinds
  <2>7. ASSUME NEW i \in 1 .. new
        PROVE  /\ msgs'[i].kind = "start" => ~wk.running
               /\ msgs'[i].kind \in {"oom"} \cup AsyncKinds =>
                    wk.running \/ \E j \in 1 .. (i - 1) : msgs'[j].kind = "start"
    <3>1. CASE i \in 1 .. n
      <4>1. /\ msgs[i].kind = "start" => ~wk.running
            /\ msgs[i].kind \in {"oom"} \cup AsyncKinds =>
                 wk.running \/ \E j \in 1 .. (i - 1) : msgs[j].kind = "start"
        BY <2>1, <3>1, Zenon DEF MessagesInOrder
      <4>2. \A j \in 1 .. (i - 1) : msgs'[j] = msgs[j]
        BY <2>1, <2>3, <3>1, Zenon
      <4> QED BY <2>1, <3>1, <4>1, <4>2, Zenon
    <3>2. CASE i = new
      BY <2>0, <2>1, <2>3, <2>5, <3>2, Zenon
    <3> QED BY <2>2, <3>1, <3>2, Zenon
  <2>8. vm' = "running" <=> /\ wk.running \/ \E i \in 1 .. new : msgs'[i].kind = "start"
                            /\ \A i \in 1 .. new : msgs'[i].kind # "stop"
    <3>1. CASE m.kind = "start"
      BY <2>1, <2>2, <2>3, <2>4, <2>6, <3>1, Zenon
    <3>2. CASE m.kind = "stop"
      BY <2>0, <2>1, <2>3, <2>6, <3>2, Zenon
    <3>3. CASE m.kind # "start" /\ m.kind # "stop"
      <4>1. vm' = vm /\ \A i \in 1 .. new : msgs'[i].kind # "stop"
        BY <2>1, <2>2, <2>4, <3>3, Zenon
      <4>2. (\E i \in 1 .. new : msgs'[i].kind = "start") <=> \E i \in 1 .. n : msgs[i].kind = "start"
        BY <2>1, <2>2, <2>3, <3>3, Zenon
      <4> QED BY <2>5, <4>1, <4>2, Zenon
    <3> QED BY <3>1, <3>2, <3>3, Zenon
  <2> QED BY <2>1, <2>7, <2>8, Zenon DEF MessagesInOrder
\* A message is handled: its bit, its cookie or its sender are answered.
<1>RecvKeepsSingle.
      ASSUME WorkerTypeOK, MessagesSingle, NEW m, m = msgs[1], Shorter(msgs, msgs'),
             "WAKEUP" \in pending' <=> "WAKEUP" \in pending /\ m.kind # "wakeup",
             "OOM" \in pending' <=> "OOM" \in pending /\ m.kind # "oom",
             owed' = IF m.cookie = NoCookie THEN owed ELSE [owed EXCEPT ![m.cookie] = 0],
             ack' = IF m.kind = ack THEN "none" ELSE ack
      PROVE  MessagesSingle'
  <2> USE <1>RecvKeepsSingle
  <2> DEFINE D == DOMAIN msgs
             E == DOMAIN msgs'
  <2>0. owed \in [Cookies -> {0, 1}] /\ m \in Messages /\ 1 \in D
    BY Zenon DEF WorkerTypeOK, Shorter
  <2>1. \A i \in E : /\ i + 1 \in D /\ i + 1 # 1 /\ msgs'[i] = msgs[i + 1] /\ msgs'[i] \in Messages
                     /\ 1 # Len(msgs)
                     /\ i + 1 = Len(msgs) => i = Len(msgs')
    BY Zenon DEF Shorter
  <2>2. \A i, j \in E : i + 1 = j + 1 => i = j
    BY Zenon DEF Shorter
  <2>3. \A i \in D : i = 1 \/ \E j \in E : msgs'[j] = msgs[i]
    BY Zenon DEF Shorter
  <2> HIDE DEF D, E
  <2>4. \A i, j \in D :
           /\ msgs[i].kind = msgs[j].kind /\ msgs[i].kind \in {"wakeup", "oom", "start"} => i = j
           /\ msgs[i].cookie = msgs[j].cookie /\ msgs[i].cookie # NoCookie => i = j
    BY Zenon DEF MessagesSingle, MessagesOnce, D
  <2>5. \A i \in D :
           /\ msgs[i].kind = "wakeup" => "WAKEUP" \in pending
           /\ msgs[i].kind = "oom" => "OOM" \in pending
           /\ msgs[i].cookie # NoCookie => owed[msgs[i].cookie] = 1
           /\ msgs[i].cookie # NoCookie <=> msgs[i].kind \in AsyncKinds
           /\ msgs[i].kind \in AckKinds => i = Len(msgs) /\ ack = msgs[i].kind
    BY Zenon DEF MessagesSingle, MessagesKnown, D
  <2>6. /\ "WAKEUP" \in pending => \E i \in D : msgs[i].kind = "wakeup"
        /\ "OOM" \in pending => \E i \in D : msgs[i].kind = "oom"
        /\ ack # "none" => \E i \in D : msgs[i].kind = ack
        /\ \A c \in Cookies : owed[c] = 1 => \E i \in D : msgs[i].cookie = c
    BY Zenon DEF MessagesSingle, MessagesThere, D
  <2>7. \A c \in Cookies : owed'[c] = 1 <=> owed[c] = 1 /\ c # m.cookie
    <3>1. CASE m.cookie = NoCookie
      BY <3>1, WorkerAssumption, Zenon
    <3>2. CASE m.cookie # NoCookie
      <4>1. m.cookie \in Cookies /\ 0 # 1
        BY <2>0, <3>2 DEF Messages
      <4>2. owed' = [owed EXCEPT ![m.cookie] = 0]
        BY <3>2, Zenon
      <4> QED BY <2>0, <4>1, <4>2, Zenon
    <3> QED BY <3>1, <3>2
  <2>8. MessagesOnce'
    <3> SUFFICES ASSUME NEW i \in E, NEW j \in E
                 PROVE  /\ msgs'[i].kind = msgs'[j].kind /\ msgs'[i].kind \in {"wakeup", "oom", "start"}
                             => i = j
                        /\ msgs'[i].cookie = msgs'[j].cookie /\ msgs'[i].cookie # NoCookie => i = j
      BY Zenon DEF MessagesOnce, E
    <3>1. /\ i + 1 \in D /\ j + 1 \in D /\ msgs'[i] = msgs[i + 1] /\ msgs'[j] = msgs[j + 1]
          /\ i + 1 = j + 1 => i = j
      BY <2>1, <2>2, Zenon
    <3> QED BY <2>4, <3>1, Zenon
  <2>9. ASSUME NEW k \in D, k # 1
        PROVE  /\ ~(msgs[k].kind = m.kind /\ m.kind \in {"wakeup", "oom", "start"})
               /\ ~(msgs[k].cookie = m.cookie /\ m.cookie # NoCookie)
    BY <2>0, <2>4, <2>9, Zenon
  <2>10. MessagesKnown'
    <3> SUFFICES ASSUME NEW i \in E
                 PROVE  /\ msgs'[i].kind = "wakeup" => "WAKEUP" \in pending'
                        /\ msgs'[i].kind = "oom" => "OOM" \in pending'
                        /\ msgs'[i].cookie # NoCookie => owed'[msgs'[i].cookie] = 1
                        /\ msgs'[i].cookie # NoCookie <=> msgs'[i].kind \in AsyncKinds
                        /\ msgs'[i].kind \in AckKinds => i = Len(msgs') /\ ack' = msgs'[i].kind
      BY Zenon DEF MessagesKnown, E
    <3>1. /\ i + 1 \in D /\ i + 1 # 1 /\ msgs'[i] = msgs[i + 1] /\ msgs'[i] \in Messages
          /\ 1 # Len(msgs)
          /\ i + 1 = Len(msgs) => i = Len(msgs')
      BY <2>1, Zenon
    <3>2. msgs'[i].cookie # NoCookie => msgs'[i].cookie \in Cookies
      BY <3>1 DEF Messages
    <3>3. /\ ~(msgs'[i].kind = m.kind /\ m.kind \in {"wakeup", "oom", "start"})
          /\ ~(msgs'[i].cookie = m.cookie /\ m.cookie # NoCookie)
      BY <2>9, <3>1, Zenon
    <3>4. /\ msgs'[i].kind = "wakeup" => "WAKEUP" \in pending'
          /\ msgs'[i].kind = "oom" => "OOM" \in pending'
          /\ msgs'[i].cookie # NoCookie <=> msgs'[i].kind \in AsyncKinds
      BY <2>5, <3>1, <3>3, Zenon
    <3>5. msgs'[i].cookie # NoCookie => owed'[msgs'[i].cookie] = 1
      BY <2>5, <2>7, <3>1, <3>2, <3>3, Zenon
    <3>6. msgs'[i].kind \in AckKinds => i = Len(msgs') /\ ack' = msgs'[i].kind
      <4>1. ASSUME msgs'[i].kind \in AckKinds PROVE ack = msgs'[i].kind /\ i = Len(msgs')
        BY <2>5, <3>1, <4>1, Zenon
      <4>2. m.kind \notin AckKinds
        BY <2>0, <2>5, <3>1, Zenon
      <4> QED BY <4>1, <4>2, Zenon
    <3> QED BY <3>4, <3>5, <3>6
  <2>11. "WAKEUP" \in pending' => \E i \in E : msgs'[i].kind = "wakeup"
    BY <2>3, <2>6, Zenon
  <2>12. "OOM" \in pending' => \E i \in E : msgs'[i].kind = "oom"
    BY <2>3, <2>6, Zenon
  <2>13. ASSUME ack' # "none" PROVE \E i \in E : msgs'[i].kind = ack'
    <3>1. ack' = ack /\ m.kind # ack /\ ack # "none"
      BY <2>13, Zenon
    <3>2. PICK i \in D : msgs[i].kind = ack
      BY <2>6, <3>1, Zenon
    <3>3. PICK j \in E : msgs'[j] = msgs[i]
      BY <2>3, <3>1, <3>2, Zenon
    <3> QED BY <3>1, <3>2, <3>3
  <2>14. ASSUME NEW c \in Cookies, owed'[c] = 1 PROVE \E i \in E : msgs'[i].cookie = c
    <3>1. owed[c] = 1 /\ c # m.cookie
      BY <2>7, <2>14, Zenon
    <3>2. PICK i \in D : msgs[i].cookie = c
      BY <2>6, <3>1, Zenon
    <3>3. PICK j \in E : msgs'[j] = msgs[i]
      BY <2>3, <3>1, <3>2, Zenon
    <3> QED BY <3>2, <3>3
  <2> QED BY <2>8, <2>10, <2>11, <2>12, <2>13, <2>14, Zenon DEF MessagesSingle, MessagesThere, E
\* A message is handled: the order of those that are left.
<1>RecvKeepsOrder.
      ASSUME WorkerTypeOK, MessagesSingle, MessagesInOrder, NEW m, m = msgs[1],
             msgs # <<>>, msgs' = Tail(msgs), vm' = vm,
             m.kind = "start" => wk'.running,
             m.kind = "stop" => ~wk'.running,
             m.kind \notin {"start", "stop"} => wk'.running = wk.running
      PROVE  MessagesInOrder'
  <2> USE <1>RecvKeepsOrder
  <2> DEFINE n == Len(msgs)
  <2>0. msgs \in Seq(Messages)
    BY DEF WorkerTypeOK
  <2>1. /\ n \in Nat /\ n >= 1 /\ DOMAIN msgs = 1 .. n /\ DOMAIN msgs' = 1 .. (n - 1)
        /\ \A i \in 1 .. (n - 1) : msgs'[i] = msgs[i + 1]
    BY <2>0
  <2> HIDE DEF n
  <2>2. \A i \in 1 .. (n - 1) : i + 1 \in 1 .. n /\ i + 1 # 1 /\ (i + 1) - 1 = i
    BY <2>1
  <2>3. \A i \in 1 .. n : i = 1 \/ (i - 1 \in 1 .. (n - 1) /\ msgs'[i - 1] = msgs[i])
    BY <2>1
  <2>4. 1 \in 1 .. n
    BY <2>1
  <2>5. /\ vm = "running" <=> /\ wk.running \/ \E i \in 1 .. n : msgs[i].kind = "start"
                              /\ \A i \in 1 .. n : msgs[i].kind # "stop"
        /\ \A i \in 1 .. n : msgs[i].kind = "start" => ~wk.running
        /\ \A i \in 1 .. n : msgs[i].kind \in {"oom"} \cup AsyncKinds =>
             wk.running \/ \E j \in 1 .. (i - 1) : msgs[j].kind = "start"
    BY <2>1, Zenon DEF MessagesInOrder
  <2>6. /\ (\A i \in 1 .. n : msgs[i].kind # "stop") <=>
              /\ m.kind # "stop"
              /\ \A i \in 1 .. (n - 1) : msgs'[i].kind # "stop"
        /\ (\E i \in 1 .. n : msgs[i].kind = "start") <=>
              \/ m.kind = "start"
              \/ \E i \in 1 .. (n - 1) : msgs'[i].kind = "start"
    <3>1. \A i \in 1 .. n : msgs[i] = m \/ \E j \in 1 .. (n - 1) : msgs'[j] = msgs[i]
      BY <2>3, Zenon
    <3>2. /\ \A j \in 1 .. (n - 1) : \E i \in 1 .. n : msgs[i] = msgs'[j]
          /\ \E i \in 1 .. n : msgs[i] = m
      BY <2>1, <2>2, <2>4, Zenon
    <3>3. ASSUME NEW k
          PROVE  (\E i \in 1 .. n : msgs[i].kind = k) <=>
                    (m.kind = k \/ \E j \in 1 .. (n - 1) : msgs'[j].kind = k)
      <4>1. ASSUME NEW i \in 1 .. n, msgs[i].kind = k
            PROVE  m.kind = k \/ \E j \in 1 .. (n - 1) : msgs'[j].kind = k
        BY <3>1, <4>1, Zenon
      <4>2. ASSUME m.kind = k PROVE \E i \in 1 .. n : msgs[i].kind = k
        BY <3>2, <4>2, Zenon
      <4>3. ASSUME NEW j \in 1 .. (n - 1), msgs'[j].kind = k PROVE \E i \in 1 .. n : msgs[i].kind = k
        BY <3>2, <4>3, Zenon
      <4> QED BY <4>1, <4>2, <4>3, Zenon
    <3> QED BY <3>3, Zenon
  <2> SUFFICES
        /\ vm = "running" <=> /\ wk'.running \/ \E i \in 1 .. (n - 1) : msgs'[i].kind = "start"
                              /\ \A i \in 1 .. (n - 1) : msgs'[i].kind # "stop"
        /\ \A i \in 1 .. (n - 1) : msgs'[i].kind = "start" => ~wk'.running
        /\ \A i \in 1 .. (n - 1) : msgs'[i].kind \in {"oom"} \cup AsyncKinds =>
             wk'.running \/ \E j \in 1 .. (i - 1) : msgs'[j].kind = "start"
    BY <2>1, Zenon DEF MessagesInOrder
  <2>7. CASE m.kind = "start"
    <3>1. \A i \in 1 .. (n - 1) : msgs'[i].kind # "start"
      <4>1. \A i, j \in 1 .. n : msgs[i].kind = "start" /\ msgs[j].kind = "start" => i = j
        BY <2>1 DEF MessagesSingle, MessagesOnce
      <4> QED BY <2>1, <2>2, <2>4, <2>7, <4>1, Zenon
    <3>2. "start" # "stop"
      OBVIOUS
    <3> QED BY <2>5, <2>6, <2>7, <3>1, <3>2, Zenon
  <2>8. CASE m.kind = "stop"
    <3>1. 1 = n
      <4>1. "stop" \in AckKinds
        BY DEF AckKinds
      <4> QED BY <2>1, <2>4, <2>8, <4>1, Zenon DEF MessagesSingle, MessagesKnown, n
    <3>2. \A i \in 1 .. (n - 1) : FALSE
      BY <3>1
    <3> QED BY <2>5, <2>6, <2>8, <3>2, Zenon
  <2>9. CASE m.kind \notin {"start", "stop"}
    <3>1. wk'.running = wk.running /\ m.kind # "start" /\ m.kind # "stop"
      BY <2>9, Zenon
    <3>2. \A i \in 1 .. (n - 1) : msgs'[i].kind = "start" => ~wk'.running
      BY <2>1, <2>2, <2>5, <3>1, Zenon
    <3>3. ASSUME NEW i \in 1 .. (n - 1), msgs'[i].kind \in {"oom"} \cup AsyncKinds, ~wk'.running
          PROVE  \E j \in 1 .. (i - 1) : msgs'[j].kind = "start"
      <4>1. i + 1 \in 1 .. n /\ msgs[i + 1].kind \in {"oom"} \cup AsyncKinds
        BY <2>1, <2>2, <3>3, Zenon
      <4>2. PICK j \in 1 .. ((i + 1) - 1) : msgs[j].kind = "start"
        BY <2>5, <3>1, <3>3, <4>1, Zenon
      <4>3. j # 1
        BY <3>1, <4>2, Zenon
      <4>4. j \in 1 .. n /\ j - 1 \in 1 .. (i - 1)
        BY <2>1, <4>3
      <4> QED BY <2>3, <4>2, <4>3, <4>4, Zenon
    <3> QED BY <2>5, <2>6, <3>1, <3>2, <3>3, Zenon
  <2> QED BY <2>7, <2>8, <2>9, Zenon
\* A step that leaves the messages alone, and the worker running or stopped.
<1>QuietMessages.
      ASSUME MessagesSingle, MessagesInOrder, UNCHANGED <<msgs, pending, ack, owed, vm>>,
             wk'.running = wk.running
      PROVE  MessagesSingle' /\ MessagesInOrder'
  <2> USE <1>QuietMessages
  <2>1. msgs' = msgs /\ pending' = pending /\ ack' = ack /\ owed' = owed /\ vm' = vm
    OBVIOUS
  <2>2. MessagesOnce'
    BY <2>1 DEF MessagesSingle, MessagesOnce
  <2>3. MessagesKnown'
    BY <2>1 DEF MessagesSingle, MessagesKnown
  <2>4. MessagesThere'
    BY <2>1 DEF MessagesSingle, MessagesThere
  <2>5. MessagesInOrder'
    BY <2>1 DEF MessagesInOrder
  <2> QED BY <2>2, <2>3, <2>4, <2>5 DEF MessagesSingle
\* A message is sent.
<1>SendStep.
      ASSUME WorkerInductive, NEW m \in Messages, msgs' = Append(msgs, m), ack = "none",
             wk' = wk, due' = due, kick' \in BOOLEAN, vm' \in {"running", "stopped"},
             pending' \subseteq {"WAKEUP", "OOM"},
             m.cookie # NoCookie <=> m.kind \in AsyncKinds,
             m.kind = "wakeup" => "WAKEUP" \notin pending,
             m.kind = "oom" => "OOM" \notin pending,
             m.cookie # NoCookie => owed[m.cookie] = 0,
             "WAKEUP" \in pending' <=> "WAKEUP" \in pending \/ m.kind = "wakeup",
             "OOM" \in pending' <=> "OOM" \in pending \/ m.kind = "oom",
             owed' = IF m.cookie = NoCookie THEN owed ELSE [owed EXCEPT ![m.cookie] = 1],
             ack' = IF m.kind \in AckKinds THEN m.kind ELSE ack,
             m.kind \in {"oom"} \cup AsyncKinds => vm = "running",
             m.kind = "start" => vm = "stopped",
             vm' = IF m.kind = "start" THEN "running"
                   ELSE IF m.kind = "stop" THEN "stopped" ELSE vm
      PROVE  WorkerInductive'
  <2> USE <1>SendStep
  <2>1. /\ WorkerTypeOK /\ Watched(wk) /\ RingsNoticed /\ SourceDue
        /\ MessagesSingle /\ MessagesInOrder
    BY DEF WorkerInductive
  <2>2. msgs \in Seq(Messages) /\ owed \in [Cookies -> {0, 1}]
    BY <2>1 DEF WorkerTypeOK
  <2>3. msgs' \in Seq(Messages) /\ msgs' # <<>>
    BY <2>2, <1>AppendMessage, Zenon
  <2>4. owed' \in [Cookies -> {0, 1}]
    <3>1. m.cookie # NoCookie => m.cookie \in Cookies
      BY DEF Messages
    <3> QED BY <2>2, <3>1
  <2>5. WorkerTypeOK'
    BY <2>1, <2>3, <2>4, Zenon DEF WorkerTypeOK
  <2>6. m.kind = "start" => \A i \in DOMAIN msgs : msgs[i].kind # "start"
    <3>1. "none" \notin AckKinds /\ "stop" \in AckKinds /\ "running" # "stopped"
      BY DEF AckKinds
    <3>2. \A i \in DOMAIN msgs : msgs[i].kind # "stop"
      BY <2>1, <3>1, Zenon DEF MessagesSingle, MessagesKnown
    <3> QED BY <2>1, <3>1, <3>2, Zenon DEF MessagesInOrder
  <2>7. MessagesSingle'
    BY <2>1, <2>6, <1>SendKeepsSingle, Zenon
  <2>8. MessagesInOrder'
    BY <2>1, <1>SendKeepsOrder, Zenon
  <2>9. Watched(wk)' /\ SourceDue'
    BY <2>1, Zenon DEF SourceDue, Watched
  <2>10. RingsNoticed'
    BY <2>3, Zenon DEF RingsNoticed
  <2> QED BY <2>5, <2>7, <2>8, <2>9, <2>10, Zenon DEF WorkerInductive
\* The calls of the emulator, each a message.
<1>CallSteps.
      ASSUME WorkerInductive,
             \/ SpiceQxlWakeup \/ SpiceQxlOom \/ VmStart \/ VmStop \/ RedQxlDestroy \/ SettingCall
             \/ \E k \in AsyncKinds, c \in Cookies : AsyncCall(k, c)
             \/ \E k \in AckKinds : SyncCall(k)
      PROVE  WorkerInductive'
  <2> USE <1>CallSteps
  <2>0. /\ WorkerTypeOK /\ Watched(wk) /\ RingsNoticed /\ SourceDue
        /\ MessagesSingle /\ MessagesInOrder
    BY DEF WorkerInductive
  <2>1. /\ msgs \in Seq(Messages) /\ pending \subseteq {"WAKEUP", "OOM"}
        /\ kick \in BOOLEAN /\ vm \in {"running", "stopped"} /\ NoCookie \notin Cookies
    BY <2>0, WorkerAssumption DEF WorkerTypeOK
  <2> DEFINE msg(k) == Message(k, NoCookie)
  <2>2. \A k \in MessageKinds : /\ msg(k) \in Messages /\ msg(k).kind = k /\ msg(k).cookie = NoCookie
    BY DEF Message, Messages
  <2> HIDE DEF msg
  <2>3. /\ {"wakeup", "oom", "start", "stop", "close", "setting"} \subseteq MessageKinds
        /\ {"wakeup", "oom", "start", "stop", "close", "setting"} \cap AsyncKinds = {}
        /\ {"wakeup", "oom", "start", "close", "setting"} \cap AckKinds = {} /\ "stop" \in AckKinds
        /\ AckKinds \cap AsyncKinds = {} /\ AckKinds \subseteq MessageKinds
        /\ AsyncKinds \subseteq MessageKinds
        /\ {"wakeup", "oom", "start"} \cap (AckKinds \cup AsyncKinds) = {} /\ "stop" \notin AsyncKinds
    BY DEF MessageKinds, AckKinds, AsyncKinds
  <2>4. CASE SpiceQxlWakeup
    <3>0. /\ ack = "none" /\ kick' = FALSE /\ wk' = wk /\ ack' = ack /\ owed' = owed /\ vm' = vm
          /\ due' = due
      BY <2>4 DEF SpiceQxlWakeup
    <3>1. CASE "WAKEUP" \in pending
      <4>1. pending' = pending /\ msgs' = msgs
        BY <2>4, <3>1 DEF SpiceQxlWakeup, SetPending
      <4>2. msgs # <<>>
        BY <2>0, <2>1, <3>1 DEF MessagesSingle, MessagesThere
      <4>3. MessagesSingle' /\ MessagesInOrder'
        BY <2>0, <3>0, <4>1, <1>QuietMessages, Zenon
      <4>4. WorkerTypeOK' /\ Watched(wk)' /\ SourceDue'
        BY <2>0, <3>0, <4>1, Zenon DEF WorkerTypeOK, SourceDue, Watched
      <4>5. RingsNoticed'
        BY <4>1, <4>2, Zenon DEF RingsNoticed
      <4> QED BY <4>3, <4>4, <4>5 DEF WorkerInductive
    <3>2. CASE "WAKEUP" \notin pending
      <4>1. pending' = pending \cup {"WAKEUP"} /\ msgs' = Append(msgs, msg("wakeup"))
        BY <2>4, <3>2 DEF SpiceQxlWakeup, SetPending, msg
      <4>2. /\ msg("wakeup") \in Messages /\ msg("wakeup").kind = "wakeup"
            /\ msg("wakeup").cookie = NoCookie
        BY <2>2, <2>3
      <4>3. /\ pending' \subseteq {"WAKEUP", "OOM"} /\ "WAKEUP" \in pending'
            /\ "OOM" \in pending' <=> "OOM" \in pending
        BY <2>1, <4>1
      <4> QED BY <2>1, <2>3, <3>0, <3>2, <4>1, <4>2, <4>3, <1>SendStep, Zenon
    <3> QED BY <3>1, <3>2
  <2>5. CASE SpiceQxlOom
    <3>0. /\ ack = "none" /\ kick' = kick /\ wk' = wk /\ ack' = ack /\ owed' = owed /\ vm' = vm
          /\ due' = due /\ vm = "running"
      BY <2>5 DEF SpiceQxlOom, May
    <3>1. CASE "OOM" \in pending
      <4>1. pending' = pending /\ msgs' = msgs
        BY <2>5, <3>1 DEF SpiceQxlOom, SetPending
      <4>2. MessagesSingle' /\ MessagesInOrder'
        BY <2>0, <3>0, <4>1, <1>QuietMessages, Zenon
      <4>3. WorkerTypeOK' /\ Watched(wk)' /\ SourceDue' /\ RingsNoticed'
        BY <2>0, <3>0, <4>1, Zenon DEF WorkerTypeOK, SourceDue, Watched, RingsNoticed
      <4> QED BY <4>2, <4>3 DEF WorkerInductive
    <3>2. CASE "OOM" \notin pending
      <4>1. pending' = pending \cup {"OOM"} /\ msgs' = Append(msgs, msg("oom"))
        BY <2>5, <3>2 DEF SpiceQxlOom, SetPending, msg
      <4>2. /\ msg("oom") \in Messages /\ msg("oom").kind = "oom"
            /\ msg("oom").cookie = NoCookie
        BY <2>2, <2>3
      <4>3. /\ pending' \subseteq {"WAKEUP", "OOM"} /\ "OOM" \in pending'
            /\ "WAKEUP" \in pending' <=> "WAKEUP" \in pending
        BY <2>1, <4>1
      <4> QED BY <2>1, <2>3, <3>0, <3>2, <4>1, <4>2, <4>3, <1>SendStep
    <3> QED BY <3>1, <3>2
  <2>6. CASE VmStart
    <3>0. /\ ack = "none" /\ kick' = kick /\ wk' = wk /\ ack' = ack /\ owed' = owed /\ vm = "stopped"
          /\ vm' = "running" /\ due' = due /\ pending' = pending /\ msgs' = Append(msgs, msg("start"))
      BY <2>6 DEF VmStart, May, msg
    <3>1. msg("start") \in Messages /\ msg("start").kind = "start" /\ msg("start").cookie = NoCookie
      BY <2>2, <2>3
    <3> QED BY <2>1, <2>3, <3>0, <3>1, <1>SendStep
  <2>7. CASE VmStop
    <3>0. /\ ack = "none" /\ kick' = kick /\ wk' = wk /\ ack' = "stop" /\ owed' = owed
          /\ vm' = "stopped" /\ due' = due /\ pending' = pending /\ msgs' = Append(msgs, msg("stop"))
      BY <2>7 DEF VmStop, May, msg
    <3>1. msg("stop") \in Messages /\ msg("stop").kind = "stop" /\ msg("stop").cookie = NoCookie
      BY <2>2, <2>3
    <3> QED BY <2>1, <2>3, <3>0, <3>1, <1>SendStep
  <2>8. ASSUME NEW k \in {"close", "setting"}, RedQxlDestroy \/ SettingCall,
               msgs' = Append(msgs, msg(k))
        PROVE  WorkerInductive'
    <3>0. /\ ack = "none" /\ kick' = kick /\ wk' = wk /\ ack' = ack /\ owed' = owed
          /\ vm' = vm /\ due' = due /\ pending' = pending
      BY <2>8 DEF RedQxlDestroy, SettingCall, May
    <3>1. msg(k) \in Messages /\ msg(k).kind = k /\ msg(k).cookie = NoCookie
      BY <2>2, <2>3
    <3> QED BY <2>1, <2>3, <2>8, <3>0, <3>1, <1>SendStep
  <2>9. CASE RedQxlDestroy \/ SettingCall
    <3>1. \E k \in {"close", "setting"} : msgs' = Append(msgs, msg(k))
      BY <2>9, Zenon DEF RedQxlDestroy, SettingCall, msg
    <3> QED BY <2>8, <2>9, <3>1
  <2>10. ASSUME NEW k \in AsyncKinds, NEW c \in Cookies, AsyncCall(k, c)
         PROVE  WorkerInductive'
    <3> DEFINE m == Message(k, c)
    <3>0. /\ ack = "none" /\ kick' = kick /\ wk' = wk /\ ack' = ack /\ vm = "running" /\ vm' = vm
          /\ due' = due /\ pending' = pending /\ msgs' = Append(msgs, m)
          /\ owed[c] = 0 /\ owed' = [owed EXCEPT ![c] = 1]
      BY <2>10 DEF AsyncCall, May
    <3>1. m \in Messages /\ m.kind = k /\ m.cookie = c
      BY <2>3 DEF Message, Messages
    <3> HIDE DEF m
    <3>2. c # NoCookie /\ k \notin AckKinds /\ k \notin {"wakeup", "oom", "start", "stop"}
      BY <2>1, <2>3
    <3> QED BY <2>1, <3>0, <3>1, <3>2, <1>SendStep, Zenon
  <2>11. ASSUME NEW k \in AckKinds, SyncCall(k)
         PROVE  WorkerInductive'
    <3>0. /\ ack = "none" /\ kick' = kick /\ wk' = wk /\ ack' = k /\ owed' = owed
          /\ vm' = vm /\ due' = due /\ pending' = pending /\ msgs' = Append(msgs, msg(k)) /\ k # "stop"
      BY <2>11 DEF SyncCall, May, msg
    <3>1. msg(k) \in Messages /\ msg(k).kind = k /\ msg(k).cookie = NoCookie
      BY <2>2, <2>3
    <3>2. k \notin AsyncKinds /\ k \notin {"wakeup", "oom", "start", "stop"}
      BY <2>3, <3>0
    <3> QED BY <2>1, <3>0, <3>1, <3>2, <1>SendStep
  <2> QED BY <2>4, <2>5, <2>6, <2>7, <2>9, <2>10, <2>11
\* The guest pushes a command; a ring that was watched makes the vCPU call.
<1>PushStep.
      ASSUME WorkerInductive, NEW r \in Rings, GuestPush(r)
      PROVE  WorkerInductive'
  <2> USE <1>PushStep
  <2>0. /\ WorkerTypeOK /\ Watched(wk) /\ RingsNoticed /\ SourceDue
        /\ MessagesSingle /\ MessagesInOrder
    BY DEF WorkerInductive
  <2>1. /\ msgs' = msgs /\ pending' = pending /\ ack' = ack /\ owed' = owed /\ vm' = vm
        /\ due' = due /\ kick' = (kick \/ wk.notify[r])
        /\ wk' = [wk EXCEPT !.ring[r] = @ + 1, !.notify[r] = FALSE]
    BY DEF GuestPush
  <2>2. wk \in WorkerState /\ kick \in BOOLEAN
    BY <2>0 DEF WorkerTypeOK
  <2> DEFINE ring == [wk.ring EXCEPT ![r] = @ + 1]
             notify == [wk.notify EXCEPT ![r] = FALSE]
  <2>3. /\ wk' = [wk EXCEPT !.ring = ring, !.notify = notify]
    BY <2>1, <2>2 DEF WorkerState
  <2>4. ring \in Counts /\ \A q \in Rings : q # r => ring[q] = wk.ring[q]
    BY <2>2, <1>StateFields DEF Counts
  <2>5. ring[r] > 0 /\ ring[r] # 0
    BY <2>2, <1>StateFields
  <2>6. wk.notify \in Flags /\ notify \in Flags /\ \A q \in Rings : q # r => notify[q] = wk.notify[q]
    BY <2>2 DEF WorkerState, Flags
  <2> HIDE DEF ring, notify
  <2>7. /\ wk' \in WorkerState /\ wk'.ring = ring /\ wk'.notify = notify /\ wk'.tries = wk.tries
        /\ wk'.running = wk.running /\ wk'.open = wk.open /\ wk'.timeout = wk.timeout
        /\ wk'.wasBlocked = wk.wasBlocked
    BY <2>2, <2>3, <2>4, <2>6, Zenon DEF WorkerState
  <2>8. MessagesSingle' /\ MessagesInOrder'
    BY <2>0, <2>1, <2>7, <1>QuietMessages, Zenon
  <2>9. kick' \in BOOLEAN
    BY <2>1, Zenon
  <2>10. WorkerTypeOK'
    BY <2>0, <2>1, <2>7, <2>9, Zenon DEF WorkerTypeOK
  <2>11. Watched(wk)'
    <3> SUFFICES ASSUME NEW q \in Rings, wk'.tries[q] > Retries
                 PROVE  wk'.notify[q] \/ wk'.ring[q] > 0
      BY Zenon DEF Watched
    <3>1. CASE q = r
      BY <2>5, <2>7, <3>1, Zenon
    <3>2. CASE q # r
      BY <2>0, <2>4, <2>6, <2>7, <3>2, Zenon DEF Watched
    <3> QED BY <3>1, <3>2
  <2>12. RingsNoticed'
    <3> SUFFICES ASSUME NEW q \in Rings, wk'.open, wk'.running, wk'.ring[q] > 0 \/ ~wk'.notify[q]
                 PROVE  \/ due' # {} \/ wk'.timeout # Inf \/ wk'.wasBlocked
                        \/ msgs' # <<>> \/ kick'
      BY Zenon DEF RingsNoticed
    <3>1. CASE q = r /\ wk.notify[r]
      BY <2>1, <3>1, Zenon
    <3>2. CASE q = r /\ ~wk.notify[r]
      BY <2>0, <2>1, <2>7, <3>2, Zenon DEF RingsNoticed
    <3>3. CASE q # r
      BY <2>0, <2>1, <2>4, <2>6, <2>7, <3>3, Zenon DEF RingsNoticed
    <3> QED BY <3>1, <3>2, <3>3
  <2>13. SourceDue'
    BY <2>0, <2>1, <2>7, Zenon DEF SourceDue
  <2> QED BY <2>8, <2>10, <2>11, <2>12, <2>13 DEF WorkerInductive
\* What is ready includes the rings of a running worker.
<1>ReadyDue.
      ASSUME NEW w
      PROVE  /\ Ready(w) \subseteq {"watch", "source"}
             /\ w.running => "source" \in Ready(w)
  BY <1>ReadyDue DEF Ready
\* The loop wakes up.
<1>WakesStep.
      ASSUME WorkerInductive, LoopWakes
      PROVE  WorkerInductive'
  <2> USE <1>WakesStep
  <2>0. /\ WorkerTypeOK /\ Watched(wk) /\ RingsNoticed /\ SourceDue
        /\ MessagesSingle /\ MessagesInOrder
    BY DEF WorkerInductive
  <2>1. /\ msgs' = msgs /\ pending' = pending /\ ack' = ack /\ owed' = owed /\ vm' = vm
        /\ wk' = wk /\ kick' = kick /\ due' = Ready(wk) /\ due' # {}
    BY DEF LoopWakes
  <2>2. due' \subseteq {"watch", "source"} /\ (wk.running => "source" \in due')
    BY <2>1, <1>ReadyDue, Zenon
  <2>3. MessagesSingle' /\ MessagesInOrder'
    BY <2>0, <2>1, <1>QuietMessages, Zenon
  <2>4. WorkerTypeOK' /\ Watched(wk)' /\ RingsNoticed' /\ SourceDue'
    BY <2>0, <2>1, <2>2, Zenon DEF WorkerTypeOK, Watched, RingsNoticed, SourceDue
  <2> QED BY <2>3, <2>4 DEF WorkerInductive
\* A client takes an item, which may unblock the rings.
<1>TakesStep.
      ASSUME WorkerInductive, NEW r \in Rings, ClientTakes(r)
      PROVE  WorkerInductive'
  <2> USE <1>TakesStep
  <2>0. /\ WorkerTypeOK /\ Watched(wk) /\ RingsNoticed /\ SourceDue
        /\ MessagesSingle /\ MessagesInOrder
    BY DEF WorkerInductive
  <2> DEFINE w == [wk EXCEPT !.pipe[r] = @ - 1]
  <2>1. /\ msgs' = msgs /\ pending' = pending /\ ack' = ack /\ owed' = owed /\ vm' = vm
        /\ wk' = w /\ kick' = kick /\ due' = Ready(w) /\ wk.pipe[r] > 0
    BY DEF ClientTakes
  <2>2. wk \in WorkerState
    BY <2>0 DEF WorkerTypeOK
  <2> DEFINE pipe == [wk.pipe EXCEPT ![r] = @ - 1]
  <2>3. w = [wk EXCEPT !.pipe = pipe]
    BY <2>2 DEF WorkerState
  <2>4. pipe \in Counts
    BY <2>1, <2>2, <1>StateFields DEF Counts
  <2> HIDE DEF w, pipe
  <2>5. SameRings(wk, w)
    BY <2>2, <2>3, <2>4 DEF SameRings, WorkerState
  <2>6. Watched(w)
    BY <2>0, <2>5, <1>SameRingsWatched, Zenon
  <2>7. due' \subseteq {"watch", "source"} /\ (wk'.running => "source" \in due')
    BY <2>1, <1>ReadyDue, Zenon
  <2>8. MessagesSingle' /\ MessagesInOrder'
    BY <2>0, <2>1, <2>5, <1>QuietMessages, Zenon DEF SameRings
  <2>9. WorkerTypeOK' /\ Watched(wk)'
    BY <2>0, <2>1, <2>5, <2>6, <2>7, Zenon DEF WorkerTypeOK, SameRings, Watched
  <2>10. RingsNoticed' /\ SourceDue'
    BY <2>7, Zenon DEF RingsNoticed, SourceDue
  <2> QED BY <2>8, <2>9, <2>10 DEF WorkerInductive
\* The rings are served.
<1>DispatchStep.
      ASSUME WorkerInductive, WorkerSourceDispatch
      PROVE  WorkerInductive'
  <2> USE <1>DispatchStep
  <2>0. /\ WorkerTypeOK /\ Watched(wk) /\ MessagesSingle /\ MessagesInOrder
    BY DEF WorkerInductive
  <2> DEFINE w == [wk EXCEPT !.timeout = Inf, !.wasBlocked = FALSE]
  <2>1. /\ msgs' = msgs /\ pending' = pending /\ ack' = ack /\ owed' = owed /\ vm' = vm
        /\ kick' = kick /\ due' = due \ {"source"} /\ "watch" \notin due
    BY DEF WorkerSourceDispatch
  <2>2. PICK c \in RedProcessCursor(w) : \E d \in RedProcessDisplay(c.w) : wk' = d.w
    BY DEF WorkerSourceDispatch
  <2>3. PICK d \in RedProcessDisplay(c.w) : wk' = d.w
    BY <2>2
  <2>4. wk \in WorkerState /\ due \subseteq {"watch", "source"}
    BY <2>0 DEF WorkerTypeOK
  <2>5. SameRings(wk, w)
    BY <2>4, Zenon DEF SameRings, WorkerState
  <2> HIDE DEF w
  <2>6. w \in WorkerState /\ Watched(w) /\ w.running = wk.running
    BY <2>0, <2>5, <1>SameRingsWatched, Zenon DEF SameRings
  <2>7. "cursor" \in Rings /\ "display" \in Rings /\ \A r \in Rings : r = "cursor" \/ r = "display"
    BY DEF Rings
  <2>8. due' = {}
    BY <2>1, <2>4
  <2>9. /\ wk' \in WorkerState /\ Watched(wk') /\ wk'.running = wk.running
        /\ wk.running => \A r \in Rings : Settled(wk', r)
    <3>1. CASE ~wk.running
      <4>1. c.w = w
        BY <2>2, <2>6, <3>1 DEF RedProcessCursor, Result
      <4>2. wk' = w
        BY <2>3, <2>6, <3>1, <4>1 DEF RedProcessDisplay, Result
      <4> QED BY <2>6, <3>1, <4>2, Zenon
    <3>2. CASE wk.running
      <4>1. c \in ProcessLoop(w, "cursor")
        BY <2>2, <2>6, <3>2 DEF RedProcessCursor
      <4>2. Kept(w, c.w) /\ Settled(c.w, "cursor")
        BY <2>6, <2>7, <4>1, <1>ProcessLoopSettles, Zenon
      <4>3. c.w \in WorkerState /\ Watched(c.w) /\ c.w.running
        BY <2>6, <3>2, <4>2, Zenon DEF Kept
      <4>4. /\ Kept(c.w, wk') /\ Settled(wk', "display")
            /\ \A q \in Rings : Settled(c.w, q) => Settled(wk', q)
        BY <2>3, <4>3, <1>ProcessDisplaySettles, Zenon
      <4> QED BY <2>6, <2>7, <4>2, <4>4, Zenon DEF Kept
    <3> QED BY <3>1, <3>2
  <2>10. MessagesSingle' /\ MessagesInOrder'
    BY <2>0, <2>1, <2>9, <1>QuietMessages, Zenon
  <2>11. WorkerTypeOK'
    BY <2>0, <2>1, <2>8, <2>9, Zenon DEF WorkerTypeOK
  <2>12. Watched(wk)' /\ SourceDue'
    BY <2>8, <2>9, Zenon DEF SourceDue, Watched
  <2>13. RingsNoticed'
    <3> SUFFICES ASSUME NEW q \in Rings, wk'.open, wk'.running, wk'.ring[q] > 0 \/ ~wk'.notify[q]
                 PROVE  \/ due' # {} \/ wk'.timeout # Inf \/ wk'.wasBlocked
                        \/ msgs' # <<>> \/ kick'
      BY Zenon DEF RingsNoticed
    <3>1. ~(0 > 0)
      OBVIOUS
    <3> QED BY <2>9, <3>1, Zenon DEF Settled
  <2> QED BY <2>10, <2>11, <2>12, <2>13 DEF WorkerInductive
\* A message is handled.
<1>ReceiveStep.
      ASSUME WorkerInductive, HandleSingleRead
      PROVE  WorkerInductive'
  <2> USE <1>ReceiveStep
  <2>0. /\ WorkerTypeOK /\ Watched(wk) /\ RingsNoticed /\ SourceDue
        /\ MessagesSingle /\ MessagesInOrder
    BY DEF WorkerInductive
  <2> DEFINE m == msgs[1]
  <2>1. /\ wk \in WorkerState /\ msgs \in Seq(Messages) /\ owed \in [Cookies -> {0, 1}]
        /\ pending \subseteq {"WAKEUP", "OOM"} /\ due \subseteq {"watch", "source"}
        /\ ack \in AckKinds \cup {"none"}
    BY <2>0 DEF WorkerTypeOK
  <2>2. "watch" \in due /\ msgs # <<>> /\ msgs' = Tail(msgs) /\ vm' = vm /\ kick' = kick
    BY DEF HandleSingleRead
  <2>3. Shorter(msgs, msgs') /\ msgs' \in Seq(Messages) /\ Head(msgs) = m
    BY <2>1, <2>2, <1>TailMessage, Zenon
  <2>4. /\ wk' \in Handled(wk, m.kind)
        /\ pending' = CASE m.kind = "wakeup" -> pending \ {"WAKEUP"}
                        [] m.kind = "oom" /\ wk.running -> pending \ {"OOM"}
                        [] OTHER -> pending
        /\ owed' = IF m.cookie = NoCookie \/ (m.kind = "update_async" /\ ~wk.running)
                   THEN owed ELSE [owed EXCEPT ![m.cookie] = @ - 1]
        /\ ack' = IF m.kind = ack THEN "none" ELSE ack
    <3>1. LET h == Head(msgs)
          IN  /\ wk' \in Handled(wk, h.kind)
              /\ pending' = CASE h.kind = "wakeup" -> pending \ {"WAKEUP"}
                              [] h.kind = "oom" /\ wk.running -> pending \ {"OOM"}
                              [] OTHER -> pending
              /\ owed' = IF h.cookie = NoCookie \/ (h.kind = "update_async" /\ ~wk.running)
                         THEN owed ELSE [owed EXCEPT ![h.cookie] = @ - 1]
              /\ ack' = IF h.kind = ack THEN "none" ELSE ack
      BY DEF HandleSingleRead
    <3> QED BY <2>3, <3>1, Zenon
  <2>5. due' = due \ {"watch"} \/ due' = due
    BY DEF HandleSingleRead
  <2>6. 1 \in DOMAIN msgs /\ m \in Messages
    BY <2>3 DEF Shorter
  <2> HIDE DEF m
  <2>7. m.kind \in MessageKinds /\ (m.cookie # NoCookie => m.cookie \in Cookies)
    BY <2>6 DEF Messages
  <2>8. m.kind \in {"oom"} \cup AsyncKinds => wk.running
    <3>1. m.kind \in {"oom"} \cup AsyncKinds => wk.running \/ \E j \in 1 .. (1 - 1) : msgs[j].kind = "start"
      BY <2>0, <2>6, Zenon DEF MessagesInOrder, m
    <3>2. \A j \in 1 .. (1 - 1) : FALSE
      OBVIOUS
    <3> QED BY <3>1, <3>2, Zenon
  <2>9. /\ wk' \in WorkerState /\ Watched(wk')
        /\ wk.timeout = Now => wk'.timeout = Now
        /\ m.kind = "start" => wk'.running /\ (wk.running \/ wk'.timeout = Now)
        /\ m.kind = "stop" => ~wk'.running
        /\ m.kind \notin {"start", "stop"} => wk'.running = wk.running
    <3>1. HandledTo(wk, m.kind, wk')
      BY <2>0, <2>1, <2>4, <2>7, <1>HandledKeeps, Zenon
    <3> QED BY <3>1 DEF HandledTo
  <2>10. /\ m.cookie # NoCookie => owed[m.cookie] = 1
         /\ m.cookie # NoCookie <=> m.kind \in AsyncKinds
    BY <2>0, <2>6, Zenon DEF MessagesSingle, MessagesKnown, m
  <2>11. owed' = IF m.cookie = NoCookie THEN owed ELSE [owed EXCEPT ![m.cookie] = 0]
    <3>1. CASE m.cookie = NoCookie
      BY <2>4, <3>1
    <3>2. CASE m.cookie # NoCookie
      <4>1. wk.running /\ owed[m.cookie] = 1 /\ m.cookie \in Cookies
        BY <2>7, <2>8, <2>10, <3>2, Zenon
      <4>2. owed' = [owed EXCEPT ![m.cookie] = owed[m.cookie] - 1]
        BY <2>4, <3>2, <4>1
      <4>3. owed[m.cookie] - 1 = 0
        BY <4>1
      <4> QED BY <3>2, <4>2, <4>3, Zenon
    <3> QED BY <3>1, <3>2
  <2>12. /\ "WAKEUP" \in pending' <=> "WAKEUP" \in pending /\ m.kind # "wakeup"
         /\ "OOM" \in pending' <=> "OOM" \in pending /\ m.kind # "oom"
         /\ pending' \subseteq {"WAKEUP", "OOM"}
    BY <2>1, <2>4, <2>8
  <2>13. MessagesSingle'
    BY <2>0, <2>3, <2>4, <2>11, <2>12, <1>RecvKeepsSingle, Zenon DEF m
  <2>14. MessagesInOrder'
    BY <2>0, <2>2, <2>9, <1>RecvKeepsOrder, Zenon DEF m
  <2>15. owed' \in [Cookies -> {0, 1}]
    BY <2>1, <2>7, <2>11
  <2>16. ack' \in AckKinds \cup {"none"} /\ due' \subseteq {"watch", "source"}
    BY <2>1, <2>4, <2>5
  <2>17. WorkerTypeOK'
    BY <2>0, <2>2, <2>3, <2>9, <2>12, <2>15, <2>16, Zenon DEF WorkerTypeOK
  <2>18. wk'.running => "source" \in due' \/ wk'.timeout = Now
    <3>1. wk.running => "source" \in due \/ wk.timeout = Now
      BY <2>0, <2>2, Zenon DEF SourceDue
    <3>2. "source" \in due => "source" \in due'
      BY <2>5
    <3>3. CASE m.kind = "start"
      BY <2>9, <3>1, <3>2, <3>3, Zenon
    <3>4. CASE m.kind = "stop"
      BY <2>9, <3>4, Zenon
    <3>5. CASE m.kind \notin {"start", "stop"}
      BY <2>9, <3>1, <3>2, <3>5, Zenon
    <3> QED BY <3>3, <3>4, <3>5, Zenon
  <2>19. Watched(wk)' /\ SourceDue'
    BY <2>9, <2>18, Zenon DEF Watched, SourceDue
  <2>20. RingsNoticed'
    <3>1. Now # Inf
      BY DEF Now, Inf
    <3> QED BY <2>18, <3>1, Zenon DEF RingsNoticed
  <2> QED BY <2>13, <2>14, <2>17, <2>19, <2>20 DEF WorkerInductive
<1> SUFFICES ASSUME WorkerInductive, [WorkerNext]_workerVars PROVE WorkerInductive'
  OBVIOUS
<1>1. CASE UNCHANGED workerVars
  <2>1. /\ wk' = wk /\ msgs' = msgs /\ pending' = pending /\ ack' = ack /\ owed' = owed
        /\ vm' = vm /\ kick' = kick /\ due' = due
    BY <1>1 DEF workerVars
  <2>2. MessagesSingle' /\ MessagesInOrder'
    BY <2>1, <1>QuietMessages, Zenon DEF WorkerInductive
  <2>3. WorkerTypeOK' /\ Watched(wk)' /\ RingsNoticed' /\ SourceDue'
    BY <2>1, Zenon DEF WorkerInductive, WorkerTypeOK, Watched, RingsNoticed, SourceDue
  <2> QED BY <2>2, <2>3 DEF WorkerInductive
<1>2. CASE WorkerNext
  <2>1. CASE \E r \in Rings : GuestPush(r) \/ ClientTakes(r)
    BY <2>1, <1>PushStep, <1>TakesStep, Zenon
  <2>2. CASE \/ SpiceQxlWakeup \/ SpiceQxlOom \/ VmStart \/ VmStop \/ RedQxlDestroy \/ SettingCall
             \/ \E k \in AsyncKinds, c \in Cookies : AsyncCall(k, c)
             \/ \E k \in AckKinds : SyncCall(k)
    BY <2>2, <1>CallSteps, Zenon
  <2>3. CASE LoopWakes
    BY <2>3, <1>WakesStep, Zenon
  <2>4. CASE HandleSingleRead
    BY <2>4, <1>ReceiveStep, Zenon
  <2>5. CASE WorkerSourceDispatch
    BY <2>5, <1>DispatchStep, Zenon
  <2> QED BY <1>2, <2>1, <2>2, <2>3, <2>4, <2>5, Zenon DEF WorkerNext
<1> QED BY <1>1, <1>2

-----------------------------------------------------------------------------
(* A migration from this server *)


\* The flags are booleans.
FlagsOK ==
  /\ inProgress \in BOOLEAN /\ waitConnect \in BOOLEAN /\ waitDisconnect \in BOOLEAN /\ timer \in BOOLEAN
  /\ owedConnect \in BOOLEAN /\ owedEnd \in BOOLEAN /\ stray \in BOOLEAN

\* A phase is entered only by a call of the emulator that is then open.
PhaseOwed ==
  /\ waitConnect => owedConnect
  /\ waitDisconnect /\ ~waitConnect => owedEnd

CallbackInductive == FlagsOK /\ PhaseOwed /\ CallbackWillCome /\ AnsweredOnce

-----------------------------------------------------------------------------

\* Every step keeps the invariant.
LEMMA CallbackStep == CallbackInductive /\ [Next]_vars => CallbackInductive'
\* The end of a migration answers what is open.
<1>EndStep. ASSUME CallbackInductive, EndMigration, mode' = mode PROVE CallbackInductive'
  BY <1>EndStep, Zenon DEF CallbackInductive, FlagsOK, PhaseOwed, CallbackWillCome, AnsweredOnce, EndMigration, Multi
\* A step that touches neither the flags nor the emulator.
<1>KeepStep.
      ASSUME CallbackInductive, inProgress' = inProgress, waitConnect' = waitConnect, waitDisconnect' = waitDisconnect,
             timer' = timer, owedConnect' = owedConnect, owedEnd' = owedEnd, stray' = stray, mode' = mode
      PROVE  CallbackInductive'
  BY <1>KeepStep DEF CallbackInductive, FlagsOK, PhaseOwed, CallbackWillCome, AnsweredOnce, Multi
\* reds_mig_cleanup.
<1>CleanupStep. ASSUME CallbackInductive, Cleanup, mode' = mode PROVE CallbackInductive'
  BY <1>CleanupStep, <1>EndStep, <1>KeepStep DEF Cleanup, redsVars, emulator
\* A new client: alone it ends the migration, with others it clears the flags.
<1>MainLinkStep.
      ASSUME CallbackInductive, NEW c \in Clients, NEW target \in BOOLEAN, MainLink(c, target)
      PROVE  CallbackInductive'
  <2> USE <1>MainLinkStep
  <2>0. mode' = mode BY DEF MainLink
  <2>1. CASE Multi
    <3>1. /\ inProgress' = FALSE /\ waitConnect' = FALSE /\ waitDisconnect' = FALSE
          /\ timer' = timer /\ owedConnect' = owedConnect /\ owedEnd' = owedEnd /\ stray' = stray
      BY <2>1 DEF MainLink, emulator
    <3> QED BY <2>0, <2>1, <3>1, Zenon DEF CallbackInductive, FlagsOK, PhaseOwed, CallbackWillCome, AnsweredOnce, Multi
  <2>2. CASE ~Multi
    <3>1. Cleanup BY <2>2 DEF MainLink
    <3> QED BY <2>0, <3>1, <1>CleanupStep
  <2> QED BY <2>1, <2>2
\* A client that is gone ends the migration, or leaves the rest to the others.
<1>GoneStep.
      ASSUME CallbackInductive, NEW c \in Clients, HandleDisconnect(c)
      PROVE  CallbackInductive'
  <2> USE <1>GoneStep
  <2>1. mode' = mode /\ ClientDisconnect(c) BY DEF HandleDisconnect
  <2>2. CASE Cleanup BY <2>1, <2>2, <1>CleanupStep
  <2>3. CASE ~Cleanup
    <3>1. UNCHANGED <<inProgress, waitConnect, waitDisconnect, timer, emulator>> BY <2>1, <2>3 DEF ClientDisconnect
    <3> QED BY <2>1, <3>1, <1>KeepStep DEF emulator
  <2> QED BY <2>2, <2>3
\* spice_server_migrate_connect begins a phase, with its timer, when a client can be asked.
<1>ConnectStep. ASSUME CallbackInductive, MigrateConnect PROVE CallbackInductive'
  <2> USE <1>ConnectStep
  <2>1. /\ mode' = mode /\ ~owedConnect /\ ~owedEnd /\ owedConnect' = (Asked # {}) /\ owedEnd' = owedEnd /\ stray' = stray
    BY DEF MigrateConnect
  <2>2. ~waitConnect /\ ~waitDisconnect BY <2>1 DEF CallbackInductive, PhaseOwed
  <2>3. CASE Asked # {}
    <3>1. inProgress' = TRUE /\ waitConnect' = TRUE /\ timer' = TRUE /\ waitDisconnect' = waitDisconnect
      BY <2>3 DEF MigrateConnect, Started
    <3> QED BY <2>1, <2>2, <2>3, <3>1, Zenon DEF CallbackInductive, FlagsOK, PhaseOwed, CallbackWillCome, AnsweredOnce
  <2>4. CASE Asked = {}
    <3>1. UNCHANGED redsVars BY <2>4 DEF MigrateConnect
    <3> QED BY <2>1, <2>2, <2>4, <3>1 DEF CallbackInductive, FlagsOK, PhaseOwed, CallbackWillCome, AnsweredOnce, redsVars, Multi
  <2> QED BY <2>3, <2>4
\* spice_server_migrate_end waits for the clients to leave, or ends the migration.
<1>MigrateEndStep.
      ASSUME CallbackInductive, NEW completed \in BOOLEAN, MigrateEnd(completed)
      PROVE  CallbackInductive'
  <2> USE <1>MigrateEndStep
  <2>0. mode' = mode BY DEF MigrateEnd
  <2>1. CASE completed /\ ~expect /\ Known # {}
    <3>1. Cleanup BY <2>1 DEF MigrateEnd, Disconnect
    <3> QED BY <2>0, <3>1, <1>CleanupStep
  <2>2. CASE ~(completed /\ ~expect /\ Known # {}) /\ Up = {}
    <3>1. UNCHANGED <<redsVars, emulator>> BY <2>2 DEF MigrateEnd
    <3> QED BY <2>0, <3>1, <1>KeepStep DEF redsVars, emulator
  <2>3. CASE ~(completed /\ ~expect /\ Known # {}) /\ Up # {}
    <3>1. Finished(completed) BY <2>3 DEF MigrateEnd
    <3>2. CASE completed
      <4>1. FillWaitDisconnect BY <3>1, <3>2 DEF Finished
      <4> QED BY <2>0, <4>1, Zenon DEF FillWaitDisconnect, CallbackInductive, FlagsOK, PhaseOwed, CallbackWillCome, AnsweredOnce
    <3>3. CASE ~completed
      <4>1. EndMigration BY <3>1, <3>3 DEF Finished
      <4> QED BY <2>0, <4>1, <1>EndStep
    <3> QED BY <3>2, <3>3
  <2> QED BY <2>1, <2>2, <2>3
\* The last answer ends the wait for the answers.
<1>AnswerStep.
      ASSUME CallbackInductive, NEW c \in Clients, NEW i, NEW ok \in BOOLEAN, NEW seamless, Answer(c, i, ok, seamless)
      PROVE  CallbackInductive'
  <2> USE <1>AnswerStep
  <2>0. mode' = mode /\ (Cleanup \/ UNCHANGED <<redsVars, emulator>>) BY DEF Answer
  <2> QED BY <2>0, <1>CleanupStep, <1>KeepStep DEF redsVars, emulator
\* migrate_timeout ends whatever is waited for.
<1>TimeoutStep. ASSUME CallbackInductive, MigrateTimeout PROVE CallbackInductive'
  <2> USE <1>TimeoutStep
  <2>0. mode' = mode /\ Cleanup BY DEF MigrateTimeout, Disconnect
  <2> QED BY <2>0, <1>CleanupStep
<1> SUFFICES ASSUME CallbackInductive, [Next]_vars PROVE CallbackInductive' OBVIOUS
<1>1. CASE UNCHANGED vars BY <1>1, <1>KeepStep DEF vars, redsVars, emulator
<1>2. ASSUME NEW c \in Clients, NEW target \in BOOLEAN, MainLink(c, target) PROVE CallbackInductive'
  BY <1>2, <1>MainLinkStep
<1>3. ASSUME NEW c \in Clients, \/ MainDisconnect(c) \/ DstDoSeamless(c) \/ SeamlessDone(c)
                                \/ SeamlessComplete(c) \/ SemiSeamlessComplete(c)
      PROVE  CallbackInductive'
  <2>1. UNCHANGED <<mode, redsVars, emulator>>
    BY <1>3 DEF MainDisconnect, DstDoSeamless, SeamlessDone, SeamlessComplete, SemiSeamlessComplete
  <2> QED BY <2>1, <1>KeepStep DEF redsVars, emulator
<1>4. ASSUME NEW c \in Clients, HandleDisconnect(c) PROVE CallbackInductive' BY <1>4, <1>GoneStep
<1>5. ASSUME NEW c \in Clients, NEW i \in 1 .. MaxMig, NEW ok \in BOOLEAN, Answer(c, i, ok, Seamless)
      PROVE  CallbackInductive'
  BY <1>5, <1>AnswerStep
<1>6. CASE MigrateConnect BY <1>6, <1>ConnectStep
<1>7. CASE \E completed \in BOOLEAN : MigrateEnd(completed) BY <1>7, <1>MigrateEndStep
<1>8. CASE MigrateTimeout BY <1>8, <1>TimeoutStep
<1> QED BY <1>1, <1>2, <1>3, <1>4, <1>5, <1>6, <1>7, <1>8 DEF Next

\* The invariant always holds.
THEOREM AlwaysCallbackInductive == Spec => []CallbackInductive
<1>1. Init => CallbackInductive
  BY Zenon DEF Init, CallbackInductive, FlagsOK, PhaseOwed, CallbackWillCome, AnsweredOnce
<1> QED BY <1>1, CallbackStep, PTL DEF Spec

\* For any clients and any number of migrations: while the emulator waits for a callback the
\* migration is in the phase that answers it and the timer runs (mig_inprogress, mig_wait_*,
\* mig_timer), unless several clients are allowed.
THEOREM AlwaysCallbackWillCome == Spec => []CallbackWillCome
<1>1. CallbackInductive => CallbackWillCome BY DEF CallbackInductive
<1> QED BY <1>1, AlwaysCallbackInductive, PTL

\* For any clients, any configuration and any number of migrations: reds_mig_cleanup calls
\* migrate_connect_complete and migrate_end_complete only for a call that is still open.
THEOREM AlwaysAnsweredOnce == Spec => []AnsweredOnce
<1>1. CallbackInductive => AnsweredOnce BY DEF CallbackInductive
<1> QED BY <1>1, AlwaysCallbackInductive, PTL

-----------------------------------------------------------------------------
(* The count of the answers *)

\* The clients and the count have their types.
ClientsOK ==
  /\ link \in [Clients -> {"no", "up", "closing", "gone"}]
  /\ num \in Nat
  /\ \A s \in {targets, atTarget, completing, waitList, waitC, connectOk, waitPrev} : s \subseteq Clients

\* A client that has to answer can be asked.  One that has to complete its own migration
\* first has not completed it, or the completion is on its way; until then it is not asked.
WhoAnswers ==
  /\ waitC \cup waitPrev \subseteq Asked /\ completing \subseteq Known
  /\ atTarget \cap completing = {} /\ atTarget \cap waitC = {} /\ waitPrev \subseteq atTarget \cup completing

\* The count covers them.
CountCovers == Cardinality(waitC \cup waitPrev) <= num

\* With one client allowed there is at most one, and the server waits for it to leave
\* exactly while mig_wait_disconnect_clients has it.
AtMostOneClient ==
  Multi \/ /\ \A c, d \in Known : c = d
           /\ num <= 1
           /\ waitList \subseteq Known /\ (waitList # {} <=> waitDisconnect)

WaitInductive == ClientsOK /\ WhoAnswers /\ CountCovers /\ AtMostOneClient

\* What the counts rest on; FiniteSizesKnown shows it, from the library, after the steps.
FiniteSizes ==
    /\ Cardinality({}) = 0 /\ \A x : Cardinality({x}) = 1
    /\ \A S : IsFiniteSet(S) =>
         /\ Cardinality(S) \in Nat /\ (Cardinality(S) = 0 => S = {})
         /\ \A T \in SUBSET S : IsFiniteSet(T) /\ Cardinality(T) <= Cardinality(S)
         /\ \A x \in S : Cardinality(S \ {x}) = Cardinality(S) - 1

\* Every step keeps the invariant.
LEMMA WaitStep == FiniteSizes /\ CallbackInductive /\ WaitInductive /\ [Next]_vars => WaitInductive'
<1> SUFFICES ASSUME FiniteSizes PROVE CallbackInductive /\ WaitInductive /\ [Next]_vars => WaitInductive' OBVIOUS
\* Fewer clients have a smaller count.
<1>CountMono.
      ASSUME NEW S \in SUBSET Clients, NEW T \in SUBSET S
      PROVE  /\ IsFiniteSet(S) /\ Cardinality(S) \in Nat /\ Cardinality(T) \in Nat
             /\ Cardinality(T) <= Cardinality(S)
  <2> USE <1>CountMono
  <2>1. IsFiniteSet(S) BY MigrationAssumption, Zenon DEF FiniteSizes
  <2>2. IsFiniteSet(T) /\ Cardinality(T) <= Cardinality(S) BY <2>1, Zenon DEF FiniteSizes
  <2> QED BY <2>1, <2>2, Zenon DEF FiniteSizes
\* A step after which no client more has to answer, and the count is what it was.
<1>FewerWait.
      ASSUME ClientsOK, CountCovers, num' = num, waitC' \cup waitPrev' \subseteq waitC \cup waitPrev
      PROVE  CountCovers'
  <2> USE <1>FewerWait
  <2>1. waitC \cup waitPrev \in SUBSET Clients /\ num \in Nat BY DEF ClientsOK
  <2>2. Cardinality(waitC' \cup waitPrev') <= Cardinality(waitC \cup waitPrev)
        /\ Cardinality(waitC' \cup waitPrev') \in Nat /\ Cardinality(waitC \cup waitPrev) \in Nat
    BY <2>1, <1>CountMono
  <2> QED BY <2>1, <2>2 DEF CountCovers
\* reds_mig_cleanup leaves no client to wait for, with one client allowed.
<1>CleanupEnds.
      ASSUME CallbackInductive, AtMostOneClient, ~Multi, Cleanup
      PROVE  waitList' = {} /\ ~waitDisconnect'
  <2> USE <1>CleanupEnds
  <2>1. CASE inProgress BY <2>1 DEF Cleanup, EndMigration
  <2>2. CASE ~inProgress
    <3>1. ~waitConnect /\ ~waitDisconnect
      BY <2>2 DEF CallbackInductive, PhaseOwed, CallbackWillCome, FlagsOK
    <3> QED BY <2>2, <3>1 DEF Cleanup, redsVars, AtMostOneClient
  <2> QED BY <2>1, <2>2
\* What reds_mig_cleanup leaves of the list is part of it.
<1>CleanupList. ASSUME ClientsOK, Cleanup PROVE waitList' \subseteq Clients
  BY <1>CleanupList DEF ClientsOK, Cleanup, EndMigration, redsVars
\* A new client, alone or beside the others.
<1>MainLinkWaits.
      ASSUME CallbackInductive, WaitInductive, NEW c \in Clients, NEW target \in BOOLEAN, MainLink(c, target)
      PROVE  WaitInductive'
  <2> USE <1>MainLinkWaits
  <2> DEFINE others == IF Multi THEN {} ELSE Known
  <2>1. /\ link[c] = "no" /\ mode' = mode /\ num' = num
        /\ link' = [d \in Clients |-> IF d = c THEN "up" ELSE IF d \in others THEN "gone" ELSE link[d]]
        /\ targets' = (targets \ others) \cup (IF target THEN {c} ELSE {})
        /\ atTarget' = (atTarget \ others) \cup (IF target THEN {c} ELSE {})
        /\ completing' = completing \ others
        /\ waitC' = waitC \ others /\ connectOk' = connectOk \ others /\ waitPrev' = waitPrev \ others
        /\ IF Multi THEN waitDisconnect' = FALSE /\ waitList' = waitList ELSE Cleanup
    BY DEF MainLink
  <2>2. ClientsOK /\ WhoAnswers /\ CountCovers /\ AtMostOneClient BY DEF WaitInductive
  <2>3. waitList' \subseteq Clients
    <3>1. CASE Multi BY <2>1, <2>2, <3>1 DEF ClientsOK
    <3>2. CASE ~Multi BY <2>1, <2>2, <3>2, <1>CleanupList
    <3> QED BY <3>1, <3>2
  <2>4. ClientsOK' BY <2>1, <2>2, <2>3 DEF ClientsOK
  <2>5. CountCovers' BY <2>1, <2>2, <1>FewerWait
  <2>6. Known' = (Known \ others) \cup {c} /\ Up' = (Up \ others) \cup {c} /\ c \notin Known
    BY <2>1, <2>2 DEF Known, Up, ClientsOK
  <2>7. Up \subseteq Known BY DEF Up, Known
  <2>8. WhoAnswers'
    BY <2>1, <2>2, <2>6, <2>7 DEF WhoAnswers, Asked
  <2>9. AtMostOneClient'
    <3>1. CASE Multi BY <2>1, <3>1 DEF AtMostOneClient, Multi
    <3>2. CASE ~Multi
      <4>1. waitList' = {} /\ ~waitDisconnect' BY <2>1, <2>2, <3>2, <1>CleanupEnds
      <4>2. Known' = {c} BY <2>6, <3>2
      <4>3. num' <= 1 BY <2>1, <2>2, <3>2 DEF AtMostOneClient
      <4> QED BY <4>1, <4>2, <4>3 DEF AtMostOneClient
    <3> QED BY <3>1, <3>2
  <2> QED BY <2>4, <2>5, <2>8, <2>9 DEF WaitInductive
\* The main channel of a client is disconnected.
<1>MainDisconnectWaits.
      ASSUME WaitInductive, NEW c \in Clients, MainDisconnect(c)
      PROVE  WaitInductive'
  <2> USE <1>MainDisconnectWaits
  <2>1. /\ link[c] = "up" /\ link' = [link EXCEPT ![c] = "closing"] /\ UNCHANGED <<mode, num>>
        /\ UNCHANGED <<targets, atTarget, completing, waitList, waitDisconnect>>
        /\ waitC' = waitC \ {c} /\ connectOk' = connectOk \ {c} /\ waitPrev' = waitPrev \ {c}
    BY DEF MainDisconnect, arrival, redsVars
  <2>2. ClientsOK /\ WhoAnswers /\ CountCovers /\ AtMostOneClient BY DEF WaitInductive
  <2>3. Known' = Known /\ Up' = Up \ {c} BY <2>1, <2>2 DEF Known, Up, ClientsOK
  <2>4. ClientsOK' BY <2>1, <2>2 DEF ClientsOK
  <2>5. CountCovers' BY <2>1, <2>2, <1>FewerWait
  <2>6. WhoAnswers' BY <2>1, <2>2, <2>3 DEF WhoAnswers, Asked
  <2>7. AtMostOneClient' BY <2>1, <2>2, <2>3 DEF AtMostOneClient, Multi
  <2> QED BY <2>4, <2>5, <2>6, <2>7 DEF WaitInductive
\* What RedClient::destroy of some clients leaves, when all that is known of them goes.
<1>DestroyWaits.
      ASSUME WaitInductive, NEW gone, Destroy(gone), mode' = mode, num' = num, waitList' \subseteq Clients,
             waitC' \subseteq waitC \ gone, waitPrev' \subseteq waitPrev \ gone, connectOk' \subseteq connectOk
      PROVE  ClientsOK' /\ WhoAnswers' /\ CountCovers' /\ Known' = Known \ gone
  <2> USE <1>DestroyWaits
  <2>1. /\ link' = [c \in Clients |-> IF c \in gone THEN "gone" ELSE link[c]]
        /\ targets' = targets \ gone /\ atTarget' = atTarget \ gone /\ completing' = completing \ gone
    BY DEF Destroy
  <2>2. ClientsOK /\ WhoAnswers /\ CountCovers BY DEF WaitInductive
  <2>3. Known' = Known \ gone /\ Up' = Up \ gone BY <2>1, <2>2 DEF Known, Up, ClientsOK
  <2>4. ClientsOK' BY <2>1, <2>2 DEF ClientsOK
  <2>5. CountCovers' BY <2>2, <1>FewerWait
  <2>6. WhoAnswers' BY <2>1, <2>2, <2>3 DEF WhoAnswers, Asked
  <2> QED BY <2>3, <2>4, <2>5, <2>6
\* A client is gone.
<1>GoneWaits.
      ASSUME CallbackInductive, WaitInductive, NEW c \in Clients, HandleDisconnect(c)
      PROVE  WaitInductive'
  <2> USE <1>GoneWaits
  <2>1. ClientDisconnect(c) /\ UNCHANGED <<mode, num>> BY DEF HandleDisconnect
  <2>2. /\ Destroy({c}) /\ waitC' = waitC \ {c} /\ connectOk' = connectOk \ {c} /\ waitPrev' = waitPrev \ {c}
        /\ IF (waitDisconnect /\ waitList \subseteq {c}) \/ Known = {c}
           THEN Cleanup
           ELSE waitList' = (IF waitDisconnect THEN waitList \ {c} ELSE waitList) /\ UNCHANGED waitDisconnect
    BY <2>1 DEF ClientDisconnect
  <2>3. ClientsOK /\ AtMostOneClient BY DEF WaitInductive
  <2>4. waitList' \subseteq Clients
    <3>1. CASE Cleanup BY <2>3, <3>1, <1>CleanupList
    <3>2. CASE ~Cleanup BY <2>2, <2>3, <3>2 DEF ClientsOK
    <3> QED BY <3>1, <3>2
  <2>5. ClientsOK' /\ WhoAnswers' /\ CountCovers' /\ Known' = Known \ {c}
    BY <2>1, <2>2, <2>4, <1>DestroyWaits
  <2>6. AtMostOneClient'
    <3>1. CASE Multi BY <2>1, <3>1 DEF AtMostOneClient, Multi
    <3>2. CASE ~Multi /\ ((waitDisconnect /\ waitList \subseteq {c}) \/ Known = {c})
      <4>1. waitList' = {} /\ ~waitDisconnect' BY <2>2, <2>3, <3>2, <1>CleanupEnds
      <4> QED BY <2>1, <2>3, <2>5, <3>2, <4>1 DEF AtMostOneClient
    <3>3. CASE ~Multi /\ ~((waitDisconnect /\ waitList \subseteq {c}) \/ Known = {c})
      <4>1. waitList' = (IF waitDisconnect THEN waitList \ {c} ELSE waitList) /\ UNCHANGED waitDisconnect
        BY <2>2, <3>3
      <4>2. waitList' \subseteq Known' /\ (waitList' # {} <=> waitDisconnect')
        BY <2>3, <2>5, <3>3, <4>1 DEF AtMostOneClient
      <4> QED BY <2>1, <2>3, <2>5, <3>3, <4>2 DEF AtMostOneClient
    <3> QED BY <3>1, <3>2, <3>3
  <2> QED BY <2>5, <2>6 DEF WaitInductive
\* reds_disconnect.
<1>DisconnectWaits.
      ASSUME CallbackInductive, WaitInductive, Disconnect, UNCHANGED <<mode, num>>
      PROVE  WaitInductive'
  <2> USE <1>DisconnectWaits
  <2>1. /\ Destroy(Known) /\ Cleanup
        /\ waitC' = waitC \ Known /\ connectOk' = connectOk \ Known /\ waitPrev' = waitPrev \ Known
    BY DEF Disconnect
  <2>2. ClientsOK /\ AtMostOneClient BY DEF WaitInductive
  <2>3. waitList' \subseteq Clients BY <2>1, <2>2, <1>CleanupList
  <2>4. ClientsOK' /\ WhoAnswers' /\ CountCovers' /\ Known' = Known \ Known
    BY <2>1, <2>3, <1>DestroyWaits
  <2>5. AtMostOneClient'
    <3>1. CASE Multi BY <3>1 DEF AtMostOneClient, Multi
    <3>2. CASE ~Multi
      <4>1. waitList' = {} /\ ~waitDisconnect' BY <2>1, <2>2, <3>2, <1>CleanupEnds
      <4> QED BY <2>2, <2>4, <3>2, <4>1 DEF AtMostOneClient
    <3> QED BY <3>1, <3>2
  <2> QED BY <2>4, <2>5 DEF WaitInductive
\* A client finishes the migration that brought it here, and is then asked in its turn.
<1>ArrivalWaits.
      ASSUME WaitInductive, NEW c \in Clients,
             DstDoSeamless(c) \/ SeamlessDone(c) \/ SeamlessComplete(c) \/ SemiSeamlessComplete(c)
      PROVE  WaitInductive'
  <2> USE <1>ArrivalWaits
  <2>1. UNCHANGED <<mode, num, link, waitList, waitDisconnect, connectOk>>
    BY DEF DstDoSeamless, SeamlessDone, SeamlessComplete, SemiSeamlessComplete, redsVars, mccVars
  <2>2. ClientsOK /\ WhoAnswers /\ CountCovers /\ AtMostOneClient BY DEF WaitInductive
  <2>3. Known' = Known /\ Up' = Up BY <2>1 DEF Known, Up
  <2>4. AtMostOneClient' BY <2>1, <2>2, <2>3 DEF AtMostOneClient, Multi
  <2>5. CASE DstDoSeamless(c)
    <3>1. targets' = targets \ {c} /\ UNCHANGED <<atTarget, completing, waitC, waitPrev>>
      BY <2>5 DEF DstDoSeamless, mccVars
    <3>2. ClientsOK' BY <2>1, <2>2, <3>1 DEF ClientsOK
    <3>3. WhoAnswers' BY <2>2, <2>3, <3>1 DEF WhoAnswers, Asked
    <3>4. CountCovers' BY <2>1, <2>2, <3>1, <1>FewerWait
    <3> QED BY <2>4, <3>2, <3>3, <3>4 DEF WaitInductive
  <2>6. CASE SeamlessDone(c)
    <3>1. /\ c \in Known /\ atTarget' = atTarget \ {c} /\ completing' = completing \cup {c}
          /\ UNCHANGED <<targets, waitC, waitPrev>>
      BY <2>6 DEF SeamlessDone, mccVars
    <3>2. ClientsOK' BY <2>1, <2>2, <3>1 DEF ClientsOK
    <3>3. WhoAnswers' BY <2>2, <2>3, <3>1 DEF WhoAnswers, Asked
    <3>4. CountCovers' BY <2>1, <2>2, <3>1, <1>FewerWait
    <3> QED BY <2>4, <3>2, <3>3, <3>4 DEF WaitInductive
  <2>7. CASE SeamlessComplete(c)
    <3>1. c \in completing /\ completing' = completing \ {c} /\ UNCHANGED <<targets, atTarget>>
      BY <2>7 DEF SeamlessComplete
    <3>2. \/ waitPrev' = waitPrev \ {c} /\ waitC' = waitC /\ c \notin waitPrev
          \/ waitPrev' = waitPrev \ {c} /\ waitC' = waitC \cup {c} /\ c \in waitPrev
          \/ c \notin Up /\ UNCHANGED <<waitC, waitPrev>>
      BY <2>7 DEF SeamlessComplete, DstComplete
    <3>3. ClientsOK' BY <2>1, <2>2, <3>1, <3>2 DEF ClientsOK
    <3>4. WhoAnswers' BY <2>2, <2>3, <3>1, <3>2 DEF WhoAnswers, Asked
    <3>5. CountCovers' BY <2>1, <2>2, <3>2, <1>FewerWait
    <3> QED BY <2>4, <3>3, <3>4, <3>5 DEF WaitInductive
  <2>8. CASE SemiSeamlessComplete(c)
    <3>1. targets' = targets \ {c} /\ atTarget' = atTarget \ {c} /\ UNCHANGED completing
      BY <2>8 DEF SemiSeamlessComplete
    <3>2. \/ waitPrev' = waitPrev \ {c} /\ waitC' = waitC /\ c \notin waitPrev
          \/ waitPrev' = waitPrev \ {c} /\ waitC' = waitC \cup {c} /\ c \in waitPrev
      BY <2>8 DEF SemiSeamlessComplete, DstComplete
    <3>3. ClientsOK' BY <2>1, <2>2, <3>1, <3>2 DEF ClientsOK
    <3>4. WhoAnswers' BY <2>2, <2>3, <3>1, <3>2 DEF WhoAnswers, Asked
    <3>5. CountCovers' BY <2>1, <2>2, <3>2, <1>FewerWait
    <3> QED BY <2>4, <3>3, <3>4, <3>5 DEF WaitInductive
  <2> QED BY <2>5, <2>6, <2>7, <2>8
\* spice_server_migrate_connect counts every client it asks.
<1>ConnectWaits.
      ASSUME CallbackInductive, WaitInductive, MigrateConnect
      PROVE  WaitInductive'
  <2> USE <1>ConnectWaits
  <2>1. /\ num' = Cardinality(Asked) /\ UNCHANGED <<mode, link, targets, atTarget, completing, waitList, waitDisconnect>>
        /\ waitPrev' = waitPrev \cup (Asked \cap atTarget)
    BY DEF MigrateConnect, Count, arrival, Started, redsVars
  <2>2. PICK D \in SUBSET Up : /\ waitC' = (waitC \ D) \cup (Asked \ atTarget)
                               /\ connectOk' = connectOk \ (D \cup Asked)
    BY Zenon DEF MigrateConnect
  <2>3. ClientsOK /\ WhoAnswers /\ CountCovers /\ AtMostOneClient BY DEF WaitInductive
  <2>4. Known' = Known /\ Up' = Up /\ Asked' = Asked /\ Asked \subseteq Known /\ Asked \subseteq Clients
        /\ Known \subseteq Clients
    BY <2>1 DEF Known, Up, Asked
  <2>5. Cardinality(Asked) \in Nat BY <2>4, <1>CountMono
  <2>6. ClientsOK' BY <2>1, <2>2, <2>3, <2>4, <2>5 DEF ClientsOK
  <2>7. WhoAnswers' BY <2>1, <2>2, <2>3, <2>4 DEF WhoAnswers
  <2>8. CountCovers'
    <3>1. waitC' \cup waitPrev' \subseteq Asked BY <2>4, <2>7 DEF WhoAnswers
    <3>2. Cardinality(waitC' \cup waitPrev') <= Cardinality(Asked) BY <2>4, <3>1, <1>CountMono
    <3> QED BY <2>1, <3>2 DEF CountCovers
  <2>9. AtMostOneClient'
    <3>1. CASE Multi BY <2>1, <3>1 DEF AtMostOneClient, Multi
    <3>2. CASE ~Multi
      <4>1. \A c, d \in Known : c = d BY <2>3, <3>2 DEF AtMostOneClient
      <4>2. Cardinality(Asked) <= 1
        <5>1. CASE Asked = {} BY <5>1 DEF FiniteSizes
        <5>2. CASE Asked # {}
          <6>1. PICK c \in Asked : TRUE BY <5>2
          <6>2. Asked = {c} BY <2>4, <4>1, <6>1
          <6>3. Cardinality({c}) = 1 BY Zenon DEF FiniteSizes
          <6> QED BY <6>2, <6>3
        <5> QED BY <5>1, <5>2
      <4> QED BY <2>1, <2>3, <2>4, <3>2, <4>2 DEF AtMostOneClient
    <3> QED BY <3>1, <3>2
  <2> QED BY <2>6, <2>7, <2>8, <2>9 DEF WaitInductive
\* spice_server_migrate_end waits for the clients that are there.
<1>MigrateEndWaits.
      ASSUME CallbackInductive, WaitInductive, NEW completed \in BOOLEAN, MigrateEnd(completed)
      PROVE  WaitInductive'
  <2> USE <1>MigrateEndWaits
  <2>1. UNCHANGED <<mode, num>> BY DEF MigrateEnd
  <2>2. CASE completed /\ ~expect /\ Known # {}
    <3>1. Disconnect BY <2>2 DEF MigrateEnd
    <3> QED BY <2>1, <3>1, <1>DisconnectWaits
  <2>3. CASE ~(completed /\ ~expect /\ Known # {})
    <3>1. /\ UNCHANGED <<link, targets, atTarget, completing, waitPrev>>
          /\ waitC' \subseteq waitC /\ connectOk' \subseteq connectOk
      BY <2>3 DEF MigrateEnd, arrival, Finished, SrcComplete
    <3>2. ClientsOK /\ WhoAnswers /\ CountCovers /\ AtMostOneClient BY DEF WaitInductive
    <3>3. Known' = Known /\ Up' = Up /\ Known \subseteq Clients /\ Up \subseteq Known BY <3>1 DEF Known, Up
    <3>4. /\ Up = {} => UNCHANGED <<waitList, waitDisconnect>>
          /\ Up # {} => \/ waitList' = waitList \cup Known /\ waitDisconnect' = TRUE
                        \/ waitList' = {} /\ waitDisconnect' = FALSE
      BY <2>3 DEF MigrateEnd, Finished, FillWaitDisconnect, EndMigration, redsVars
    <3>5. ClientsOK' BY <2>1, <3>1, <3>2, <3>3, <3>4 DEF ClientsOK
    <3>6. WhoAnswers' BY <3>1, <3>2, <3>3 DEF WhoAnswers, Asked
    <3>7. CountCovers' BY <2>1, <3>1, <3>2, <1>FewerWait
    <3>8. AtMostOneClient'
      <4>1. CASE Multi BY <2>1, <4>1 DEF AtMostOneClient, Multi
      <4>2. CASE ~Multi
        <5>1. /\ waitList \subseteq Known /\ (waitList # {} <=> waitDisconnect) /\ num <= 1
              /\ \A c, d \in Known : c = d
          BY <3>2, <4>2 DEF AtMostOneClient
        <5>2. waitList' \subseteq Known' /\ (waitList' # {} <=> waitDisconnect') BY <3>3, <3>4, <5>1
        <5> QED BY <2>1, <3>3, <5>1, <5>2 DEF AtMostOneClient
      <4> QED BY <4>1, <4>2
    <3> QED BY <3>5, <3>6, <3>7, <3>8 DEF WaitInductive
  <2> QED BY <2>2, <2>3
\* An answer that is waited for is counted once.
<1>AnswerWaits.
      ASSUME CallbackInductive, WaitInductive, NEW c \in Clients, NEW i, NEW ok \in BOOLEAN, NEW seamless,
             Answer(c, i, ok, seamless)
      PROVE  WaitInductive'
  <2> USE <1>AnswerWaits
  <2>1. UNCHANGED <<mode, link, targets, atTarget, completing, waitPrev>> /\ c \notin completing
    BY DEF Answer, arrival
  <2>2. ClientsOK /\ WhoAnswers /\ CountCovers /\ AtMostOneClient BY DEF WaitInductive
  <2>3. Known' = Known /\ Up' = Up BY <2>1 DEF Known, Up
  <2>4. waitC' \subseteq waitC /\ connectOk' \subseteq connectOk \cup {c} BY DEF Answer
  <2>5. Cleanup \/ UNCHANGED redsVars BY DEF Answer
  <2>6. waitList' \subseteq Clients BY <2>2, <2>5, <1>CleanupList DEF ClientsOK, redsVars
  <2>7. \/ waitC' = waitC /\ num' = num
        \/ c \in waitC /\ waitC' = waitC \ {c} /\ num' = (IF num = 0 THEN 0 ELSE num - 1)
    BY DEF Answer
  <2>8. ClientsOK' /\ num' <= num BY <2>1, <2>2, <2>4, <2>6, <2>7 DEF ClientsOK
  <2>9. WhoAnswers' BY <2>1, <2>2, <2>3, <2>4 DEF WhoAnswers, Asked
  <2>10. CountCovers'
    <3>1. CASE waitC' = waitC /\ num' = num BY <2>1, <2>2, <3>1, <1>FewerWait
    <3>2. CASE c \in waitC /\ waitC' = waitC \ {c} /\ num' = (IF num = 0 THEN 0 ELSE num - 1)
      <4>1. c \notin waitPrev BY <2>1, <2>2, <3>2 DEF WhoAnswers
      <4>2. waitC' \cup waitPrev' = (waitC \cup waitPrev) \ {c} BY <2>1, <3>2, <4>1
      <4>3. IsFiniteSet(waitC \cup waitPrev) /\ Cardinality(waitC \cup waitPrev) \in Nat
        <5>1. waitC \cup waitPrev \in SUBSET Clients BY <2>2 DEF ClientsOK
        <5> QED BY <5>1, <1>CountMono
      <4>4. Cardinality((waitC \cup waitPrev) \ {c}) = Cardinality(waitC \cup waitPrev) - 1
        BY <3>2, <4>3, Zenon DEF FiniteSizes
      <4>5. Cardinality(waitC \cup waitPrev) # 0 BY <3>2, <4>3, Zenon DEF FiniteSizes
      <4>6. Cardinality(waitC \cup waitPrev) <= num /\ num \in Nat BY <2>2 DEF CountCovers, ClientsOK
      <4>7. Cardinality((waitC \cup waitPrev) \ {c}) <= num' BY <3>2, <4>3, <4>4, <4>5, <4>6
      <4> QED BY <4>2, <4>7 DEF CountCovers
    <3> QED BY <2>7, <3>1, <3>2
  <2>11. AtMostOneClient'
    <3>1. CASE Multi BY <2>1, <3>1 DEF AtMostOneClient, Multi
    <3>2. CASE ~Multi
      <4>1. num <= 1 /\ \A x, y \in Known : x = y BY <2>2, <3>2 DEF AtMostOneClient
      <4>2. waitList' \subseteq Known /\ (waitList' # {} <=> waitDisconnect')
        <5>1. CASE Cleanup BY <2>2, <3>2, <5>1, <1>CleanupEnds
        <5>2. CASE UNCHANGED redsVars BY <2>2, <3>2, <5>2 DEF AtMostOneClient, redsVars
        <5> QED BY <2>5, <5>1, <5>2
      <4>3. num' <= 1 BY <2>2, <2>8, <4>1 DEF ClientsOK
      <4> QED BY <2>3, <4>1, <4>2, <4>3 DEF AtMostOneClient
    <3> QED BY <3>1, <3>2
  <2> QED BY <2>8, <2>9, <2>10, <2>11 DEF WaitInductive
\* migrate_timeout asks nobody any more, or disconnects everybody.
<1>TimeoutWaits. ASSUME CallbackInductive, WaitInductive, MigrateTimeout PROVE WaitInductive'
  <2> USE <1>TimeoutWaits
  <2>1. mode' = mode BY DEF MigrateTimeout
  <2>2. CASE waitConnect
    <3>1. /\ waitC' = {} /\ waitPrev' = {} /\ connectOk' \subseteq connectOk /\ num' = 0
          /\ Destroy(targets) /\ Cleanup
      BY <2>2 DEF MigrateTimeout
    <3>2. ClientsOK /\ WhoAnswers /\ AtMostOneClient BY DEF WaitInductive
    <3>3. /\ link' = [c \in Clients |-> IF c \in targets THEN "gone" ELSE link[c]]
          /\ targets' = targets \ targets /\ atTarget' = atTarget \ targets /\ completing' = completing \ targets
      BY <3>1 DEF Destroy
    <3>4. waitList' \subseteq Clients BY <3>1, <3>2, <1>CleanupList
    <3>5. Known' = Known \ targets BY <3>2, <3>3 DEF Known, ClientsOK
    <3>6. ClientsOK' BY <3>1, <3>2, <3>3, <3>4 DEF ClientsOK
    <3>7. WhoAnswers' BY <3>1, <3>2, <3>3, <3>5 DEF WhoAnswers
    <3>8. CountCovers'
      <4>1. waitC' \cup waitPrev' = {} BY <3>1
      <4> QED BY <3>1, <4>1 DEF CountCovers, FiniteSizes
    <3>9. AtMostOneClient'
      <4>1. CASE Multi BY <2>1, <4>1 DEF AtMostOneClient, Multi
      <4>2. CASE ~Multi
        <5>1. waitList' = {} /\ ~waitDisconnect' BY <3>1, <3>2, <4>2, <1>CleanupEnds
        <5> QED BY <3>1, <3>2, <3>5, <4>2, <5>1 DEF AtMostOneClient
      <4> QED BY <4>1, <4>2
    <3> QED BY <3>6, <3>7, <3>8, <3>9 DEF WaitInductive
  <2>3. CASE ~waitConnect
    <3>1. Disconnect /\ UNCHANGED num BY <2>3 DEF MigrateTimeout
    <3> QED BY <2>1, <3>1, <1>DisconnectWaits
  <2> QED BY <2>2, <2>3
<1> SUFFICES ASSUME CallbackInductive, WaitInductive, [Next]_vars PROVE WaitInductive' OBVIOUS
<1>1. CASE UNCHANGED vars
  BY <1>1 DEF vars, arrival, redsVars, mccVars, WaitInductive, ClientsOK, WhoAnswers, CountCovers,
     AtMostOneClient, Asked, Up, Known, Multi
<1>2. ASSUME NEW c \in Clients, NEW target \in BOOLEAN, MainLink(c, target) PROVE WaitInductive'
  BY <1>2, <1>MainLinkWaits
<1>3. ASSUME NEW c \in Clients, MainDisconnect(c) PROVE WaitInductive' BY <1>3, <1>MainDisconnectWaits
<1>4. ASSUME NEW c \in Clients, HandleDisconnect(c) PROVE WaitInductive' BY <1>4, <1>GoneWaits
<1>5. ASSUME NEW c \in Clients,
             DstDoSeamless(c) \/ SeamlessDone(c) \/ SeamlessComplete(c) \/ SemiSeamlessComplete(c)
      PROVE  WaitInductive'
  BY <1>5, <1>ArrivalWaits
<1>6. ASSUME NEW c \in Clients, NEW i \in 1 .. MaxMig, NEW ok \in BOOLEAN, Answer(c, i, ok, Seamless)
      PROVE  WaitInductive'
  BY <1>6, <1>AnswerWaits
<1>7. CASE MigrateConnect BY <1>7, <1>ConnectWaits
<1>8. CASE \E completed \in BOOLEAN : MigrateEnd(completed) BY <1>8, <1>MigrateEndWaits
<1>9. CASE MigrateTimeout BY <1>9, <1>TimeoutWaits
<1> QED BY <1>1, <1>2, <1>3, <1>4, <1>5, <1>6, <1>7, <1>8, <1>9 DEF Next

INSTANCE FiniteSetTheorems

\* The sizes of finite sets.
LEMMA FiniteSizesKnown == FiniteSizes
BY FS_EmptySet, FS_Singleton, FS_CardinalityType, FS_Subset, FS_RemoveElement, Zenon DEF FiniteSizes

\* The invariant of the waits always holds.
THEOREM AlwaysWaitInductive == Spec => []WaitInductive
<1>1. Init => WaitInductive
  <2> SUFFICES ASSUME Init PROVE WaitInductive OBVIOUS
  <2> USE DEF Init
  <2>1. Known = {} /\ Up = {} BY DEF Known, Up
  <2>2. ClientsOK BY DEF ClientsOK
  <2>3. WhoAnswers BY DEF WhoAnswers
  <2>4. CountCovers
    <3>1. waitC \cup waitPrev = {} OBVIOUS
    <3> QED BY <3>1, FS_EmptySet DEF CountCovers
  <2>5. AtMostOneClient BY <2>1 DEF AtMostOneClient
  <2> QED BY <2>2, <2>3, <2>4, <2>5 DEF WaitInductive
<1>2. CallbackInductive /\ WaitInductive /\ [Next]_vars => WaitInductive' BY WaitStep, FiniteSizesKnown
<1> QED BY <1>1, <1>2, AlwaysCallbackInductive, PTL DEF Spec

\* For any clients, any configuration and any number of migrations: the count of answers
\* covers the clients that have still to give one (the assertions of
\* MainChannel::on_migrate_connected), and with one client allowed the clients waited for
\* after the migration are there, at least one while the server waits.
THEOREM AlwaysWaitsCovered == Spec => []WaitsCovered
<1>1. WaitInductive => WaitsCovered
  <2>1. Seamless => ~Multi BY DEF Seamless, Multi
  <2> QED BY <2>1 DEF WaitInductive, ClientsOK, CountCovers, AtMostOneClient, WaitsCovered
<1> QED BY <1>1, AlwaysWaitInductive, PTL

-----------------------------------------------------------------------------
(* The calls to the thread of a QXL device, counted *)

\* A set with at most one member has as many as it has.
LEMMA AtMostOne ==
  ASSUME NEW S, \A x, y \in S : x = y
  PROVE  Cardinality(S) = IF S = {} THEN 0 ELSE 1
<1>1. CASE S = {}
  BY <1>1, FS_EmptySet
<1>2. CASE S # {}
  <2>1. PICK x : x \in S
    BY <1>2
  <2>2. S = {x}
    BY <2>1
  <2> QED BY <1>2, <2>2, FS_Singleton
<1> QED BY <1>1, <1>2

\* One message of the kinds is queued exactly if there is one at all.
LEMMA QueuedOnce ==
  ASSUME NEW kinds, NEW b \in BOOLEAN,
         \A i, j \in DOMAIN msgs : msgs[i].kind \in kinds /\ msgs[j].kind \in kinds => i = j,
         b <=> \E i \in DOMAIN msgs : msgs[i].kind \in kinds
  PROVE  Cardinality(Queued(kinds)) = IF b THEN 1 ELSE 0
<1>1. \A x, y \in Queued(kinds) : x = y
  BY Zenon DEF Queued
<1>2. b <=> Queued(kinds) # {}
  BY Zenon DEF Queued
<1>3. Cardinality(Queued(kinds)) = IF Queued(kinds) = {} THEN 0 ELSE 1
  BY <1>1, AtMostOne, Zenon
<1> QED BY <1>2, <1>3

\* The invariant accounts for the messages.
LEMMA InductiveOwed ==
  ASSUME WorkerInductive
  PROVE  MessagesOwed
<1>0. MessagesOnce /\ MessagesKnown /\ MessagesThere /\ WorkerTypeOK
  BY DEF WorkerInductive, MessagesSingle
<1>1. Cardinality(Queued({"wakeup"})) = IF "WAKEUP" \in pending THEN 1 ELSE 0
  <2>1. "WAKEUP" \in pending <=> \E i \in DOMAIN msgs : msgs[i].kind \in {"wakeup"}
    BY <1>0, Zenon DEF MessagesKnown, MessagesThere
  <2>2. \A i, j \in DOMAIN msgs :
          msgs[i].kind \in {"wakeup"} /\ msgs[j].kind \in {"wakeup"} => i = j
    BY <1>0, Zenon DEF MessagesOnce
  <2> QED BY <2>1, <2>2, QueuedOnce, Zenon
<1>2. Cardinality(Queued({"oom"})) = IF "OOM" \in pending THEN 1 ELSE 0
  <2>1. "OOM" \in pending <=> \E i \in DOMAIN msgs : msgs[i].kind \in {"oom"}
    BY <1>0, Zenon DEF MessagesKnown, MessagesThere
  <2>2. \A i, j \in DOMAIN msgs : msgs[i].kind \in {"oom"} /\ msgs[j].kind \in {"oom"} => i = j
    BY <1>0, Zenon DEF MessagesOnce
  <2> QED BY <2>1, <2>2, QueuedOnce, Zenon
<1>3. Cardinality(Queued(AckKinds)) = IF ack = "none" THEN 0 ELSE 1
  <2>1. ack # "none" => ack \in AckKinds
    BY <1>0 DEF WorkerTypeOK
  <2>2. "none" \notin AckKinds
    BY DEF AckKinds
  <2>3. ack # "none" => \E i \in DOMAIN msgs : msgs[i].kind \in AckKinds
    BY <1>0, <2>1, Zenon DEF MessagesThere
  <2>6. (\E i \in DOMAIN msgs : msgs[i].kind \in AckKinds) => ack # "none"
    BY <1>0, <2>2, Zenon DEF MessagesKnown
  <2>4. \A i, j \in DOMAIN msgs : msgs[i].kind \in AckKinds /\ msgs[j].kind \in AckKinds => i = j
    BY <1>0, Zenon DEF MessagesKnown
  <2>5. Cardinality(Queued(AckKinds)) = IF ack # "none" THEN 1 ELSE 0
    BY <2>3, <2>4, <2>6, QueuedOnce, Zenon
  <2> QED BY <2>5
<1>4. ASSUME NEW c \in Cookies
      PROVE  Cardinality({i \in DOMAIN msgs : msgs[i].cookie = c}) = owed[c]
  <2> DEFINE S == {i \in DOMAIN msgs : msgs[i].cookie = c}
  <2>1. c # NoCookie
    BY WorkerAssumption
  <2>2. \A x, y \in S : x = y
    BY <1>0, <2>1, Zenon DEF MessagesOnce
  <2>3. owed[c] \in {0, 1}
    BY <1>0 DEF WorkerTypeOK
  <2>4. owed[c] = 1 => S # {}
    BY <1>0, Zenon DEF MessagesThere
  <2>6. S # {} => owed[c] = 1
    <3> SUFFICES ASSUME NEW i \in S PROVE owed[c] = 1
      OBVIOUS
    <3>1. i \in DOMAIN msgs /\ msgs[i].cookie = c
      OBVIOUS
    <3>2. msgs[i].cookie # NoCookie => owed[msgs[i].cookie] = 1
      BY <1>0, <3>1, Zenon DEF MessagesKnown
    <3> QED BY <2>1, <3>1, <3>2, Zenon
  <2> HIDE DEF S
  <2>5. Cardinality(S) = IF S = {} THEN 0 ELSE 1
    BY <2>2, AtMostOne, Zenon
  <2> QED BY <2>3, <2>4, <2>5, <2>6 DEF S
<1> QED BY <1>1, <1>2, <1>3, <1>4 DEF MessagesOwed

\* The worker's loop loses nothing, for rings, pipes and cookies of any number:
\* no command is forgotten (red_process_display, worker_source_prepare), and
\* every message, completion and acknowledgement owed is still to come, once.
THEOREM AlwaysWorkerLosesNothing == WorkerSpec => []WorkerLosesNothing
<1>1. WorkerInit => WorkerInductive
  BY WorkerStarts
<1>2. WorkerInductive /\ [WorkerNext]_workerVars => WorkerInductive'
  BY WorkerSteps
<1>3. WorkerInductive => WorkerLosesNothing
  <2>1. WorkerInductive => CommandsNoticed
    BY Zenon DEF WorkerInductive, RingsNoticed, CommandsNoticed
  <2> QED BY <2>1, InductiveOwed DEF WorkerLosesNothing
<1> QED BY <1>1, <1>2, <1>3, PTL DEF WorkerSpec
=============================================================================
