-------------------------------- MODULE Link --------------------------------
(* How a connection becomes a channel: reds.cpp accepts a socket, optionally
   runs the TLS handshake, reads the magic, the header and the link message,
   acknowledges, and authenticates the peer with a ticket or with SASL
   (red-stream.cpp) before the stream is handed to a channel. Every read is
   asynchronous: between two of them other links advance and the ticket, the
   SASL switch and the set of channels change. *)
EXTENDS Naturals, FiniteSets

CONSTANTS Sockets,      \* sockets that peers open
          Passwords,    \* tickets an administrator may set
          MaxChanges    \* changes of the configuration during a run

ASSUME LinkAssumption == 0 \notin Sockets

NoPassword == "none"

VARIABLES lk,           \* one RedLinkInfo, with its stream, per socket
          conf,         \* RedServerConfig: ticketing, SASL, channel security
          client,       \* connection id of the client in place, 0 without one
          changes
linkVars == <<lk, conf, client, changes>>

Ids == Sockets          \* g_random_int() never gives 0
Reading == {"magic", "wsmagic", "header", "mess", "mech", "ticket",
            "mechlen", "mechname", "steplen", "step"}
InSasl == {"mechlen", "mechname", "steplen", "step"}

FreshLink == [stage |-> "none", ssl |-> FALSE, skip |-> FALSE,
              type |-> "main", id |-> 0, key |-> FALSE,
              auth |-> FALSE, offered |-> FALSE, closes |-> 0, entitled |-> FALSE]

LinkInit ==
  /\ lk = [s \in Sockets |-> FreshLink]
  /\ conf \in [ticketing : {TRUE}, password : Passwords, expired : {FALSE},
               sasl : BOOLEAN, secure : {{}, {"main"}}, channel : {TRUE}]
  /\ client = 0
  /\ changes = 0

Is(s, stage) == lk[s].stage = stage

\* reds_link_free: the stream (its watch, its socket), the message and the key
\* go; the SASL state of the exchange goes with its last callback. A link that
\* is gone keeps nothing but the number of times its socket was closed.
FreeLink(l) == [FreshLink EXCEPT !.stage = "closed", !.closes = l.closes + 1]
Become(s, l) == /\ lk' = [lk EXCEPT ![s] = l]
                /\ UNCHANGED <<conf, client, changes>>
Refuse(s) == Become(s, FreeLink(lk[s]))
Await(s, stage) == Become(s, [lk[s] EXCEPT !.stage = stage])

-----------------------------------------------------------------------------
(* Accepting. *)

\* The TLS layer could not be set up: the caller keeps the socket.
SocketDetached(l) == [FreshLink EXCEPT !.stage = "closed"]

\* reds_accept closes the socket of a link that could not be made; an
\* application that called spice_server_add_ssl_client closes it itself.
CallerCloses(l) == [l EXCEPT !.closes = @ + 1]

Accept(s, skip) ==
  /\ Is(s, "none")
  /\ Become(s, [FreshLink EXCEPT !.skip = skip, !.stage = "magic"])

AcceptSsl(s, skip, status) ==
  /\ Is(s, "none")
  /\ LET l == [FreshLink EXCEPT !.ssl = TRUE, !.skip = skip]
     IN Become(s, CASE status = "ok" -> [l EXCEPT !.stage = "magic"]
                    [] status = "wait" -> [l EXCEPT !.stage = "accept"]
                    [] status = "error" -> CallerCloses(SocketDetached(l)))

SslAccept(s, status) ==
  /\ Is(s, "accept")
  /\ \/ status = "ok" /\ Await(s, "magic")
     \/ status = "wait" /\ Await(s, "accept")
     \/ status = "error" /\ Refuse(s)

-----------------------------------------------------------------------------
(* The link message. *)

\* A request that is not SPICE's magic may open a websocket, once.
ReadMagic(s, magic) ==
  /\ lk[s].stage \in {"magic", "wsmagic"}
  /\ \/ magic = "spice" /\ Await(s, "header")
     \/ magic = "http" /\ Is(s, "magic") /\ Await(s, "wsmagic")
     \/ magic = "http" /\ Refuse(s)

ReadHeader(s, good) ==
  /\ Is(s, "header")
  /\ IF good THEN Await(s, "mess") ELSE Refuse(s)

SecurityCheck(l, type) == type \in conf.secure => l.ssl

\* reds_get_spice_ticket reads as many bytes as the key of the link has. A
\* link without key reads nothing, and the handler refuses it at once.
GetTicket(s, l) ==
  Become(s, IF l.key THEN [l EXCEPT !.stage = "ticket"] ELSE FreeLink(l))

\* The key is left out when SASL is on and the peer says it can use it.
SendLinkAck(l, scap) == [l EXCEPT !.key = ~(conf.sasl /\ scap)]

MessAnswered(s, l, selects) ==
  IF ~selects
  THEN IF conf.sasl /\ ~l.skip
       THEN Become(s, [FreshLink EXCEPT !.stage = "abandoned"])
       ELSE GetTicket(s, [l EXCEPT !.offered = conf.sasl])
  ELSE Become(s, [l EXCEPT !.stage = "mech"])

ReadMess(s, type, id, selects, scap) ==
  /\ Is(s, "mess")
  /\ LET l == [lk[s] EXCEPT !.type = type, !.id = id]
     IN IF ~SecurityCheck(l, type) \/ (type = "other" /\ ~conf.channel)
        THEN Refuse(s)
        ELSE MessAnswered(s, SendLinkAck(l, scap), selects)

\* A malformed message, or an acknowledgement that cannot be written.
ReadBadMess(s) == Is(s, "mess") /\ Refuse(s)

-----------------------------------------------------------------------------
(* Linking: the stream leaves the link for a channel. *)

Dropped(l) == IF l.stage = "linked" THEN FreeLink(l) ELSE l
Hand(l, entitled) == [FreshLink EXCEPT !.stage = "linked", !.ssl = l.ssl, !.type = l.type,
                                       !.id = l.id, !.entitled = entitled]

\* A main link replaces the client in place and gets a new connection id (one
\* that arrives by a migration is ClientLifecycle's); any other link joins the
\* client whose connection id it names.
HandleLink(s, entitled) ==
  /\ IF lk[s].type = "main"
     THEN /\ client' = s
          /\ lk' = [t \in Sockets |-> IF t = s THEN Hand(lk[s], entitled)
                                               ELSE Dropped(lk[t])]
     ELSE /\ client' = client
          /\ lk' = [lk EXCEPT ![s] =
                IF client # 0 /\ lk[s].id = client /\ conf.channel
                THEN Hand(@, entitled) ELSE FreeLink(@)]
  /\ UNCHANGED <<conf, changes>>

-----------------------------------------------------------------------------
(* Tickets. *)

\* As TicketAccepted, without the check of the lifetime.
TicketNeverExpires(l, pw) ==
  conf.ticketing /\ ~l.skip => /\ conf.password # NoPassword
                               /\ pw = conf.password

TicketAccepted(l, pw) ==
  conf.ticketing /\ ~l.skip => /\ conf.password # NoPassword
                               /\ ~conf.expired
                               /\ pw = conf.password

\* Who may enter with a ticket: everybody while ticketing is off, a peer the
\* application vouches for, and the holder of the ticket now in force; never
\* a peer that was offered SASL.
Entitled(l, pw) ==
  \/ l.skip
  \/ /\ ~l.offered
     /\ ~conf.ticketing \/ (pw = conf.password /\ ~conf.expired)

HandleTicket(s, pw) ==
  /\ Is(s, "ticket")
  /\ IF pw \in Passwords /\ TicketAccepted(lk[s], pw)
     THEN HandleLink(s, Entitled(lk[s], pw))
     ELSE Refuse(s)

-----------------------------------------------------------------------------
(* SASL. *)

\* What a ticket would have been checked with is not looked at again.
StartSasl(s) ==
  Become(s, [FreshLink EXCEPT !.stage = "mechlen", !.auth = TRUE, !.ssl = lk[s].ssl,
                              !.type = lk[s].type, !.id = lk[s].id])

MechanismIsTicket(mech) == mech = "spice" /\ ~conf.sasl

HandleAuthMechanism(s, mech, started) ==
  /\ Is(s, "mech")
  /\ CASE MechanismIsTicket(mech) -> GetTicket(s, [lk[s] EXCEPT !.offered = conf.sasl])
       [] mech = "sasl" -> IF started THEN StartSasl(s) ELSE Refuse(s)
       [] OTHER -> Refuse(s)

\* The name of the mechanism, its length, and the length of each answer.
SaslRead(s, good) ==
  /\ lk[s].stage \in InSasl \ {"step"}
  /\ IF good
     THEN Await(s, CASE Is(s, "mechlen") -> "mechname"
                     [] Is(s, "mechname") -> "steplen"
                     [] Is(s, "steplen") -> "step")
     ELSE Refuse(s)

\* A weak security layer is refused unless TLS protects the stream.
SsfGood(l, strong) == l.ssl \/ strong

SaslStep(s, result, strong) ==
  /\ Is(s, "step")
  /\ CASE result = "continue" -> Await(s, "steplen")
       [] result = "ok" -> IF SsfGood(lk[s], strong) THEN HandleLink(s, TRUE) ELSE Refuse(s)
       [] result = "fail" -> Refuse(s)

-----------------------------------------------------------------------------
(* What happens meanwhile. *)

\* The peer closes: the pending read fails and reds_handle_link_error frees the
\* link, through red_sasl_error while SASL runs.
ReadError(s) == lk[s].stage \in Reading /\ Refuse(s)

\* The peer closes a channel; with the main channel goes the client.
ChannelClosed(s) ==
  /\ Is(s, "linked")
  /\ lk' = IF lk[s].type = "main"
           THEN [t \in Sockets |-> Dropped(lk[t])]
           ELSE [lk EXCEPT ![s] = FreeLink(@)]
  /\ client' = IF lk[s].type = "main" THEN 0 ELSE client
  /\ UNCHANGED <<conf, changes>>

Change(c) == /\ changes < MaxChanges
             /\ changes' = changes + 1
             /\ conf' = c
             /\ UNCHANGED <<lk, client>>

\* A password that is too long is refused after the lifetime was renewed.
SetTicket(pw) == Change([conf EXCEPT !.ticketing = TRUE, !.password = pw,
                                     !.expired = pw = NoPassword])
SetLongTicket == Change([conf EXCEPT !.ticketing = TRUE, !.expired = FALSE])
SetNoauth == Change([conf EXCEPT !.ticketing = FALSE, !.password = NoPassword])
TicketExpires == conf.password # NoPassword /\ Change([conf EXCEPT !.expired = TRUE])
SetSasl == Change([conf EXCEPT !.sasl = ~@])
ChannelComesOrGoes == Change([conf EXCEPT !.channel = ~@])

LinkNext ==
  \/ \E s \in Sockets :
       \/ \E skip \in BOOLEAN : Accept(s, skip)
       \/ \E skip \in BOOLEAN, st \in {"ok", "wait", "error"} : AcceptSsl(s, skip, st)
       \/ \E st \in {"ok", "wait", "error"} : SslAccept(s, st)
       \/ \E m \in {"spice", "http"} : ReadMagic(s, m)
       \/ \E good \in BOOLEAN : ReadHeader(s, good)
       \/ \E sel, scap \in BOOLEAN :
            \/ ReadMess(s, "main", 0, sel, scap)
            \/ \E id \in Ids : ReadMess(s, "other", id, sel, scap)
       \/ ReadBadMess(s)
       \/ \E pw \in Passwords \cup {"garbage"} : HandleTicket(s, pw)
       \/ \E m \in {"spice", "sasl", "other"}, started \in BOOLEAN :
            HandleAuthMechanism(s, m, started)
       \/ \E good \in BOOLEAN : SaslRead(s, good)
       \/ \E r \in {"ok", "continue", "fail"}, strong \in BOOLEAN : SaslStep(s, r, strong)
       \/ ReadError(s)
       \/ ChannelClosed(s)
  \/ \E pw \in Passwords \cup {NoPassword} : SetTicket(pw)
  \/ SetLongTicket
  \/ SetNoauth
  \/ TicketExpires
  \/ SetSasl
  \/ ChannelComesOrGoes

LinkSpec == LinkInit /\ [][LinkNext]_linkVars

-----------------------------------------------------------------------------
(* The handshake admits and releases what it should, whatever the other links
   and the configuration did between its reads: a stream becomes a channel only
   for a peer that the application vouched for, that finished SASL, or that
   holds the ticket in force when it is checked and was not offered SASL; a
   channel other than main belongs to the client in place; a link that ended
   closed its socket exactly once; SASL state lives as long as its exchange; a
   link that still reads has what its stage needs to be answered
   (reds_handle_ticket, reds_handle_other_links, reds_link_free,
   reds_init_client_ssl_connection). *)
LinksAdmittedAndReleased ==
  \A s \in Sockets :
    /\ lk[s].stage = "linked" =>
         /\ lk[s].entitled
         /\ client # 0 /\ (lk[s].type = "other" => lk[s].id = client)
         /\ lk[s].type \in conf.secure => lk[s].ssl
         /\ lk[s].closes = 0
    /\ lk[s].stage = "closed" => lk[s].closes = 1
    /\ lk[s].auth <=> lk[s].stage \in InSasl
    /\ lk[s].stage = "ticket" => lk[s].key
    /\ lk[s].stage \in Reading => lk[s].closes = 0
=============================================================================
