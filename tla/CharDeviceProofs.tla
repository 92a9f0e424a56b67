-------------------------- MODULE CharDeviceProofs --------------------------
(***************************************************************************)
(* Proofs about CharDevice, for any number of clients and buffers and any  *)
(* window: the variables keep their types, each buffer is in one place,    *)
(* the tokens of the clients and of the device are conserved, freed tokens *)
(* are given back in time, messages are queued for a client only while it  *)
(* cannot take them, and no wakeup and no retry is lost.                   *)
(***************************************************************************)
EXTENDS CharDevice, FiniteSetTheorems, TLAPS

(* Types: which operations move tokens, buffers and messages *)

Owners == Clients \cup {Self, NoToken, None}

\* How the number of buffers of one owner changes when one buffer changes hands
\* (write_buffer_get, write_buffer_release).
LEMMA OwnerCount ==
  ASSUME owner \in [Bufs -> Owners], NEW b \in Bufs, NEW v \in Owners, NEW x,
         owner' = [owner EXCEPT ![b] = v]
  PROVE  /\ owner[b] # x /\ v = x => Count(owner', Bufs, x) = Count(owner, Bufs, x) + 1
         /\ owner[b] = x /\ v # x => Count(owner', Bufs, x) = Count(owner, Bufs, x) - 1
         /\ (owner[b] = x <=> v = x) => Count(owner', Bufs, x) = Count(owner, Bufs, x)
<1> DEFINE F == {y \in Bufs : owner[y] = x}
           G == {y \in Bufs : owner'[y] = x}
<1>1. IsFiniteSet(F) /\ IsFiniteSet(G)
  BY Zenon, FS_Subset, CharDeviceAssumption
<1>2. Cardinality(F) \in Nat /\ Cardinality(G) \in Nat
  BY Zenon, <1>1, FS_CardinalityType
<1>3. ASSUME owner[b] # x, v = x PROVE Cardinality(G) = Cardinality(F) + 1
  <2>1. G = F \cup {b} /\ b \notin F BY Zenon, <1>3
  <2> QED BY Zenon, <2>1, <1>1, FS_AddElement
<1>4. ASSUME owner[b] = x, v # x PROVE Cardinality(G) = Cardinality(F) - 1
  <2>1. G = F \ {b} /\ b \in F BY Zenon, <1>4
  <2> QED BY Zenon, <2>1, <1>1, FS_RemoveElement
<1>5. ASSUME owner[b] = x <=> v = x PROVE Cardinality(G) = Cardinality(F)
  <2>1. G = F BY Zenon, <1>5
  <2> QED BY Zenon, <2>1
<1> QED BY Zenon, <1>2, <1>3, <1>4, <1>5 DEF Count

\* Splitting the buffers of one owner in those a caller holds and the others (reset).
LEMMA OwnerSplit ==
  ASSUME NEW f \in [Bufs -> Owners], NEW H \in SUBSET Bufs, NEW x
  PROVE  /\ Count(f, H, x) \in Nat /\ Count(f, Bufs \ H, x) \in Nat
         /\ Count(f, Bufs, x) = Count(f, H, x) + Count(f, Bufs \ H, x)
<1> DEFINE A == {y \in H : f[y] = x}
           B == {y \in Bufs \ H : f[y] = x}
<1>1. IsFiniteSet(A) /\ IsFiniteSet(B) BY Zenon, FS_Subset, CharDeviceAssumption
<1>2. A \cap B = {} /\ {y \in Bufs : f[y] = x} = A \cup B BY Zenon
<1>3. Cardinality(A \cap B) = 0 BY Zenon, <1>2, FS_EmptySet
<1>4. Cardinality(A \cup B) = Cardinality(A) + Cardinality(B) - Cardinality(A \cap B)
  BY Zenon, <1>1, FS_Union
<1>5. Cardinality(A) \in Nat /\ Cardinality(B) \in Nat BY Zenon, <1>1, FS_CardinalityType
<1> QED BY <1>2, <1>3, <1>4, <1>5 DEF Count

\* What pushing and popping calls does to the stack.
LEMMA StackOps ==
  ASSUME NEW s \in Seq(Frames), NEW e \in Frames, NEW g \in Frames
  PROVE  /\ <<e>> \o s \in Seq(Frames) /\ <<e, g>> \o s \in Seq(Frames)
         /\ \A i \in DOMAIN (<<e>> \o s) :
              (<<e>> \o s)[i] = e \/ \E j \in DOMAIN s : (<<e>> \o s)[i] = s[j]
         /\ \A i \in DOMAIN (<<e, g>> \o s) :
              (<<e, g>> \o s)[i] \in {e, g} \/ \E j \in DOMAIN s : (<<e, g>> \o s)[i] = s[j]
         /\ s # <<>> => /\ Head(s) \in Frames /\ Tail(s) \in Seq(Frames)
                        /\ \A i \in DOMAIN Tail(s) : \E j \in DOMAIN s : Tail(s)[i] = s[j]
<1>1. <<e>> \in Seq(Frames) /\ <<e, g>> \in Seq(Frames) OBVIOUS
<1>2. <<e>> \o s \in Seq(Frames) /\ <<e, g>> \o s \in Seq(Frames) BY <1>1
<1>3. ASSUME NEW i \in DOMAIN (<<e>> \o s)
      PROVE  (<<e>> \o s)[i] = e \/ \E j \in DOMAIN s : (<<e>> \o s)[i] = s[j]
  <2>1. CASE i = 1 BY <2>1
  <2>2. CASE i # 1
    <3>1. i - 1 \in DOMAIN s /\ (<<e>> \o s)[i] = s[i - 1] BY <2>2
    <3> QED BY Zenon, <3>1
  <2> QED BY Zenon, <2>1, <2>2
<1>4. ASSUME NEW i \in DOMAIN (<<e, g>> \o s)
      PROVE  (<<e, g>> \o s)[i] \in {e, g} \/ \E j \in DOMAIN s : (<<e, g>> \o s)[i] = s[j]
  <2>1. CASE i \in {1, 2} BY <2>1
  <2>2. CASE i \notin {1, 2}
    <3>1. i - 2 \in DOMAIN s /\ (<<e, g>> \o s)[i] = s[i - 2] BY <2>2
    <3> QED BY Zenon, <3>1
  <2> QED BY Zenon, <2>1, <2>2
<1>5. ASSUME s # <<>>
      PROVE  /\ Head(s) \in Frames /\ Tail(s) \in Seq(Frames)
             /\ \A i \in DOMAIN Tail(s) : \E j \in DOMAIN s : Tail(s)[i] = s[j]
  <2>1. Head(s) \in Frames /\ Tail(s) \in Seq(Frames) BY <1>5
  <2>2. ASSUME NEW i \in DOMAIN Tail(s) PROVE \E j \in DOMAIN s : Tail(s)[i] = s[j]
    <3>1. i + 1 \in DOMAIN s /\ Tail(s)[i] = s[i + 1] BY <1>5
    <3> QED BY Zenon, <3>1
  <2> QED BY Zenon, <2>1, <2>2
<1> QED BY Zenon, <1>2, <1>3, <1>4, <1>5

\* The tokens that a set of buffers stands for are a natural number.
LEMMA ChargedType ==
  ASSUME BufType, NEW S \in SUBSET Bufs, NEW c
  PROVE  Charged(S, c) \in Nat /\ Count(owner, S, c) \in Nat
<1> DEFINE A == {b \in S : owner[b] = c}
<1>1. IsFiniteSet(A) BY Zenon, FS_Subset, CharDeviceAssumption
<1>2. Cardinality(A) \in Nat BY Zenon, <1>1, FS_CardinalityType
<1>3. cur \in A => Cardinality(A) # 0 BY Zenon, <1>1, FS_EmptySet
<1> QED BY <1>2, <1>3 DEF Charged, Count, BufType

\* The variables that say where the buffers and the tokens are.
moneyVars == <<writeQueue, cur, price, held, owner, selfTokens, clients, tokens, free>>

\* The operations that move buffers or tokens.
LEMMA MoneyMoves ==
  ASSUME [Next]_vars
  PROVE  \/ UNCHANGED moneyVars /\ (UNCHANGED <<rem, pending>> \/ WriteSome)
         \/ WritePop \/ WriteDone
         \/ \E c \in Clients, b \in Bufs : WriteBufferGetClient(c, b)
         \/ \E b \in Bufs : WriteBufferAdd(b)
         \/ \E b \in Bufs : WriteBufferRelease(b)
         \/ \E c \in Clients, wait \in BOOLEAN, send \in 0..MaxSend : ClientAdd(c, wait, send)
         \/ \E c \in Clients : ClientRemove(c)
         \/ \E b \in Bufs, t \in BOOLEAN : ServerMessage(b, t)
         \/ Reset
         \/ \E c \in Clients, b \in Bufs, m \in MigData, send \in 0..MaxSend :
              Restore(c, b, m.client, m.write, m.size, send)
<1> USE DEF moneyVars, bufVars, cliVars
<1>1. CASE DeviceLoops
  BY Zenon, <1>1 DEF DeviceLoops, CallRead, ReadMessage, ReadNothing, ReadRetry, ReadExit, CallWrite,
              WriteSome, WriteRetry, WriteExit, StartLoop
<1>2. CASE ClientOps
  <2>1. ASSUME NEW c \in Clients, NEW n \in 1..MaxSend, NEW r, TokensAbsorb(c, n, r)
        PROVE  UNCHANGED <<moneyVars, rem, pending>>
    BY Zenon, <2>1 DEF TokensAbsorb
  <2>2. ASSUME NEW c \in Clients, TokensTimeout(c) PROVE UNCHANGED <<moneyVars, rem, pending>>
    BY Zenon, <2>2 DEF TokensTimeout
  <2> QED BY Zenon, <1>2, <2>1, <2>2 DEF ClientOps
<1>3. CASE DeviceOps
  BY Zenon, <1>3 DEF DeviceOps, WriteTimerFires, Start, Stop, Attach, Wakeup, DeviceProduces
<1> QED BY Zenon, <1>1, <1>2, <1>3 DEF Next, vars

\* The variables that say which messages wait for a client.
messageVars == <<clients, sendTokens, sendQueue, waitTokens>>

\* The operations that send or queue messages.
LEMMA MessagesMove ==
  ASSUME [Next]_vars
  PROVE  \/ UNCHANGED messageVars
         \/ ReadMessage
         \/ \E c \in Clients, n \in 1..MaxSend, r \in BOOLEAN : TokensAbsorb(c, n, r)
         \/ \E c \in Clients, wait \in BOOLEAN, send \in 0..MaxSend : ClientAdd(c, wait, send)
         \/ \E c \in Clients : ClientRemove(c)
         \/ Reset
         \/ \E c \in Clients, b \in Bufs, m \in MigData, send \in 0..MaxSend :
              Restore(c, b, m.client, m.write, m.size, send)
<1> USE DEF messageVars, cliVars
<1>1. CASE DeviceLoops
  BY Zenon, <1>1 DEF DeviceLoops, CallRead, ReadNothing, ReadRetry, ReadExit, CallWrite, WritePop,
              WriteSome, WriteDone, WriteRetry, WriteExit, StartLoop
<1>2. CASE ClientOps
  BY Zenon, <1>2 DEF ClientOps, TokensTimeout, WriteBufferGetClient, WriteBufferAdd,
              WriteBufferRelease
<1>3. CASE DeviceOps
  BY Zenon, <1>3 DEF DeviceOps, ServerMessage, WriteTimerFires, Start, Stop, Attach, Wakeup,
              DeviceProduces
<1> QED BY Zenon, <1>1, <1>2, <1>3 DEF Next, vars

\* Each group of variables keeps its type in every step.
LEMMA CtlTypeStep == ASSUME TypeOK, [Next]_vars PROVE CtlType'
<1> USE DEF TypeOK
<1>1. CASE UNCHANGED <<ctlVars, writeTimer, envVars>>
  BY Zenon, <1>1 DEF CtlType, ctlVars, envVars
<1>2. ASSUME ReadMessage PROVE CtlType'
  BY <1>2 DEF ReadMessage, CtlType, ctlVars, envVars, vars
<1>3. ASSUME ReadExit PROVE CtlType'
  BY Zenon, <1>3 DEF ReadExit, CtlType, ctlVars, envVars, vars
<1>4. ASSUME CallWrite PROVE CtlType'
  BY Zenon, <1>4 DEF CallWrite, CtlType, ctlVars, envVars, vars
<1>5. ASSUME WriteExit PROVE CtlType'
  BY Zenon, <1>5 DEF WriteExit, RetryTimer, CtlType, ctlVars, envVars
<1>6. ASSUME NEW c \in Clients, NEW wait \in BOOLEAN, NEW send \in 0..MaxSend,
             ClientAdd(c, wait, send)
      PROVE  CtlType'
  BY Zenon, <1>6 DEF ClientAdd, CtlType, ctlVars, envVars, vars
<1>7. ASSUME NEW c \in Clients, ClientRemove(c) PROVE CtlType'
  BY Zenon, <1>7 DEF ClientRemove, CtlType, ctlVars, envVars, vars
<1>8. ASSUME WriteTimerFires PROVE CtlType'
  BY Zenon, <1>8 DEF WriteTimerFires, CtlType, ctlVars, envVars, vars
<1>9. ASSUME Start PROVE CtlType'
  BY Zenon, <1>9 DEF Start, CtlType, ctlVars, envVars, vars
<1>10. ASSUME Stop PROVE CtlType'
  BY Zenon, <1>10 DEF Stop, CtlType, ctlVars, envVars, vars
<1>11. ASSUME Reset PROVE CtlType'
  BY Zenon, <1>11 DEF Reset, CtlType, ctlVars, envVars, vars
<1>12. ASSUME NEW vmRunning \in BOOLEAN, Attach(vmRunning) PROVE CtlType'
  BY Zenon, <1>12 DEF Attach, CtlType, ctlVars, envVars, vars
<1>13. ASSUME NEW c \in Clients, NEW b \in Bufs, NEW m \in MigData, NEW send \in 0..MaxSend,
             Restore(c, b, m.client, m.write, m.size, send)
      PROVE  CtlType'
  BY Zenon, <1>13 DEF Restore, CtlType, ctlVars, envVars, vars
<1>14. ASSUME Wakeup PROVE CtlType'
  BY Zenon, <1>14 DEF Wakeup, CtlType, ctlVars, envVars, vars
<1>15. ASSUME DeviceProduces PROVE CtlType'
  BY <1>15 DEF DeviceProduces, CtlType, ctlVars, envVars, vars
<1>16. CASE DeviceLoops
  BY Zenon, <1>16, <1>1, <1>2, <1>3, <1>4, <1>5
     DEF DeviceLoops, CallRead, ReadNothing, ReadRetry, WritePop, WriteSome, WriteDone, WriteRetry,
         StartLoop, envVars
<1>17. CASE ClientOps
  BY Zenon, <1>17, <1>1, <1>6, <1>7
     DEF ClientOps, TokensAbsorb, TokensTimeout, WriteBufferGetClient, WriteBufferAdd, WriteBufferRelease
<1>18. CASE DeviceOps
  BY Zenon, <1>18, <1>1, <1>8, <1>9, <1>10, <1>11, <1>12, <1>13, <1>14, <1>15 DEF DeviceOps, ServerMessage
<1> QED BY Zenon, <1>1, <1>16, <1>17, <1>18 DEF Next, vars

\* Every step keeps the types of the write buffers, their owners and the tokens in them.
LEMMA BufTypeStep == ASSUME TypeOK, [Next]_vars PROVE BufType'
<1> USE DEF TypeOK
<1>1. CASE UNCHANGED <<moneyVars, rem, pending>>
  BY Zenon, <1>1 DEF moneyVars, BufType
<1>2. ASSUME WritePop PROVE BufType'
  BY <1>2, CharDeviceAssumption DEF WritePop, BufType, bufVars, vars
<1>3. ASSUME WriteSome PROVE BufType'
  BY <1>3, CharDeviceAssumption DEF WriteSome, BufType, bufVars, vars
<1>4. ASSUME WriteDone PROVE BufType'
  <2>1. cur \in Bufs /\ cur' = Nil /\ rem' = 0 /\ price' = 0 /\ held' = held
    BY Zenon, <1>4 DEF WriteDone, BufType
  <2>2. CASE owner[cur] \in Clients
    <3>1. /\ owner' = [owner EXCEPT ![cur] = None]
          /\ UNCHANGED <<writeQueue, selfTokens, pending>>
      BY Zenon, <1>4, <2>2 DEF WriteDone
    <3> QED BY Zenon, <2>1, <3>1 DEF BufType
  <2>3. CASE owner[cur] \notin Clients /\ owner[cur] = Self /\ ResendsPending
    <3>1. /\ writeQueue' = Append(writeQueue, cur) /\ pending' = FALSE
          /\ UNCHANGED <<owner, selfTokens>>
      BY Zenon, <1>4, <2>3 DEF WriteDone
    <3>2. writeQueue' \in Seq(Bufs) BY <2>1, <3>1 DEF BufType
    <3>3. pending' \in BOOLEAN BY Zenon, <3>1
    <3> QED BY Zenon, <2>1, <3>1, <3>2, <3>3 DEF BufType
  <2>4. CASE owner[cur] \notin Clients /\ ~(owner[cur] = Self /\ ResendsPending)
    <3>1. /\ owner' = [owner EXCEPT ![cur] = None]
          /\ selfTokens' = (IF owner[cur] = Self THEN selfTokens + 1 ELSE selfTokens)
          /\ UNCHANGED <<writeQueue, pending>>
      BY Zenon, <1>4, <2>4 DEF WriteDone
    <3> QED BY <2>1, <3>1 DEF BufType
  <2> QED BY Zenon, <2>2, <2>3, <2>4
<1>5. ASSUME NEW c \in Clients, NEW b \in Bufs, WriteBufferGetClient(c, b) PROVE BufType'
  BY Zenon, <1>5, CharDeviceAssumption DEF WriteBufferGetClient, BufType, bufVars, vars
<1>6. ASSUME NEW b \in Bufs, WriteBufferAdd(b) PROVE BufType'
  BY <1>6, CharDeviceAssumption DEF WriteBufferAdd, BufType, bufVars, vars
<1>7. ASSUME NEW b \in Bufs, WriteBufferRelease(b) PROVE BufType'
  BY Zenon, <1>7, CharDeviceAssumption DEF WriteBufferRelease, BufType, bufVars, vars
<1>8. ASSUME NEW c \in Clients, NEW wait \in BOOLEAN, NEW send \in 0..MaxSend,
             ClientAdd(c, wait, send)
      PROVE  BufType'
  BY Zenon, <1>8, CharDeviceAssumption DEF ClientAdd, BufType, bufVars, vars
<1>9. ASSUME NEW c \in Clients, ClientRemove(c) PROVE BufType'
  <2> USE <1>9 DEF ClientRemove
  <2>1. writeQueue' \in Seq(Bufs) BY DEF DropFromQueue, BufType
  <2>2. owner' \in [Bufs -> Clients \cup {Self, NoToken, None}] BY Zenon DEF BufType
  <2>3. held' \in SUBSET Bufs BY Zenon DEF BufType
  <2> QED BY Zenon, <2>1, <2>2, <2>3 DEF BufType
<1>10. ASSUME NEW b \in Bufs, NEW t \in BOOLEAN, ServerMessage(b, t) PROVE BufType'
  <2>1. UNCHANGED <<cur, rem, price, held>> BY Zenon, <1>10 DEF ServerMessage
  <2>2. CASE t /\ selfTokens = 0
    <3>1. pending' = TRUE /\ UNCHANGED <<owner, selfTokens, writeQueue>>
      BY Zenon, <1>10, <2>2 DEF ServerMessage
    <3> QED BY Zenon, <2>1, <3>1 DEF BufType
  <2>3. CASE ~(t /\ selfTokens = 0)
    <3>1. /\ owner' = [owner EXCEPT ![b] = IF t THEN Self ELSE NoToken]
          /\ selfTokens' = (IF t THEN selfTokens - 1 ELSE selfTokens)
          /\ pending' \in BOOLEAN
          /\ writeQueue' = Append(writeQueue, b)
      BY Zenon, <1>10, <2>3 DEF ServerMessage
    <3>2. selfTokens' \in Nat BY <2>3, <3>1 DEF BufType
    <3> QED BY <2>1, <3>1, <3>2 DEF BufType
  <2> QED BY Zenon, <2>2, <2>3
<1>11. ASSUME Reset PROVE BufType'
  <2>1. owner \in [Bufs -> Owners] /\ held \in SUBSET Bufs BY Zenon DEF BufType, Owners
  <2>2. Count(owner, Bufs \ held, Self) \in Nat BY Zenon, <2>1, OwnerSplit
  <2>3. selfTokens' \in Nat BY <1>11, <2>2 DEF Reset, SelfTokensFreed, BufType
  <2>4. owner' \in [Bufs -> Clients \cup {Self, NoToken, None}] BY Zenon, <1>11 DEF Reset, BufType
  <2>5. /\ writeQueue' = <<>> /\ cur' = Nil /\ rem' = 0 /\ price' = 0
        /\ UNCHANGED <<held, pending>>
    BY Zenon, <1>11 DEF Reset
  <2> QED BY <2>3, <2>4, <2>5 DEF BufType
<1>12. ASSUME NEW c \in Clients, NEW b \in Bufs, NEW m \in MigData, NEW send \in 0..MaxSend,
             Restore(c, b, m.client, m.write, m.size, send)
      PROVE  BufType'
  <2> USE <1>12 DEF Restore
  <2>1. m.write \in Nat /\ m.size \in Nat BY CharDeviceAssumption DEF MigData
  <2>2. owner' \in [Bufs -> Clients \cup {Self, NoToken, None}] BY Zenon DEF BufType
  <2>3. selfTokens' \in Nat BY <2>1 DEF BufType
  <2>4. cur' \in Bufs \cup {Nil} /\ rem' \in Nat /\ price' \in Nat BY <2>1 DEF BufType
  <2> QED BY Zenon, <2>2, <2>3, <2>4 DEF BufType
<1> QED BY Zenon, <1>1, <1>2, <1>3, <1>4, <1>5, <1>6, <1>7, <1>8, <1>9, <1>10, <1>11, <1>12,
           MoneyMoves

\* Every step keeps the types of the per-client counters and of the send queues.
LEMMA ClientTypeStep == ASSUME Inductive, [Next]_vars PROVE ClientType'
<1>0. BufType /\ ClientType BY Zenon DEF Inductive, TypeOK
<1>1. CASE UNCHANGED cliVars BY Zenon, <1>0, <1>1 DEF cliVars, ClientType
<1>2. ASSUME ReadMessage PROVE ClientType'
  <2> USE <1>2 DEF ReadMessage
  <2>1. sendTokens' \in [Clients -> Nat]
    BY <1>0, CharDeviceAssumption DEF ClientType, CanSendToClient
  <2>2. sendQueue' \in [Clients -> Nat] BY <1>0 DEF ClientType
  <2>3. waitTokens' \in [Clients -> BOOLEAN] BY Zenon, <1>0 DEF ClientType
  <2>4. kicked' \in SUBSET clients BY Zenon, <1>0 DEF ClientType
  <2> QED BY Zenon, <1>0, <2>1, <2>2, <2>3, <2>4 DEF ClientType
<1>3. ASSUME WriteDone PROVE ClientType'
  <2>1. UNCHANGED <<clients, sendTokens, sendQueue, waitTokens, kicked>>
    BY Zenon, <1>3 DEF WriteDone
  <2>2. CASE owner[cur] \in Clients /\ FlowControl[owner[cur]]
    <3>1. TokensAdd(owner[cur], price) BY Zenon, <1>3, <2>2 DEF WriteDone
    <3>2. price \in Nat /\ free[owner[cur]] \in Nat /\ tokens[owner[cur]] \in Nat
      BY Zenon, <1>0, <2>2 DEF BufType, ClientType
    <3>3. tokens' \in [Clients -> Nat] BY <1>0, <2>2, <3>1, <3>2 DEF TokensAdd, ClientType
    <3>4. free' \in [Clients -> Nat] BY <1>0, <2>2, <3>1, <3>2 DEF TokensAdd, ClientType
    <3> QED BY Zenon, <1>0, <2>1, <3>3, <3>4 DEF ClientType
  <2>3. CASE ~(owner[cur] \in Clients /\ FlowControl[owner[cur]])
    <3>1. UNCHANGED <<tokens, free>> BY Zenon, <1>3, <2>3 DEF WriteDone
    <3> QED BY Zenon, <1>0, <2>1, <3>1 DEF ClientType
  <2> QED BY Zenon, <2>2, <2>3
<1>4. ASSUME NEW c \in Clients, NEW n \in 1..MaxSend, NEW r \in BOOLEAN, TokensAbsorb(c, n, r)
      PROVE  ClientType'
  <2> DEFINE base == (IF r THEN 0 ELSE sendTokens[c]) + n
  <2>1. base \in Nat /\ sendQueue[c] \in Nat BY <1>0, CharDeviceAssumption DEF ClientType
  <2>2. /\ SendQueuePush(c, base) \in Nat /\ base - SendQueuePush(c, base) \in Nat
        /\ sendQueue[c] - SendQueuePush(c, base) \in Nat
    BY <2>1 DEF SendQueuePush
  <2>3. sendTokens' \in [Clients -> Nat] /\ sendQueue' \in [Clients -> Nat]
    BY Zenon, <1>4, <1>0, <2>2 DEF TokensAbsorb, ClientType
  <2>4. waitTokens' \in [Clients -> BOOLEAN] BY Zenon, <1>4, <1>0 DEF TokensAbsorb, ClientType
  <2> QED BY Zenon, <1>4, <1>0, <2>3, <2>4 DEF TokensAbsorb, ClientType
<1>5. ASSUME NEW c \in Clients, TokensTimeout(c) PROVE ClientType'
  BY Zenon, <1>5, <1>0, CharDeviceAssumption DEF TokensTimeout, ClientType, cliVars, vars
<1>6. ASSUME NEW c \in Clients, NEW b \in Bufs, WriteBufferGetClient(c, b) PROVE ClientType'
  BY <1>6, <1>0, CharDeviceAssumption DEF WriteBufferGetClient, OutOfTokens, ClientType
<1>7. ASSUME NEW b \in Bufs, WriteBufferRelease(b) PROVE ClientType'
  BY <1>7, <1>0, CharDeviceAssumption DEF WriteBufferRelease, TokensAdd, ClientType
<1>8. ASSUME NEW c \in Clients, NEW wait \in BOOLEAN, NEW send \in 0..MaxSend,
             ClientAdd(c, wait, send)
      PROVE  ClientType'
  BY <1>8, <1>0, CharDeviceAssumption DEF ClientAdd, ClientType, cliVars, vars
<1>9. ASSUME NEW c \in Clients, ClientRemove(c) PROVE ClientType'
  BY Zenon, <1>9, <1>0, CharDeviceAssumption DEF ClientRemove, ClientType, cliVars, vars
<1>10. ASSUME Reset PROVE ClientType'
  <2>1. \A c \in Clients : Charged(Bufs \ held, c) \in Nat BY Zenon, <1>0, ChargedType
  <2>2. tokens' \in [Clients -> Nat]
    <3> DEFINE New(c) == IF c \in clients /\ FlowControl[c]
                         THEN tokens[c] + free[c] + Charged(Bufs \ held, c) ELSE tokens[c]
    <3>1. tokens' = [c \in Clients |-> New(c)] BY Zenon, <1>10 DEF Reset
    <3>2. \A c \in Clients : New(c) \in Nat BY <1>0, <2>1 DEF ClientType
    <3> QED BY Zenon, <3>1, <3>2
  <2>3. /\ free' \in [Clients -> Nat] /\ sendTokens' \in [Clients -> Nat]
        /\ sendQueue' \in [Clients -> Nat]
    BY <1>0, <1>10 DEF Reset, ClientType
  <2>4. UNCHANGED <<clients, waitTokens, kicked>> BY Zenon, <1>10 DEF Reset
  <2> QED BY Zenon, <1>0, <2>2, <2>3, <2>4 DEF ClientType
<1>11. ASSUME NEW c \in Clients, NEW b \in Bufs, NEW m \in MigData, NEW send \in 0..MaxSend,
             Restore(c, b, m.client, m.write, m.size, send)
      PROVE  ClientType'
  <2> USE <1>11 DEF Restore
  <2>1. tokens[c] = Window BY Zenon DEF Inductive, MigrationWait
  <2>2. m.client \in Nat /\ Window - m.client - m.write \in Nat
    BY CharDeviceAssumption DEF MigData
  <2>3. tokens' \in [Clients -> Nat] /\ free' \in [Clients -> Nat]
    BY Zenon, <1>0, <2>1, <2>2 DEF ClientType
  <2>4. sendTokens' \in [Clients -> Nat] BY <1>0, CharDeviceAssumption DEF ClientType
  <2> QED BY Zenon, <1>0, <2>3, <2>4 DEF ClientType
<1>12. CASE DeviceLoops
  BY Zenon, <1>12, <1>1, <1>2, <1>3 DEF DeviceLoops, CallRead, ReadNothing, ReadRetry, ReadExit, CallWrite,
     WritePop, WriteSome, WriteRetry, WriteExit, StartLoop
<1>13. CASE ClientOps BY Zenon, <1>13, <1>1, <1>4, <1>5, <1>6, <1>7, <1>8, <1>9 DEF ClientOps, WriteBufferAdd
<1>14. CASE DeviceOps
  BY Zenon, <1>14, <1>1, <1>10, <1>11 DEF DeviceOps, ServerMessage, WriteTimerFires, Start, Stop, Attach, Wakeup,
     DeviceProduces
<1> QED BY Zenon, <1>1, <1>12, <1>13, <1>14 DEF Next, vars

\* Every step keeps the types of the locals of the two loops of char-device.cpp.
LEMMA LoopTypeStep == ASSUME TypeOK, [Next]_vars PROVE LoopType'
<1> USE DEF TypeOK
<1>1. CASE UNCHANGED <<ret, duringWrite, duringRead, total, didRead, maxTok>>
  BY Zenon, <1>1 DEF LoopType
<1>2. ASSUME CallRead PROVE LoopType'
  <2>1. \A k \in MaxSendTokens : k \in Nat \cup {-1} BY DEF MaxSendTokens, ClientType
  <2>2. ret' \in BOOLEAN BY Zenon, <1>2 DEF CallRead, Return, LoopType
  <2>3. duringRead' \in 0..2
    <3>1. duringRead' = duringRead \/ duringRead' = 2 \/ duringRead' = 1 BY Zenon, <1>2 DEF CallRead
    <3> QED BY <3>1 DEF LoopType
  <2>4. didRead' \in BOOLEAN BY Zenon, <1>2 DEF CallRead, LoopType
  <2>5. maxTok' \in Nat \cup {-1} BY Zenon, <1>2, <2>1 DEF CallRead, LoopType
  <2>6. UNCHANGED <<duringWrite, total>> BY Zenon, <1>2 DEF CallRead
  <2> QED BY Zenon, <2>2, <2>3, <2>4, <2>5, <2>6 DEF LoopType
<1>3. ASSUME ReadMessage PROVE LoopType'
  <2>1. didRead' \in BOOLEAN BY Zenon, <1>3 DEF ReadMessage
  <2>3. maxTok' = DecMax(maxTok) /\ UNCHANGED <<ret, duringWrite, duringRead, total>>
    BY Zenon, <1>3 DEF ReadMessage
  <2>4. maxTok' \in Nat \cup {-1} BY <2>3 DEF DecMax, LoopType
  <2> QED BY Zenon, <2>1, <2>3, <2>4 DEF LoopType
<1>4. ASSUME ReadRetry PROVE LoopType'
  BY <1>4 DEF ReadRetry, LoopType, loopVars, vars
<1>5. ASSUME ReadExit PROVE LoopType'
  <2>1. ret' \in BOOLEAN BY Zenon, <1>5 DEF ReadExit, Return
  <2>2. duringRead' = 0 /\ maxTok' = 0 /\ UNCHANGED <<duringWrite, total>>
    BY Zenon, <1>5 DEF ReadExit
  <2>3. didRead' \in BOOLEAN BY Zenon, <1>5 DEF ReadExit
  <2> QED BY <2>1, <2>2, <2>3 DEF LoopType
<1>6. ASSUME CallWrite PROVE LoopType'
  <2>1. ret' \in BOOLEAN BY Zenon, <1>6 DEF CallWrite, Return, LoopType
  <2>2. duringWrite' \in 0..2
    <3>1. duringWrite' = duringWrite \/ duringWrite' = 2 \/ duringWrite' = 1
      BY Zenon, <1>6 DEF CallWrite
    <3> QED BY <3>1 DEF LoopType
  <2>3. total' \in BOOLEAN BY Zenon, <1>6 DEF CallWrite, LoopType
  <2>4. UNCHANGED <<duringRead, didRead, maxTok>> BY Zenon, <1>6 DEF CallWrite
  <2> QED BY Zenon, <2>1, <2>2, <2>3, <2>4 DEF LoopType
<1>7. ASSUME WriteSome PROVE LoopType'
  <2>1. total' \in BOOLEAN BY Zenon, <1>7 DEF WriteSome
  <2>2. UNCHANGED <<ret, duringWrite, duringRead, didRead, maxTok>> BY Zenon, <1>7 DEF WriteSome
  <2> QED BY Zenon, <2>1, <2>2 DEF LoopType
<1>8. ASSUME WriteDone PROVE LoopType'
  BY <1>8 DEF WriteDone, LoopType, loopVars, vars
<1>9. ASSUME WriteRetry PROVE LoopType'
  BY <1>9 DEF WriteRetry, LoopType, loopVars, vars
<1>10. ASSUME WriteExit PROVE LoopType'
  <2>1. ret' \in BOOLEAN BY Zenon, <1>10 DEF WriteExit, Return
  <2>2. duringWrite' = 0 /\ UNCHANGED <<duringRead, didRead, maxTok>>
    BY Zenon, <1>10 DEF WriteExit
  <2>3. total' \in BOOLEAN BY Zenon, <1>10 DEF WriteExit
  <2> QED BY <2>1, <2>2, <2>3 DEF LoopType
<1>11. CASE DeviceLoops
  BY Zenon, <1>11, <1>1, <1>2, <1>3, <1>4, <1>5, <1>6, <1>7, <1>8, <1>9, <1>10
     DEF DeviceLoops, ReadNothing, WritePop, StartLoop, loopVars
<1>12. CASE ClientOps
  BY Zenon, <1>12, <1>1 DEF ClientOps, loopVars, TokensAbsorb, TokensTimeout, WriteBufferGetClient, WriteBufferAdd,
     WriteBufferRelease, ClientAdd, ClientRemove
<1>13. CASE DeviceOps
  <2>1. ASSUME NEW b \in Bufs, NEW t \in BOOLEAN, ServerMessage(b, t) PROVE LoopType'
    BY Zenon, <1>1, <2>1 DEF ServerMessage, loopVars
  <2>2. ASSUME NEW vmRunning \in BOOLEAN, Attach(vmRunning) PROVE LoopType'
    BY Zenon, <1>1, <2>2 DEF Attach, loopVars
  <2>3. ASSUME NEW c \in Clients, NEW b \in Bufs, NEW m \in MigData, NEW send \in 0..MaxSend,
               Restore(c, b, m.client, m.write, m.size, send)
        PROVE  LoopType'
    BY Zenon, <1>1, <2>3 DEF Restore, loopVars
  <2>4. CASE WriteTimerFires \/ Start \/ Stop \/ Reset \/ Wakeup \/ DeviceProduces
    BY Zenon, <1>1, <2>4 DEF WriteTimerFires, Start, Stop, Reset, Wakeup, DeviceProduces, loopVars
  <2> QED BY Zenon, <1>13, <2>1, <2>2, <2>3, <2>4 DEF DeviceOps
<1> QED BY Zenon, <1>1, <1>11, <1>12, <1>13 DEF Next, vars, loopVars

\* Every step leaves a well-formed stack of the calls in progress.
LEMMA StackTypeStep == ASSUME TypeOK, [Next]_vars PROVE stack' \in Seq(Frames)
<1> USE DEF TypeOK
<1>1. CASE UNCHANGED stack BY Zenon, <1>1
<1>2. ASSUME CallRead PROVE stack' \in Seq(Frames)
  <2>1. stack' = Tail(stack) \/ stack' = <<"read">> \o Tail(stack) BY Zenon, <1>2 DEF CallRead, Return
  <2>2. stack # <<>> BY Zenon, <1>2 DEF CallRead, Return, Top, Idle
  <2>3. Tail(stack) \in Seq(Frames) BY <2>2
  <2>4. "read" \in Frames BY Zenon DEF Frames
  <2>5. <<"read">> \o Tail(stack) \in Seq(Frames) BY Zenon, <2>3, <2>4, StackOps
  <2> QED BY Zenon, <2>1, <2>3, <2>5
<1>3. ASSUME ReadNothing PROVE stack' \in Seq(Frames)
  BY Zenon, <1>3, StackOps DEF ReadNothing, loopVars, vars, Frames, Call, Return, Top, Idle
<1>4. ASSUME ReadRetry PROVE stack' \in Seq(Frames)
  BY Zenon, <1>4, StackOps DEF ReadRetry, loopVars, vars, Frames, Call, Return, Top, Idle
<1>5. ASSUME ReadExit PROVE stack' \in Seq(Frames)
  BY Zenon, <1>5, StackOps DEF ReadExit, loopVars, vars, Frames, Call, Return, Top, Idle
<1>6. ASSUME CallWrite PROVE stack' \in Seq(Frames)
  <2>1. stack' = Tail(stack) \/ stack' = <<"write">> \o Tail(stack) BY Zenon, <1>6 DEF CallWrite, Return
  <2>2. stack # <<>> BY Zenon, <1>6 DEF CallWrite, Return, Top, Idle
  <2>3. Tail(stack) \in Seq(Frames) BY <2>2
  <2>4. "write" \in Frames BY Zenon DEF Frames
  <2>5. <<"write">> \o Tail(stack) \in Seq(Frames) BY Zenon, <2>3, <2>4, StackOps
  <2> QED BY Zenon, <2>1, <2>3, <2>5
<1>7. ASSUME WriteExit PROVE stack' \in Seq(Frames)
  BY Zenon, <1>7, StackOps DEF WriteExit, loopVars, vars, Frames, Call, Return, Top, Idle
<1>8. ASSUME StartLoop PROVE stack' \in Seq(Frames)
  BY Zenon, <1>8, StackOps DEF StartLoop, loopVars, vars, Frames, Call, Return, Top, Idle
<1>9. ASSUME NEW c \in Clients, NEW n \in 1..MaxSend, NEW r \in BOOLEAN, TokensAbsorb(c, n, r)
      PROVE  stack' \in Seq(Frames)
  <2>1. stack' = <<"callR">> \/ stack' = <<>> BY Zenon, <1>9 DEF TokensAbsorb
  <2>2. <<"callR">> \in Seq(Frames) /\ <<>> \in Seq(Frames) BY DEF Frames
  <2> QED BY Zenon, <2>1, <2>2
<1>10. ASSUME NEW b \in Bufs, WriteBufferAdd(b) PROVE stack' \in Seq(Frames)
  BY Zenon, <1>10, StackOps DEF WriteBufferAdd, loopVars, vars, Frames, Call, Return, Top, Idle
<1>11. ASSUME NEW c \in Clients, NEW wait \in BOOLEAN, NEW send \in 0..MaxSend,
             ClientAdd(c, wait, send)
      PROVE  stack' \in Seq(Frames)
  BY Zenon, <1>11, StackOps DEF ClientAdd, loopVars, vars, Frames, Call, Return, Top, Idle
<1>12. ASSUME NEW c \in Clients, ClientRemove(c) PROVE stack' \in Seq(Frames)
  <2>1. stack' = stack \/ stack' = <<"callR">> \o stack BY Zenon, <1>12 DEF ClientRemove, Call
  <2>2. "callR" \in Frames BY Zenon DEF Frames
  <2>3. <<"callR">> \o stack \in Seq(Frames) BY Zenon, <2>2, StackOps
  <2> QED BY Zenon, <2>1, <2>3
<1>13. ASSUME NEW b \in Bufs, NEW t \in BOOLEAN, ServerMessage(b, t) PROVE stack' \in Seq(Frames)
  <2>1. stack' = stack \/ stack' = <<"callW">> \o stack BY Zenon, <1>13 DEF ServerMessage, Call
  <2>2. "callW" \in Frames BY Zenon DEF Frames
  <2>3. <<"callW">> \o stack \in Seq(Frames) BY Zenon, <2>2, StackOps
  <2> QED BY Zenon, <2>1, <2>3
<1>14. ASSUME WriteTimerFires PROVE stack' \in Seq(Frames)
  BY Zenon, <1>14, StackOps DEF WriteTimerFires, loopVars, vars, Frames, Call, Return, Top, Idle
<1>15. ASSUME Start PROVE stack' \in Seq(Frames)
  BY Zenon, <1>15, StackOps DEF Start, loopVars, vars, Frames, Call, Return, Top, Idle
<1>16. ASSUME NEW vmRunning \in BOOLEAN, Attach(vmRunning) PROVE stack' \in Seq(Frames)
  <2>1. stack' = <<"callW", "startW">> \/ stack' = <<>> BY Zenon, <1>16 DEF Attach
  <2>2. <<"callW", "startW">> \in Seq(Frames) /\ <<>> \in Seq(Frames) BY DEF Frames
  <2> QED BY Zenon, <2>1, <2>2
<1>17. ASSUME NEW c \in Clients, NEW b \in Bufs, NEW m \in MigData, NEW send \in 0..MaxSend,
             Restore(c, b, m.client, m.write, m.size, send)
      PROVE  stack' \in Seq(Frames)
  BY Zenon, <1>17, StackOps DEF Restore, loopVars, vars, Frames, Call, Return, Top, Idle
<1>18. ASSUME Wakeup PROVE stack' \in Seq(Frames)
  BY Zenon, <1>18, StackOps DEF Wakeup, loopVars, vars, Frames, Call, Return, Top, Idle
<1>19. CASE DeviceLoops
  BY Zenon, <1>19, <1>1, <1>2, <1>3, <1>4, <1>5, <1>6, <1>7, <1>8
     DEF DeviceLoops, ReadMessage, WritePop, WriteSome, WriteDone, WriteRetry, loopVars
<1>20. CASE ClientOps
  BY Zenon, <1>20, <1>1, <1>9, <1>10, <1>11, <1>12
     DEF ClientOps, TokensTimeout, WriteBufferGetClient, WriteBufferRelease, loopVars
<1>21. CASE DeviceOps
  BY Zenon, <1>21, <1>1, <1>13, <1>14, <1>15, <1>16, <1>17, <1>18
     DEF DeviceOps, Stop, Reset, DeviceProduces, loopVars
<1> QED BY Zenon, <1>1, <1>19, <1>20, <1>21 DEF Next, vars, loopVars

-----------------------------------------------------------------------------
(* Buffers and tokens *)

\* What write_queue holds after a buffer is appended, popped or the buffers of a removed
\* client are dropped.
LEMMA QueueOps ==
  ASSUME writeQueue \in Seq(Bufs), NEW S
  PROVE  /\ \A b \in Bufs : writeQueue' = Append(writeQueue, b) => Queued' = Queued \cup {b}
         /\ writeQueue # <<>> /\ writeQueue' = Tail(writeQueue)
              => Queued = Queued' \cup {Head(writeQueue)}
         /\ DropFromQueue(S) => Queued' = Queued \ S
         /\ Queued \in SUBSET Bufs
<1>1. ASSUME NEW b \in Bufs, writeQueue' = Append(writeQueue, b)
      PROVE  Queued' = Queued \cup {b}
  <2>1. DOMAIN writeQueue' = DOMAIN writeQueue \cup {Len(writeQueue) + 1} BY <1>1
  <2>2. \A i \in DOMAIN writeQueue : writeQueue'[i] = writeQueue[i] BY <1>1
  <2>3. writeQueue'[Len(writeQueue) + 1] = b BY <1>1
  <2> QED BY <2>1, <2>2, <2>3 DEF Queued
<1>2. ASSUME writeQueue # <<>>, writeQueue' = Tail(writeQueue)
      PROVE  Queued = Queued' \cup {Head(writeQueue)}
  <2>1. \A i \in DOMAIN writeQueue' : i + 1 \in DOMAIN writeQueue /\ writeQueue'[i] = writeQueue[i + 1]
    BY <1>2
  <2>2. \A i \in DOMAIN writeQueue : i = 1 \/ (i - 1 \in DOMAIN writeQueue' /\ writeQueue'[i - 1] = writeQueue[i])
    BY <1>2
  <2>3. 1 \in DOMAIN writeQueue /\ writeQueue[1] = Head(writeQueue) BY <1>2
  <2> QED BY <2>1, <2>2, <2>3 DEF Queued
<1>3. ASSUME DropFromQueue(S) PROVE Queued' = Queued \ S
  <2>0. PICK n \in 0..Len(writeQueue) : \E f \in [1..n -> DOMAIN writeQueue] :
          /\ {f[i] : i \in 1..n} = {i \in DOMAIN writeQueue : writeQueue[i] \notin S}
          /\ writeQueue' = [i \in 1..n |-> writeQueue[f[i]]]
    BY Zenon, <1>3 DEF DropFromQueue
  <2>1. PICK f \in [1..n -> DOMAIN writeQueue] :
          /\ {f[i] : i \in 1..n} = {i \in DOMAIN writeQueue : writeQueue[i] \notin S}
          /\ writeQueue' = [i \in 1..n |-> writeQueue[f[i]]]
    BY SMTT(40), <2>0
  <2>2. DOMAIN writeQueue' = 1..n /\ \A i \in 1..n : writeQueue'[i] = writeQueue[f[i]] BY Zenon, <2>1
  <2>3. \A x \in Queued' : x \in Queued /\ x \notin S
    <3>1. ASSUME NEW i \in 1..n PROVE writeQueue'[i] \in Queued /\ writeQueue'[i] \notin S
      <4>1. f[i] \in {j \in DOMAIN writeQueue : writeQueue[j] \notin S} BY Zenon, <2>1
      <4> QED BY Zenon, <4>1, <2>2 DEF Queued
    <3> QED BY Zenon, <3>1, <2>2 DEF Queued
  <2>4. ASSUME NEW x \in Queued, x \notin S PROVE x \in Queued'
    <3>1. PICK j \in DOMAIN writeQueue : writeQueue[j] = x BY Zenon DEF Queued
    <3>2. j \in {f[i] : i \in 1..n} BY Zenon, <2>1, <2>4, <3>1
    <3>3. PICK i \in 1..n : f[i] = j BY Zenon, <3>2
    <3> QED BY Zenon, <3>1, <3>3, <2>2 DEF Queued
  <2> QED BY Zenon, <2>3, <2>4
<1>4. Queued \in SUBSET Bufs BY DEF Queued
<1> QED BY Zenon, <1>1, <1>2, <1>3, <1>4

\* Every buffer stays where BufferPlaces says.
LEMMA BufferPlacesStep == ASSUME Inductive, [Next]_vars PROVE BufferPlaces'
<1>0. /\ BufType /\ BufferPlaces /\ clients \in SUBSET Clients /\ writeQueue \in Seq(Bufs)
      /\ None \notin Clients /\ Self \notin Clients /\ NoToken \notin Clients /\ Nil \notin Bufs
  BY Zenon, CharDeviceAssumption DEF Inductive, TypeOK, BufType, ClientType
<1> USE DEF BufferPlaces, Live
<1>1. CASE UNCHANGED moneyVars
  <2>1. Queued' = Queued BY Zenon, <1>1 DEF moneyVars, Queued
  <2> QED BY Zenon, <1>0, <1>1, <2>1 DEF moneyVars
<1>2. CASE WritePop
  <2>1. Queued = Queued' \cup {cur'} /\ cur = Nil /\ UNCHANGED <<held, owner, clients>>
    BY Zenon, <1>0, <1>2, QueueOps DEF WritePop, cliVars
  <2> QED BY Zenon, <1>0, <2>1
<1>3. CASE WriteDone
  <2>1. cur \in Bufs /\ cur' = Nil /\ UNCHANGED <<held, clients>>
    BY Zenon, <1>0, <1>3 DEF WriteDone, BufType
  <2>2. CASE UNCHANGED owner /\ writeQueue' = Append(writeQueue, cur)
    <3>1. Queued' = Queued \cup {cur} BY Zenon, <1>0, <2>1, <2>2, QueueOps
    <3> QED BY <1>0, <2>1, <2>2, <3>1 DEF BufType
  <2>3. CASE owner' = [owner EXCEPT ![cur] = None] /\ UNCHANGED writeQueue
    <3>1. Queued' = Queued BY Zenon, <2>3 DEF Queued
    <3> QED BY Zenon, <1>0, <2>1, <2>3, <3>1 DEF BufType
  <2> QED BY Zenon, <1>3, <2>2, <2>3 DEF WriteDone
<1>4. ASSUME NEW c \in Clients, NEW b \in Bufs, WriteBufferGetClient(c, b) PROVE BufferPlaces'
  <2>1. Queued' = Queued BY Zenon, <1>4 DEF WriteBufferGetClient, Queued
  <2>2. c \in clients /\ b \notin Live /\ UNCHANGED <<cur, clients>> BY Zenon, <1>4 DEF WriteBufferGetClient
  <2>3. CASE UNCHANGED <<held, owner>> BY Zenon, <1>0, <2>1, <2>2, <2>3
  <2>4. CASE held' = held \cup {b} /\ owner' = [owner EXCEPT ![b] = c]
    BY <1>0, <2>1, <2>2, <2>4 DEF BufType
  <2> QED BY Zenon, <1>4, <2>3, <2>4 DEF WriteBufferGetClient
<1>5. ASSUME NEW b \in Bufs, WriteBufferAdd(b) PROVE BufferPlaces'
  <2>1. Queued' = Queued \cup {b} /\ b \in held /\ held' = held \ {b}
        /\ UNCHANGED <<cur, owner, clients>>
    BY Zenon, <1>0, <1>5, QueueOps DEF WriteBufferAdd, cliVars
  <2> QED BY Zenon, <1>0, <2>1
<1>6. ASSUME NEW b \in Bufs, WriteBufferRelease(b) PROVE BufferPlaces'
  <2>1. Queued' = Queued BY Zenon, <1>6 DEF WriteBufferRelease, Queued
  <2>2. /\ b \in held /\ held' = held \ {b} /\ UNCHANGED <<cur, clients>>
        /\ owner' = [owner EXCEPT ![b] = None]
    BY Zenon, <1>6 DEF WriteBufferRelease
  <2> QED BY Zenon, <1>0, <2>1, <2>2 DEF BufType
<1>7. ASSUME NEW c \in Clients, NEW wait \in BOOLEAN, NEW send \in 0..MaxSend,
             ClientAdd(c, wait, send)
      PROVE  BufferPlaces'
  <2>1. Queued' = Queued BY Zenon, <1>7 DEF ClientAdd, Queued, bufVars
  <2>2. UNCHANGED <<held, cur, owner>> /\ clients' = clients \cup {c}
    BY Zenon, <1>7 DEF ClientAdd, bufVars
  <2> QED BY Zenon, <1>0, <2>1, <2>2
<1>8. ASSUME NEW c \in Clients, ClientRemove(c) PROVE BufferPlaces'
  <2>1. Queued' = Queued \ {b \in Bufs : owner[b] = c}
    BY Zenon, <1>0, <1>8, QueueOps DEF ClientRemove
  <2>2. /\ held' = {b \in held : owner[b] # c} /\ UNCHANGED cur /\ clients' = clients \ {c}
        /\ owner' = [b \in Bufs |-> IF owner[b] = c THEN None ELSE owner[b]]
    BY Zenon, <1>8 DEF ClientRemove
  <2>3. held \in SUBSET Bufs BY Zenon, <1>0 DEF BufType
  <2> QED BY Zenon, <1>0, <2>1, <2>2, <2>3
<1>9. ASSUME NEW b \in Bufs, NEW t \in BOOLEAN, ServerMessage(b, t) PROVE BufferPlaces'
  <2>1. b \notin Live /\ UNCHANGED <<cur, held, clients>> BY Zenon, <1>9 DEF ServerMessage, cliVars
  <2>2. CASE UNCHANGED <<owner, writeQueue>>
    <3>1. Queued' = Queued BY Zenon, <2>2 DEF Queued
    <3> QED BY Zenon, <1>0, <2>1, <2>2, <3>1
  <2>3. CASE /\ owner' = [owner EXCEPT ![b] = IF t THEN Self ELSE NoToken]
             /\ writeQueue' = Append(writeQueue, b)
    <3>1. Queued' = Queued \cup {b} BY Zenon, <1>0, <2>3, QueueOps
    <3> QED BY Zenon, <1>0, <2>1, <2>3, <3>1 DEF BufType
  <2> QED BY Zenon, <1>9, <2>2, <2>3 DEF ServerMessage
<1>10. CASE Reset
  <2>1. Queued' = {} BY <1>10 DEF Reset, Queued
  <2>2. /\ UNCHANGED <<held, clients>> /\ cur' = Nil
        /\ owner' = [b \in Bufs |-> IF b \in held THEN owner[b] ELSE None]
    BY Zenon, <1>10 DEF Reset
  <2> QED BY Zenon, <1>0, <2>1, <2>2 DEF BufType
<1>11. ASSUME NEW c \in Clients, NEW b \in Bufs, NEW m \in MigData, NEW send \in 0..MaxSend,
              Restore(c, b, m.client, m.write, m.size, send)
       PROVE  BufferPlaces'
  <2>1. Queued' = Queued BY Zenon, <1>11 DEF Restore, Queued
  <2>2. b \notin Live /\ clients = {c} /\ cur = Nil /\ UNCHANGED <<held, clients>> BY Zenon, <1>11 DEF Restore
  <2>3. CASE UNCHANGED <<cur, owner>> BY Zenon, <1>0, <2>1, <2>2, <2>3
  <2>4. CASE cur' = b /\ owner' = [owner EXCEPT ![b] = IF m.write > 0 THEN c ELSE Self]
    BY Zenon, <1>0, <2>1, <2>2, <2>4 DEF BufType
  <2> QED BY Zenon, <1>11, <2>3, <2>4 DEF Restore
<1> QED BY Zenon, <1>1, <1>2, <1>3, <1>4, <1>5, <1>6, <1>7, <1>8, <1>9, <1>10, <1>11, MoneyMoves

\* Facts about tokens that every step uses.
LEMMA TokenFacts ==
  ASSUME Inductive
  PROVE  /\ owner \in [Bufs -> Owners] /\ held \in SUBSET Bufs /\ cur \in Bufs \cup {Nil}
         /\ price \in Nat /\ selfTokens \in Nat /\ clients \in SUBSET Clients
         /\ tokens \in [Clients -> Nat] /\ free \in [Clients -> Nat]
         /\ BufferPlaces /\ Nil \notin Bufs /\ Interval \in Nat /\ Interval > 0
         /\ None \notin Clients /\ Self \notin Clients /\ NoToken \notin Clients
         /\ Self # None /\ Self # NoToken
         /\ \A x : Count(owner, Bufs, x) \in Nat
         /\ \A c \in clients : FlowControl[c] =>
              tokens[c] + free[c] + Count(owner, Bufs, c)
                + (IF cur \in Bufs /\ owner[cur] = c THEN price - 1 ELSE 0) = Window
         /\ selfTokens + Count(owner, Bufs, Self) = SelfTokens
<1>1. /\ owner \in [Bufs -> Owners] /\ held \in SUBSET Bufs /\ cur \in Bufs \cup {Nil}
      /\ price \in Nat /\ selfTokens \in Nat
  BY Zenon DEF Inductive, TypeOK, BufType, Owners
<1>2. clients \in SUBSET Clients /\ tokens \in [Clients -> Nat] /\ free \in [Clients -> Nat]
  BY Zenon DEF Inductive, TypeOK, ClientType
<1>3. BufferPlaces /\ SelfTokenConservation /\ TokenConservation BY Zenon DEF Inductive
<1>4. \A x : Count(owner, Bufs, x) \in Nat BY Zenon, ChargedType DEF Inductive, TypeOK
<1>5. \A c \in clients : FlowControl[c] =>
        tokens[c] + free[c] + Count(owner, Bufs, c)
          + (IF cur \in Bufs /\ owner[cur] = c THEN price - 1 ELSE 0) = Window
  <2> SUFFICES ASSUME NEW c \in clients, FlowControl[c]
               PROVE  tokens[c] + free[c] + Count(owner, Bufs, c)
                        + (IF cur \in Bufs /\ owner[cur] = c THEN price - 1 ELSE 0) = Window
    BY Zenon
  <2>1. tokens[c] + free[c] + Charged(Bufs, c) = Window BY Zenon, <1>3 DEF TokenConservation
  <2> QED BY <1>1, <1>2, <1>4, <2>1 DEF Charged
<1> QED BY <1>1, <1>2, <1>3, <1>4, <1>5, CharDeviceAssumption DEF SelfTokenConservation

\* The window of one client after a step, from what the step does to it.
LEMMA WindowStep ==
  ASSUME \A c \in clients' : FlowControl[c] =>
           tokens'[c] + free'[c] + Count(owner', Bufs, c)
             + (IF cur' \in Bufs /\ owner'[cur'] = c THEN price' - 1 ELSE 0) = Window,
         BufType', ClientType'
  PROVE  TokenConservation'
<1> SUFFICES ASSUME NEW c \in clients', FlowControl[c]
             PROVE  tokens'[c] + free'[c] + Charged(Bufs, c)' = Window
  BY Zenon DEF TokenConservation
<1>1. tokens'[c] \in Nat /\ free'[c] \in Nat /\ price' \in Nat BY Zenon DEF ClientType, BufType
<1>2. Count(owner', Bufs, c) \in Nat
  <2>1. IsFiniteSet({b \in Bufs : owner'[b] = c}) BY Zenon, FS_Subset, CharDeviceAssumption
  <2> QED BY Zenon, <2>1, FS_CardinalityType DEF Count
<1> QED BY <1>1, <1>2 DEF Charged

\* Every step conserves the tokens of every attached client.
LEMMA TokenStep == ASSUME Inductive, [Next]_vars PROVE TokenConservation'
<1>t. BufType' /\ ClientType' BY Zenon, BufTypeStep, ClientTypeStep DEF Inductive
<1> DEFINE Paid(c) == tokens[c] + free[c] + Count(owner, Bufs, c)
                        + (IF cur \in Bufs /\ owner[cur] = c THEN price - 1 ELSE 0)
<1> SUFFICES ASSUME NEW c \in clients', FlowControl[c] PROVE Paid(c)' = Window
  BY Zenon, <1>t, WindowStep
<1>0. c \in Clients BY Zenon, <1>t DEF ClientType
<1>f. c \in clients => tokens[c] + free[c] + Count(owner, Bufs, c)
             + (IF cur \in Bufs /\ owner[cur] = c THEN price - 1 ELSE 0) = Window
  BY Zenon, TokenFacts
<1>n. Count(owner, Bufs, c) \in Nat /\ tokens[c] \in Nat /\ free[c] \in Nat /\ price \in Nat
  BY Zenon, <1>0, TokenFacts
<1>o. owner \in [Bufs -> Owners] /\ Clients \subseteq Owners /\ None \in Owners /\ c # None
  BY Zenon, <1>0, TokenFacts DEF Owners
<1>1. CASE UNCHANGED moneyVars
  BY Zenon, <1>1, <1>f DEF moneyVars
<1>2. CASE WritePop
  <2>1. cur = Nil /\ price' = 1 /\ UNCHANGED <<owner, clients, tokens, free>>
    BY Zenon, <1>2 DEF WritePop, cliVars
  <2> QED BY <1>f, <1>n, <2>1, TokenFacts
<1>3. CASE WriteDone
  <2>1. cur \in Bufs /\ cur' = Nil /\ UNCHANGED clients /\ cur' \notin Bufs
    BY Zenon, <1>3, TokenFacts DEF WriteDone
  <2>2. CASE c = owner[cur]
    <3>1. owner' = [owner EXCEPT ![cur] = None] /\ TokensAdd(c, price)
      BY Zenon, <1>0, <1>3, <2>2 DEF WriteDone
    <3>2. Count(owner', Bufs, c) = Count(owner, Bufs, c) - 1
      BY ZenonT(40), <1>0, <2>1, <2>2, <3>1, <1>o, OwnerCount
    <3>3. tokens'[c] + free'[c] = tokens[c] + free[c] + price
      BY <1>0, <1>n, <3>1, TokenFacts DEF TokensAdd
    <3>4. tokens'[c] \in Nat /\ free'[c] \in Nat BY Zenon, <1>0, <1>t DEF ClientType
    <3> QED BY <1>f, <1>n, <2>1, <2>2, <3>2, <3>3, <3>4
  <2>3. CASE c # owner[cur]
    <3>1. tokens'[c] = tokens[c] /\ free'[c] = free[c]
      <4>1. CASE UNCHANGED <<tokens, free>> BY Zenon, <4>1
      <4>2. CASE TokensAdd(owner[cur], price) BY Zenon, <2>3, <4>2, <1>0, TokenFacts DEF TokensAdd
      <4> QED BY Zenon, <1>3, <4>1, <4>2 DEF WriteDone
    <3>2. owner' = owner \/ owner' = [owner EXCEPT ![cur] = None] BY Zenon, <1>3 DEF WriteDone
    <3>3. Count(owner', Bufs, c) = Count(owner, Bufs, c)
      <4>1. c # None BY Zenon, <1>0, TokenFacts
      <4>2. ASSUME owner' = [owner EXCEPT ![cur] = None]
            PROVE  Count(owner', Bufs, c) = Count(owner, Bufs, c)
        BY ZenonT(40), <4>2, <2>1, <2>3, <4>1, <1>o, OwnerCount
      <4> QED BY Zenon, <3>2, <4>2
    <3> QED BY Zenon, <1>f, <1>n, <2>1, <2>3, <3>1, <3>3
  <2> QED BY Zenon, <2>2, <2>3
<1>4. ASSUME NEW d \in Clients, NEW b \in Bufs, WriteBufferGetClient(d, b)
      PROVE  Paid(c)' = Window
  <2>1. b \notin Live /\ UNCHANGED <<cur, price, clients, free>> BY Zenon, <1>4 DEF WriteBufferGetClient
  <2>2. owner[b] = None /\ b # cur BY Zenon, <2>1, TokenFacts DEF BufferPlaces, Live
  <2>3. CASE UNCHANGED <<owner, tokens>> BY Zenon, <1>f, <2>1, <2>3
  <2>4. CASE /\ owner' = [owner EXCEPT ![b] = d] /\ ~OutOfTokens(d)
             /\ tokens' = IF FlowControl[d] THEN [tokens EXCEPT ![d] = @ - 1] ELSE tokens
    <3>1. cur \in Bufs => owner'[cur] = owner[cur] BY Zenon, <2>2, <2>4, TokenFacts
    <3>2. CASE d = c
      <4>1. Count(owner', Bufs, c) = Count(owner, Bufs, c) + 1
        BY Zenon, <1>0, <2>2, <2>4, <3>2, <1>o, OwnerCount
      <4>2. tokens'[c] = tokens[c] - 1 BY Zenon, <1>0, <2>4, <3>2, TokenFacts
      <4> QED BY <1>f, <1>n, <2>1, <3>1, <4>1, <4>2
    <3>3. CASE d # c
      <4>1. Count(owner', Bufs, c) = Count(owner, Bufs, c)
        BY Zenon, <1>0, <2>2, <2>4, <3>3, <1>o, OwnerCount
      <4>2. tokens'[c] = tokens[c] BY Zenon, <1>0, <2>4, <3>3, TokenFacts
      <4> QED BY Zenon, <1>f, <1>n, <2>1, <3>1, <4>1, <4>2
    <3> QED BY Zenon, <3>2, <3>3
  <2> QED BY Zenon, <1>4, <2>3, <2>4 DEF WriteBufferGetClient
<1>5. ASSUME NEW b \in Bufs, WriteBufferAdd(b) PROVE Paid(c)' = Window
  BY Zenon, <1>5, <1>f DEF WriteBufferAdd, cliVars
<1>6. ASSUME NEW b \in Bufs, WriteBufferRelease(b) PROVE Paid(c)' = Window
  <2>1. /\ b \in held /\ owner' = [owner EXCEPT ![b] = None] /\ UNCHANGED <<cur, price, clients>>
    BY Zenon, <1>6 DEF WriteBufferRelease
  <2>2. owner[b] \in clients /\ b # cur BY Zenon, <2>1, TokenFacts DEF BufferPlaces
  <2>3. cur \in Bufs => owner'[cur] = owner[cur] BY Zenon, <2>1, <2>2, TokenFacts
  <2>4. CASE owner[b] = c
    <3>1. Count(owner', Bufs, c) = Count(owner, Bufs, c) - 1
      BY Zenon, <1>0, <2>1, <2>4, <1>o, OwnerCount
    <3>2. TokensAdd(c, 1) BY Zenon, <1>6, <2>4 DEF WriteBufferRelease
    <3>3. tokens'[c] + free'[c] = tokens[c] + free[c] + 1
      BY <1>0, <1>n, <3>2, TokenFacts DEF TokensAdd
    <3>4. tokens'[c] \in Nat /\ free'[c] \in Nat BY Zenon, <1>0, <1>t DEF ClientType
    <3> QED BY <1>f, <1>n, <2>1, <2>3, <3>1, <3>3, <3>4
  <2>5. CASE owner[b] # c
    <3>1. Count(owner', Bufs, c) = Count(owner, Bufs, c)
      BY Zenon, <1>0, <2>1, <2>5, <1>o, OwnerCount
    <3>2. tokens'[c] = tokens[c] /\ free'[c] = free[c]
      <4>1. CASE UNCHANGED <<tokens, free>> BY Zenon, <4>1
      <4>2. CASE TokensAdd(owner[b], 1) BY Zenon, <1>0, <2>5, <4>2, TokenFacts DEF TokensAdd
      <4> QED BY Zenon, <1>6, <4>1, <4>2 DEF WriteBufferRelease
    <3> QED BY Zenon, <1>f, <1>n, <2>1, <2>3, <3>1, <3>2
  <2> QED BY Zenon, <2>4, <2>5
<1>7. ASSUME NEW d \in Clients, NEW wait \in BOOLEAN, NEW send \in 0..MaxSend,
             ClientAdd(d, wait, send)
      PROVE  Paid(c)' = Window
  <2>1. /\ UNCHANGED <<owner, cur, price>> /\ d \notin clients /\ clients' = clients \cup {d}
        /\ tokens' = [tokens EXCEPT ![d] = Window] /\ free' = [free EXCEPT ![d] = 0]
    BY Zenon, <1>7 DEF ClientAdd, bufVars
  <2>2. CASE c = d
    <3>1. {b \in Bufs : owner[b] = c} = {} BY <2>1, <2>2, TokenFacts DEF BufferPlaces
    <3>2. Count(owner, Bufs, c) = 0 BY Zenon, <3>1, FS_EmptySet DEF Count
    <3>3. ~(cur \in Bufs /\ owner[cur] = c) BY Zenon, <3>1
    <3>4. tokens'[c] = Window /\ free'[c] = 0 BY Zenon, <1>0, <2>1, <2>2, TokenFacts
    <3> QED BY <2>1, <3>2, <3>3, <3>4, CharDeviceAssumption
  <2>3. CASE c # d
    <3>1. tokens'[c] = tokens[c] /\ free'[c] = free[c] /\ c \in clients
      BY Zenon, <1>0, <2>1, <2>3, TokenFacts
    <3> QED BY Zenon, <1>f, <2>1, <3>1
  <2> QED BY Zenon, <2>2, <2>3
<1>8. ASSUME NEW d \in Clients, ClientRemove(d) PROVE Paid(c)' = Window
  <2>1. /\ UNCHANGED <<cur, price>> /\ clients' = clients \ {d}
        /\ owner' = [b \in Bufs |-> IF owner[b] = d THEN None ELSE owner[b]]
        /\ tokens' = [tokens EXCEPT ![d] = 0] /\ free' = [free EXCEPT ![d] = 0]
    BY Zenon, <1>8 DEF ClientRemove
  <2>2. c # d /\ c \in clients BY Zenon, <2>1
  <2>3. {b \in Bufs : owner'[b] = c} = {b \in Bufs : owner[b] = c} BY Zenon, <1>o, <2>1, <2>2
  <2>4. Count(owner', Bufs, c) = Count(owner, Bufs, c) BY Zenon, <2>3 DEF Count
  <2>5. cur \in Bufs => (owner'[cur] = c <=> owner[cur] = c) BY Zenon, <1>o, <2>1, <2>2
  <2>6. tokens'[c] = tokens[c] /\ free'[c] = free[c] BY Zenon, <1>0, <2>1, <2>2, TokenFacts
  <2> QED BY Zenon, <1>f, <2>1, <2>2, <2>4, <2>5, <2>6
<1>9. ASSUME NEW b \in Bufs, NEW t \in BOOLEAN, ServerMessage(b, t) PROVE Paid(c)' = Window
  <2>1. b \notin Live /\ UNCHANGED <<cur, price, clients, tokens, free>>
    BY Zenon, <1>9 DEF ServerMessage, cliVars
  <2>2. CASE UNCHANGED owner BY Zenon, <1>f, <2>1, <2>2
  <2>3. CASE owner' = [owner EXCEPT ![b] = IF t THEN Self ELSE NoToken]
    <3> DEFINE v == IF t THEN Self ELSE NoToken
    <3>1. v \in Owners /\ v # c BY Zenon, <1>0, TokenFacts DEF Owners
    <3>2. owner[b] = None /\ b # cur BY Zenon, <2>1, TokenFacts DEF BufferPlaces, Live
    <3>3. owner' = [owner EXCEPT ![b] = v] BY Zenon, <2>3
    <3>4. owner[b] # c BY Zenon, <3>2, <1>o
    <3> HIDE DEF v
    <3>5. Count(owner', Bufs, c) = Count(owner, Bufs, c) BY Zenon, <1>o, <3>1, <3>3, <3>4, OwnerCount
    <3>6. cur \in Bufs => owner'[cur] = owner[cur] BY Zenon, <1>o, <3>2, <3>3
    <3> QED BY Zenon, <1>f, <2>1, <3>5, <3>6
  <2> QED BY Zenon, <1>9, <2>2, <2>3 DEF ServerMessage
<1>10. CASE Reset
  <2>1. /\ UNCHANGED <<held, clients>> /\ cur' = Nil
        /\ owner' = [b \in Bufs |-> IF b \in held THEN owner[b] ELSE None]
    BY Zenon, <1>10 DEF Reset
  <2>2. tokens'[c] = tokens[c] + free[c] + Charged(Bufs \ held, c) /\ free'[c] = 0
    BY Zenon, <1>0, <1>10, <2>1 DEF Reset
  <2>3. held \in SUBSET Bufs /\ cur \notin held BY Zenon, TokenFacts DEF BufferPlaces
  <2>4. /\ Count(owner, Bufs, c) = Count(owner, held, c) + Count(owner, Bufs \ held, c)
        /\ Count(owner, held, c) \in Nat /\ Count(owner, Bufs \ held, c) \in Nat
    BY Zenon, <1>o, <2>3, OwnerSplit
  <2>5. {b \in Bufs : owner'[b] = c} = {b \in held : owner[b] = c} BY Zenon, <1>o, <2>1, <2>3
  <2>6. Count(owner', Bufs, c) = Count(owner, held, c) BY Zenon, <2>5 DEF Count
  <2>7. cur \in Bufs /\ owner[cur] = c <=> cur \in Bufs \ held /\ owner[cur] = c BY Zenon, <2>3
  <2>8. Charged(Bufs \ held, c) = Count(owner, Bufs \ held, c)
          + (IF cur \in Bufs /\ owner[cur] = c THEN price - 1 ELSE 0)
    BY Zenon, <2>7 DEF Charged
  <2>9. cur' \notin Bufs BY Zenon, <2>1, TokenFacts
  <2> QED BY <1>f, <1>n, <2>1, <2>2, <2>4, <2>6, <2>8, <2>9
<1>11. ASSUME NEW d \in Clients, NEW b \in Bufs, NEW m \in MigData, NEW send \in 0..MaxSend,
              Restore(d, b, m.client, m.write, m.size, send)
       PROVE  Paid(c)' = Window
  <2>1. /\ waitMig /\ clients = {d} /\ cur = Nil /\ b \notin Live /\ clients' = clients
        /\ tokens' = [tokens EXCEPT ![d] = m.client]
        /\ free' = [free EXCEPT ![d] = tokens[d] - m.client - m.write]
    BY Zenon, <1>11 DEF Restore
  <2>2. c = d BY Zenon, <2>1
  <2>3. tokens[c] = Window BY Zenon, <2>1 DEF Inductive, MigrationWait
  <2>4. /\ m.client \in Nat /\ m.write \in Nat /\ m.size \in Nat /\ Window \in Nat
        /\ m.size = 0 => m.write = 0
    BY CharDeviceAssumption DEF MigData
  <2>5. cur \notin Bufs /\ owner[b] = None
    BY Zenon, <2>1, TokenFacts DEF BufferPlaces, Live
  <2>a. free[c] \in Nat /\ Count(owner, Bufs, c) \in Nat BY Zenon, <1>n
  <2>b. tokens[c] + free[c] + Count(owner, Bufs, c) = Window BY <1>f, <1>n, <2>1, <2>3, <2>4, <2>5
  <2>6. Count(owner, Bufs, c) = 0 /\ free[c] = 0 BY <2>3, <2>4, <2>a, <2>b
  <2>7. tokens'[c] = m.client /\ free'[c] = Window - m.client - m.write
    BY Zenon, <1>0, <2>1, <2>2, <2>3, TokenFacts
  <2>8. CASE m.size > 0
    <3>1. /\ cur' = b /\ price' = (IF m.write > 0 THEN m.write ELSE 1)
          /\ owner' = [owner EXCEPT ![b] = IF m.write > 0 THEN d ELSE Self]
      BY Zenon, <1>11, <2>8 DEF Restore
    <3>2. owner[b] # c /\ Self # c /\ Self \in Owners BY Zenon, <1>0, <1>o, <2>5, TokenFacts DEF Owners
    <3>3. CASE m.write > 0
      <4>1. owner' = [owner EXCEPT ![b] = c] /\ price' = m.write BY Zenon, <2>2, <3>1, <3>3
      <4>2. Count(owner', Bufs, c) = Count(owner, Bufs, c) + 1
        BY Zenon, <1>0, <1>o, <3>2, <4>1, OwnerCount
      <4>3. owner'[cur'] = c /\ cur' \in Bufs BY Zenon, <1>o, <3>1, <4>1
      <4> QED BY <2>4, <2>6, <2>7, <4>1, <4>2, <4>3
    <3>4. CASE ~(m.write > 0)
      <4>1. owner' = [owner EXCEPT ![b] = Self] BY Zenon, <3>1, <3>4
      <4>2. Count(owner', Bufs, c) = Count(owner, Bufs, c) BY Zenon, <1>o, <3>2, <4>1, OwnerCount
      <4>3. owner'[cur'] # c BY Zenon, <1>o, <3>1, <3>2, <4>1
      <4> QED BY <2>4, <2>6, <2>7, <3>4, <4>2, <4>3
    <3> QED BY Zenon, <3>3, <3>4
  <2>9. CASE ~(m.size > 0)
    <3>1. UNCHANGED <<cur, owner, price>> BY Zenon, <1>11, <2>9 DEF Restore
    <3> QED BY <2>4, <2>5, <2>6, <2>7, <2>9, <3>1
  <2> QED BY Zenon, <2>8, <2>9
<1> HIDE DEF Paid
<1> QED BY <1>1, <1>2, <1>3, <1>4, <1>5, <1>6, <1>7, <1>8, <1>9, <1>10, <1>11, MoneyMoves

\* Every step conserves the device's own tokens.
LEMMA SelfTokenStep == ASSUME Inductive, [Next]_vars PROVE SelfTokenConservation'
<1> USE DEF SelfTokenConservation
<1>f. selfTokens + Count(owner, Bufs, Self) = SelfTokens BY Zenon, TokenFacts
<1>n. Count(owner, Bufs, Self) \in Nat /\ selfTokens \in Nat BY Zenon, TokenFacts
<1>o. /\ owner \in [Bufs -> Owners] /\ Clients \subseteq Owners /\ None \in Owners
      /\ Self \in Owners /\ NoToken \in Owners
      /\ Self # None /\ Self # NoToken /\ Self \notin Clients
  BY Zenon, TokenFacts DEF Owners
<1>1. CASE UNCHANGED moneyVars
  BY Zenon, <1>1, <1>f DEF moneyVars
<1>2. CASE WritePop
  BY Zenon, <1>2, <1>f DEF WritePop
<1>3. CASE WriteDone
  <2>1. cur \in Bufs BY Zenon, <1>3, TokenFacts DEF WriteDone
  <2>2. CASE UNCHANGED <<owner, selfTokens>> BY Zenon, <1>f, <2>2
  <2>3. CASE owner' = [owner EXCEPT ![cur] = None] /\ owner[cur] = Self /\ selfTokens' = selfTokens + 1
    <3>1. Count(owner', Bufs, Self) = Count(owner, Bufs, Self) - 1
      BY ZenonT(40), <1>o, <2>1, <2>3, OwnerCount
    <3> QED BY <1>f, <1>n, <2>3, <3>1
  <2>4. CASE owner' = [owner EXCEPT ![cur] = None] /\ owner[cur] # Self /\ selfTokens' = selfTokens
    <3>1. Count(owner', Bufs, Self) = Count(owner, Bufs, Self)
      BY Zenon, <1>o, <2>1, <2>4, OwnerCount
    <3> QED BY Zenon, <1>f, <1>n, <2>4, <3>1
  <2>5. \/ UNCHANGED <<owner, selfTokens>>
        \/ /\ owner' = [owner EXCEPT ![cur] = None]
           /\ \/ owner[cur] = Self /\ selfTokens' = selfTokens + 1
              \/ owner[cur] # Self /\ selfTokens' = selfTokens
    <3>1. CASE owner[cur] \in Clients BY Zenon, <1>3, <1>o, <3>1 DEF WriteDone
    <3>2. CASE owner[cur] \notin Clients BY Zenon, <1>3, <3>2 DEF WriteDone
    <3> QED BY Zenon, <3>1, <3>2
  <2> QED BY Zenon, <2>2, <2>3, <2>4, <2>5
<1>4. ASSUME NEW c \in Clients, NEW b \in Bufs, WriteBufferGetClient(c, b)
      PROVE  SelfTokenConservation'
  <2>1. b \notin Live /\ UNCHANGED selfTokens BY Zenon, <1>4 DEF WriteBufferGetClient
  <2>2. owner[b] = None BY Zenon, <2>1, TokenFacts DEF BufferPlaces, Live
  <2>3. CASE UNCHANGED owner BY Zenon, <1>f, <2>1, <2>3
  <2>4. CASE owner' = [owner EXCEPT ![b] = c]
    <3>1. Count(owner', Bufs, Self) = Count(owner, Bufs, Self)
      BY Zenon, <1>o, <2>2, <2>4, OwnerCount
    <3> QED BY Zenon, <1>f, <2>1, <3>1
  <2> QED BY Zenon, <1>4, <2>3, <2>4 DEF WriteBufferGetClient
<1>5. ASSUME NEW b \in Bufs, WriteBufferAdd(b) PROVE SelfTokenConservation'
  BY Zenon, <1>5, <1>f DEF WriteBufferAdd
<1>6. ASSUME NEW b \in Bufs, WriteBufferRelease(b) PROVE SelfTokenConservation'
  <2>1. b \in held /\ owner' = [owner EXCEPT ![b] = None] /\ UNCHANGED selfTokens
    BY Zenon, <1>6 DEF WriteBufferRelease
  <2>2. owner[b] # Self BY Zenon, <1>o, <2>1, TokenFacts DEF BufferPlaces
  <2>3. Count(owner', Bufs, Self) = Count(owner, Bufs, Self) BY Zenon, <1>o, <2>1, <2>2, OwnerCount
  <2> QED BY Zenon, <1>f, <2>1, <2>3
<1>7. ASSUME NEW c \in Clients, NEW wait \in BOOLEAN, NEW send \in 0..MaxSend,
             ClientAdd(c, wait, send)
      PROVE  SelfTokenConservation'
  BY Zenon, <1>7, <1>f DEF ClientAdd, bufVars
<1>8. ASSUME NEW c \in Clients, ClientRemove(c) PROVE SelfTokenConservation'
  <2>1. /\ UNCHANGED selfTokens
        /\ owner' = [b \in Bufs |-> IF owner[b] = c THEN None ELSE owner[b]]
    BY Zenon, <1>8 DEF ClientRemove
  <2>2. {b \in Bufs : owner'[b] = Self} = {b \in Bufs : owner[b] = Self} BY Zenon, <1>o, <2>1
  <2>3. Count(owner', Bufs, Self) = Count(owner, Bufs, Self) BY Zenon, <2>2 DEF Count
  <2> QED BY Zenon, <1>f, <2>1, <2>3
<1>9. ASSUME NEW b \in Bufs, NEW t \in BOOLEAN, ServerMessage(b, t) PROVE SelfTokenConservation'
  <2>1. b \notin Live BY Zenon, <1>9 DEF ServerMessage
  <2>2. owner[b] = None BY Zenon, <2>1, TokenFacts DEF BufferPlaces, Live
  <2>3. CASE t /\ selfTokens = 0
    <3>1. UNCHANGED <<owner, selfTokens>> BY Zenon, <1>9, <2>3 DEF ServerMessage
    <3> QED BY Zenon, <1>f, <3>1
  <2>4. CASE t /\ selfTokens # 0
    <3>1. owner' = [owner EXCEPT ![b] = Self] /\ selfTokens' = selfTokens - 1
      BY Zenon, <1>9, <2>4 DEF ServerMessage
    <3>2. Count(owner', Bufs, Self) = Count(owner, Bufs, Self) + 1
      BY Zenon, <1>o, <2>2, <3>1, OwnerCount
    <3> QED BY <1>f, <1>n, <3>1, <3>2
  <2>5. CASE ~t
    <3>1. owner' = [owner EXCEPT ![b] = NoToken] /\ selfTokens' = selfTokens
      BY Zenon, <1>9, <2>5 DEF ServerMessage
    <3>2. Count(owner', Bufs, Self) = Count(owner, Bufs, Self)
      BY ZenonT(40), <1>o, <2>2, <3>1, OwnerCount
    <3> QED BY Zenon, <1>f, <3>1, <3>2
  <2> QED BY Zenon, <2>3, <2>4, <2>5
<1>10. CASE Reset
  <2>1. /\ selfTokens' = selfTokens + Count(owner, Bufs \ held, Self)
        /\ owner' = [b \in Bufs |-> IF b \in held THEN owner[b] ELSE None]
    BY Zenon, <1>10 DEF Reset, SelfTokensFreed
  <2>2. held \in SUBSET Bufs BY Zenon, TokenFacts
  <2>3. /\ Count(owner, Bufs, Self) = Count(owner, held, Self) + Count(owner, Bufs \ held, Self)
        /\ Count(owner, held, Self) \in Nat /\ Count(owner, Bufs \ held, Self) \in Nat
    BY Zenon, <1>o, <2>2, OwnerSplit
  <2>4. {b \in Bufs : owner'[b] = Self} = {b \in held : owner[b] = Self} BY Zenon, <1>o, <2>1, <2>2
  <2>5. Count(owner', Bufs, Self) = Count(owner, held, Self) BY Zenon, <2>4 DEF Count
  <2> QED BY <1>f, <1>n, <2>1, <2>3, <2>5
<1>11. ASSUME NEW c \in Clients, NEW b \in Bufs, NEW m \in MigData, NEW send \in 0..MaxSend,
              Restore(c, b, m.client, m.write, m.size, send)
       PROVE  SelfTokenConservation'
  <2>1. b \notin Live /\ cur = Nil BY Zenon, <1>11 DEF Restore
  <2>2. owner[b] = None BY Zenon, <2>1, TokenFacts DEF BufferPlaces, Live
  <2>3. m.write \in Nat /\ m.size \in Nat BY CharDeviceAssumption DEF MigData
  <2>4. CASE m.size > 0 /\ m.write > 0
    <3>1. owner' = [owner EXCEPT ![b] = c] /\ selfTokens' = selfTokens
      BY Zenon, <1>11, <2>4 DEF Restore
    <3>2. Count(owner', Bufs, Self) = Count(owner, Bufs, Self)
      BY ZenonT(40), <1>o, <2>2, <3>1, OwnerCount
    <3> QED BY Zenon, <1>f, <3>1, <3>2
  <2>5. CASE m.size > 0 /\ ~(m.write > 0)
    <3>1. owner' = [owner EXCEPT ![b] = Self] /\ selfTokens' = selfTokens - 1
      BY Zenon, <1>11, <2>5 DEF Restore
    <3>2. Count(owner', Bufs, Self) = Count(owner, Bufs, Self) + 1
      BY Zenon, <1>o, <2>2, <3>1, OwnerCount
    <3> QED BY <1>f, <1>n, <3>1, <3>2
  <2>6. CASE ~(m.size > 0)
    <3>1. UNCHANGED <<owner, selfTokens>> BY Zenon, <1>11, <2>6 DEF Restore
    <3> QED BY Zenon, <1>f, <3>1
  <2> QED BY Zenon, <2>4, <2>5, <2>6
<1> HIDE DEF SelfTokenConservation
<1> QED BY Zenon, <1>1, <1>2, <1>3, <1>4, <1>5, <1>6, <1>7, <1>8, <1>9, <1>10, <1>11, MoneyMoves

-----------------------------------------------------------------------------
(* Queued messages and migration *)

\* Freed tokens stay below the interval at which they are given back.
LEMMA FreeStep == ASSUME Inductive, [Next]_vars PROVE FreeBelowInterval'
<1>t. clients' \in SUBSET Clients BY Zenon, ClientTypeStep DEF ClientType
<1> SUFFICES ASSUME NEW c \in clients', FlowControl[c] PROVE free'[c] < Interval
  BY Zenon DEF FreeBelowInterval
<1>0. /\ c \in Clients /\ (c \in clients => free[c] < Interval)
      /\ free \in [Clients -> Nat] /\ Interval \in Nat /\ Interval > 0
  BY Zenon, <1>t, TokenFacts DEF Inductive, FreeBelowInterval
<1>p. price \in Nat BY Zenon, TokenFacts
<1>a. ASSUME NEW d \in Clients, NEW p \in Nat, TokensAdd(d, p), c \in clients PROVE free'[c] < Interval
  BY <1>0, <1>a DEF TokensAdd
<1>1. CASE UNCHANGED moneyVars BY Zenon, <1>0, <1>1 DEF moneyVars
<1>2. CASE WritePop BY Zenon, <1>0, <1>2 DEF WritePop, cliVars
<1>3. CASE WriteDone
  <2>1. c \in clients BY Zenon, <1>3 DEF WriteDone
  <2>2. UNCHANGED free \/ (owner[cur] \in Clients /\ TokensAdd(owner[cur], price))
    <3>1. CASE owner[cur] \in Clients BY Zenon, <1>3, <3>1 DEF WriteDone
    <3>2. CASE owner[cur] \notin Clients BY Zenon, <1>3, <3>2 DEF WriteDone
    <3> QED BY Zenon, <3>1, <3>2
  <2> QED BY Zenon, <1>0, <1>p, <1>a, <2>1, <2>2
<1>4. ASSUME NEW d \in Clients, NEW b \in Bufs, WriteBufferGetClient(d, b) PROVE free'[c] < Interval
  BY Zenon, <1>0, <1>4 DEF WriteBufferGetClient
<1>5. ASSUME NEW b \in Bufs, WriteBufferAdd(b) PROVE free'[c] < Interval
  BY Zenon, <1>0, <1>5 DEF WriteBufferAdd, cliVars
<1>6. ASSUME NEW b \in Bufs, WriteBufferRelease(b) PROVE free'[c] < Interval
  <2>1. b \in held /\ c \in clients BY Zenon, <1>6 DEF WriteBufferRelease
  <2>2. owner[b] \in Clients BY Zenon, <2>1, TokenFacts DEF BufferPlaces
  <2>3. UNCHANGED free \/ TokensAdd(owner[b], 1) BY Zenon, <1>6 DEF WriteBufferRelease
  <2> QED BY Zenon, <1>0, <1>a, <2>1, <2>2, <2>3
<1>7. ASSUME NEW d \in Clients, NEW wait \in BOOLEAN, NEW send \in 0..MaxSend,
             ClientAdd(d, wait, send)
      PROVE  free'[c] < Interval
  <2>1. clients' = clients \cup {d} /\ free' = [free EXCEPT ![d] = 0] BY Zenon, <1>7 DEF ClientAdd
  <2> QED BY Zenon, <1>0, <2>1
<1>8. ASSUME NEW d \in Clients, ClientRemove(d) PROVE free'[c] < Interval
  <2>1. clients' = clients \ {d} /\ free' = [free EXCEPT ![d] = 0] BY Zenon, <1>8 DEF ClientRemove
  <2> QED BY Zenon, <1>0, <2>1
<1>9. ASSUME NEW b \in Bufs, NEW t \in BOOLEAN, ServerMessage(b, t) PROVE free'[c] < Interval
  BY Zenon, <1>0, <1>9 DEF ServerMessage, cliVars
<1>10. CASE Reset
  <2>1. c \in clients BY Zenon, <1>10 DEF Reset
  <2>2. free'[c] = 0 BY Zenon, <1>0, <1>10, <2>1 DEF Reset
  <2> QED BY Zenon, <1>0, <2>2
<1>11. ASSUME NEW d \in Clients, NEW b \in Bufs, NEW m \in MigData, NEW send \in 0..MaxSend,
              Restore(d, b, m.client, m.write, m.size, send)
       PROVE  free'[c] < Interval
  <2>1. /\ waitMig /\ clients = {d} /\ clients' = clients
        /\ free' = [free EXCEPT ![d] = tokens[d] - m.client - m.write]
    BY Zenon, <1>11 DEF Restore
  <2>2. c = d /\ tokens[d] = Window BY Zenon, <2>1 DEF Inductive, MigrationWait
  <2>3. Window - m.client - m.write < Interval BY Zenon DEF MigData
  <2>4. free'[c] = Window - m.client - m.write BY Zenon, <1>0, <2>1, <2>2
  <2> QED BY Zenon, <2>3, <2>4
<1> QED BY <1>1, <1>2, <1>3, <1>4, <1>5, <1>6, <1>7, <1>8, <1>9, <1>10, <1>11, MoneyMoves

\* Messages are queued for a client only while it has no token, guarded by the timer.
LEMMA SendQueueStep ==
  ASSUME Inductive, [Next]_vars
  PROVE  SendQueueOnlyWithoutTokens' /\ SendQueueGuarded'
<1> DEFINE Fine(c) == /\ sendQueue[c] > 0 => FlowControl[c] /\ sendTokens[c] = 0
                      /\ sendQueue[c] =< MaxSendQueue
                      /\ sendQueue[c] > 0 => waitTokens[c]
<1>t. clients' \in SUBSET Clients BY Zenon, ClientTypeStep DEF ClientType
<1> SUFFICES ASSUME NEW c \in clients' PROVE Fine(c)'
  BY Zenon DEF SendQueueOnlyWithoutTokens, SendQueueGuarded
<1>0. /\ c \in Clients /\ (c \in clients => Fine(c))
      /\ clients \in SUBSET Clients /\ sendTokens \in [Clients -> Nat]
      /\ sendQueue \in [Clients -> Nat] /\ waitTokens \in [Clients -> BOOLEAN]
      /\ MaxSendQueue \in Nat
  BY Zenon, <1>t, CharDeviceAssumption
     DEF Inductive, TypeOK, ClientType, SendQueueOnlyWithoutTokens, SendQueueGuarded
<1>1. CASE UNCHANGED messageVars BY Zenon, <1>0, <1>1 DEF messageVars
<1>2. CASE ReadMessage
  <2> DEFINE sent == {d \in clients : CanSendToClient(d)}
             over == {d \in clients \ sent : QueueFull(d)}
             push == clients \ (sent \cup over)
  <2>1. /\ c \in clients
        /\ sendTokens'[c] = (IF c \in sent /\ FlowControl[c] THEN sendTokens[c] - 1
                                                             ELSE sendTokens[c])
        /\ sendQueue'[c] = (IF c \in push THEN sendQueue[c] + 1 ELSE sendQueue[c])
    BY Zenon, <1>0, <1>2 DEF ReadMessage
  <2>2. waitTokens'[c] = (waitTokens[c] \/ c \in push) BY Zenon, <1>0, <1>2 DEF ReadMessage
  <2>3. CASE c \in push
    <3>1. ~CanSendToClient(c) /\ ~QueueFull(c) BY Zenon, <2>3
    <3>2. FlowControl[c] /\ sendTokens[c] = 0 /\ sendQueue[c] < MaxSendQueue
      BY <1>0, <3>1 DEF CanSendToClient, QueueFull
    <3>3. sendQueue'[c] = sendQueue[c] + 1 /\ sendTokens'[c] = sendTokens[c] BY Zenon, <2>1, <2>3
    <3>4. waitTokens'[c] BY Zenon, <2>2, <2>3
    <3>5. FlowControl[c] /\ sendTokens'[c] = 0 BY Zenon, <3>2, <3>3
    <3>6. sendQueue'[c] =< MaxSendQueue BY <1>0, <3>2, <3>3
    <3> QED BY Zenon, <3>4, <3>5, <3>6
  <2>4. CASE c \notin push
    <3>1. sendQueue'[c] = sendQueue[c] BY Zenon, <2>1, <2>4
    <3>2. ASSUME sendQueue[c] > 0 PROVE sendTokens'[c] = 0 /\ waitTokens'[c]
      <4>1. FlowControl[c] /\ sendTokens[c] = 0 /\ waitTokens[c] BY Zenon, <1>0, <2>1, <3>2
      <4>2. c \notin sent BY <4>1 DEF CanSendToClient
      <4>3. sendTokens'[c] = sendTokens[c] BY Zenon, <2>1, <4>2
      <4>4. waitTokens'[c] BY Zenon, <2>2, <4>1
      <4> QED BY Zenon, <4>1, <4>3, <4>4
    <3> QED BY Zenon, <1>0, <2>1, <3>1, <3>2
  <2> QED BY Zenon, <2>3, <2>4
<1>3. ASSUME NEW d \in Clients, NEW n \in 1..MaxSend, NEW r \in BOOLEAN, TokensAbsorb(d, n, r)
      PROVE  Fine(c)'
  <2> DEFINE base == (IF r THEN 0 ELSE sendTokens[d]) + n
             k == SendQueuePush(d, base)
  <2>1. /\ c \in clients /\ FlowControl[d]
        /\ sendTokens' = [sendTokens EXCEPT ![d] = base - k]
        /\ sendQueue' = [sendQueue EXCEPT ![d] = @ - k]
    BY Zenon, <1>3 DEF TokensAbsorb
  <2>2. waitTokens' = [waitTokens EXCEPT ![d] = IF base > k THEN FALSE
                                                ELSE IF sendQueue[d] > k THEN TRUE ELSE @]
    BY Zenon, <1>3 DEF TokensAbsorb
  <2>3. CASE c # d
    <3>1. sendTokens'[c] = sendTokens[c] /\ sendQueue'[c] = sendQueue[c]
      BY Zenon, <1>0, <2>1, <2>3
    <3>2. waitTokens'[c] = waitTokens[c] BY Zenon, <1>0, <2>2, <2>3
    <3> QED BY Zenon, <1>0, <2>1, <3>1, <3>2
  <2>4. CASE c = d
    <3>0. base \in Nat /\ sendQueue[c] \in Nat BY <1>0, <2>4, CharDeviceAssumption
    <3>1. k = (IF sendQueue[c] < base THEN sendQueue[c] ELSE base) BY Zenon, <2>4 DEF SendQueuePush
    <3>2. sendTokens'[c] = base - k /\ sendQueue'[c] = sendQueue[c] - k BY Zenon, <1>0, <2>1, <2>4
    <3>3. sendQueue[c] > k => waitTokens'[c]
      <4>1. sendQueue[c] > k => ~(base > k) BY <3>0, <3>1
      <4> QED BY Zenon, <1>0, <2>2, <2>4, <4>1
    <3> HIDE DEF k, base
    <3>4. CASE sendQueue[c] < base
      <4>1. sendQueue'[c] = 0 BY <3>0, <3>1, <3>2, <3>4
      <4> QED BY <1>0, <4>1
    <3>5. CASE ~(sendQueue[c] < base)
      <4>1. sendTokens'[c] = 0 /\ sendQueue'[c] = sendQueue[c] - base /\ k = base
        BY <3>0, <3>1, <3>2, <3>5
      <4>2. sendQueue'[c] =< MaxSendQueue BY <1>0, <2>1, <3>0, <4>1
      <4>3. sendQueue'[c] > 0 => sendQueue[c] > k BY <3>0, <4>1
      <4> QED BY Zenon, <2>1, <2>4, <3>3, <4>1, <4>2, <4>3
    <3> QED BY Zenon, <3>4, <3>5
  <2> QED BY Zenon, <2>3, <2>4
<1>4. ASSUME NEW d \in Clients, NEW wait \in BOOLEAN, NEW send \in 0..MaxSend,
             ClientAdd(d, wait, send)
      PROVE  Fine(c)'
  <2>1. /\ clients' = clients \cup {d} /\ sendTokens' = [sendTokens EXCEPT ![d] = send]
        /\ sendQueue' = [sendQueue EXCEPT ![d] = 0]
        /\ waitTokens' = [waitTokens EXCEPT ![d] = FALSE]
    BY Zenon, <1>4 DEF ClientAdd
  <2>2. CASE c = d
    <3>1. sendQueue'[c] = 0 BY Zenon, <1>0, <2>1, <2>2
    <3> QED BY <1>0, <3>1
  <2>3. CASE c # d
    <3>1. c \in clients /\ sendTokens'[c] = sendTokens[c] /\ sendQueue'[c] = sendQueue[c]
      BY Zenon, <1>0, <2>1, <2>3
    <3>2. waitTokens'[c] = waitTokens[c] BY Zenon, <1>0, <2>1, <2>3
    <3> QED BY Zenon, <1>0, <3>1, <3>2
  <2> QED BY Zenon, <2>2, <2>3
<1>5. ASSUME NEW d \in Clients, ClientRemove(d) PROVE Fine(c)'
  <2>1. /\ clients' = clients \ {d} /\ sendTokens' = [sendTokens EXCEPT ![d] = 0]
        /\ sendQueue' = [sendQueue EXCEPT ![d] = 0]
        /\ waitTokens' = [waitTokens EXCEPT ![d] = FALSE]
    BY Zenon, <1>5 DEF ClientRemove
  <2>2. c \in clients /\ sendTokens'[c] = sendTokens[c] /\ sendQueue'[c] = sendQueue[c]
    BY Zenon, <1>0, <2>1
  <2>3. waitTokens'[c] = waitTokens[c] BY Zenon, <1>0, <2>1
  <2> QED BY Zenon, <1>0, <2>2, <2>3
<1>6. CASE Reset
  <2>1. c \in clients BY Zenon, <1>6 DEF Reset
  <2>2. sendQueue'[c] = 0 BY Zenon, <1>0, <1>6, <2>1 DEF Reset
  <2> QED BY <1>0, <2>2
<1>7. ASSUME NEW d \in Clients, NEW b \in Bufs, NEW m \in MigData, NEW send \in 0..MaxSend,
             Restore(d, b, m.client, m.write, m.size, send)
      PROVE  Fine(c)'
  <2>1. waitMig /\ c \in clients /\ UNCHANGED sendQueue BY Zenon, <1>7 DEF Restore
  <2>2. sendQueue'[c] = 0 BY Zenon, <2>1 DEF Inductive, MigrationWait
  <2> QED BY <1>0, <2>2
<1> HIDE DEF Fine
<1> QED BY Zenon, <1>1, <1>2, <1>3, <1>4, <1>5, <1>6, <1>7, MessagesMove

\* No loop of the device is in progress on stack s.
NoLoop(s) == \A i \in DOMAIN s : s[i] \notin {"write", "read", "readNone"}

\* What the device waits with while it expects migration data stays as it is.
LEMMA MigrationWaitStep == ASSUME Inductive, [Next]_vars PROVE MigrationWait'
<1> DEFINE Full(c) == sendQueue[c] = 0 /\ (FlowControl[c] => tokens[c] = Window)
<1>a. ASSUME ~waitMig' PROVE MigrationWait' BY Zenon, <1>a DEF MigrationWait
<1>b. ASSUME waitMig, held' = held, NoLoop(stack'), \A c \in clients' : Full(c)'
      PROVE  MigrationWait'
  BY Zenon, <1>b DEF MigrationWait, NoLoop, Inductive
<1>s. /\ stack \in Seq(Frames) /\ clients \in SUBSET Clients /\ BufferPlaces
      /\ sendQueue \in [Clients -> Nat] /\ tokens \in [Clients -> Nat]
  BY Zenon DEF Inductive, TypeOK, ClientType
<1>w. waitMig => held = {} /\ NoLoop(stack) /\ \A c \in clients : Full(c)
  BY Zenon DEF Inductive, MigrationWait, NoLoop
<1>c. /\ NoLoop(stack) => NoLoop(<<"callW", "callR">> \o stack) /\ NoLoop(<<"callW">> \o stack)
                          /\ NoLoop(<<"callW", "startW">> \o stack)
      /\ stack # <<>> /\ NoLoop(stack) =>
           /\ NoLoop(Tail(stack)) /\ ~Top("write") /\ ~Top("read") /\ ~Top("readNone")
           /\ NoLoop(<<"callW", "startW">> \o Tail(stack))
           /\ NoLoop(<<"callR", "startR">> \o Tail(stack))
  <2>1. {"callW", "callR", "startW", "startR"} \subseteq Frames BY Zenon DEF Frames
  <2>2. ASSUME NEW s \in Seq(Frames), NoLoop(s), NEW e \in {"callW", "callR"},
               NEW g \in {"callR", "startW", "startR"}
        PROVE  NoLoop(<<e, g>> \o s) /\ NoLoop(<<e>> \o s)
    BY <2>1, <2>2, StackOps DEF NoLoop
  <2>3. ASSUME stack # <<>>, NoLoop(stack)
        PROVE  NoLoop(Tail(stack)) /\ Tail(stack) \in Seq(Frames)
               /\ Head(stack) \notin {"write", "read", "readNone"}
    <3>1. Tail(stack) \in Seq(Frames) BY <1>s, <2>3
    <3>2. \A i \in DOMAIN Tail(stack) : i + 1 \in DOMAIN stack /\ Tail(stack)[i] = stack[i + 1]
      BY <1>s, <2>3
    <3>3. 1 \in DOMAIN stack /\ Head(stack) = stack[1] BY <1>s, <2>3
    <3> QED BY Zenon, <2>3, <3>1, <3>2, <3>3 DEF NoLoop
  <2> QED BY Zenon, <1>s, <2>2, <2>3 DEF Top
<1>d. waitMig => ~Top("write") /\ ~Top("read") /\ ~Top("readNone") BY Zenon, <1>w, <1>c DEF Top
<1>l. NoLoop(<<>>) /\ NoLoop(<<"callR">>) /\ NoLoop(<<"callW", "startW">>) /\ NoLoop(<<"callW", "callR">>)
  BY DEF NoLoop
<1>k. waitMig' \in BOOLEAN /\ waitMig \in BOOLEAN BY Zenon, CtlTypeStep DEF Inductive, TypeOK, CtlType
<1>1. CASE UNCHANGED <<waitMig, held, stack, clients, sendQueue, tokens>>
  BY Zenon, <1>1, <1>a, <1>b, <1>w
<1>2. ASSUME waitMig, UNCHANGED <<held, clients, sendQueue, tokens>>, NoLoop(stack')
      PROVE  MigrationWait'
  BY Zenon, <1>2, <1>b, <1>w
<1>3. CASE DeviceLoops
  <2>1. CASE Top("write") \/ Top("read") \/ Top("readNone")
    <3>1. ~waitMig BY Zenon, <1>d, <2>1
    <3>2. UNCHANGED waitMig
      BY Zenon, <1>3, <2>1 DEF DeviceLoops, ctlVars, CallRead, ReadMessage, ReadNothing, ReadRetry,
         ReadExit, CallWrite, WritePop, WriteSome, WriteDone, WriteRetry, WriteExit, StartLoop
    <3> QED BY Zenon, <3>1, <3>2, <1>a
  <2>2. ASSUME CallRead PROVE MigrationWait'
    <3>1. UNCHANGED <<waitMig, held, clients, sendQueue, tokens>> /\ stack # <<>>
      BY Zenon, <2>2 DEF CallRead, ctlVars, bufVars, cliVars, Top
    <3>2. waitMig => stack' = Tail(stack) BY Zenon, <2>2 DEF CallRead, Return
    <3> QED BY Zenon, <1>2, <1>a, <1>c, <1>w, <3>1, <3>2
  <2>3. ASSUME CallWrite PROVE MigrationWait'
    <3>1. UNCHANGED <<waitMig, held, clients, sendQueue, tokens>> /\ stack # <<>>
      BY Zenon, <2>3 DEF CallWrite, ctlVars, bufVars, cliVars, Top
    <3>2. waitMig => stack' = Tail(stack) BY Zenon, <2>3 DEF CallWrite, Return
    <3> QED BY Zenon, <1>2, <1>a, <1>c, <1>w, <3>1, <3>2
  <2>4. ASSUME StartLoop PROVE MigrationWait'
    <3>1. UNCHANGED <<waitMig, held, clients, sendQueue, tokens>> /\ stack # <<>>
      BY Zenon, <2>4 DEF StartLoop, ctlVars, bufVars, cliVars, Top
    <3>2. \/ stack' = <<"callW", "startW">> \o Tail(stack)
          \/ stack' = <<"callR", "startR">> \o Tail(stack)
          \/ stack' = Tail(stack)
      BY Zenon, <2>4 DEF StartLoop
    <3> QED BY Zenon, <1>2, <1>a, <1>c, <1>w, <3>1, <3>2
  <2> QED BY Zenon, <1>3, <2>1, <2>2, <2>3, <2>4 DEF DeviceLoops, ReadMessage, ReadNothing, ReadRetry,
         ReadExit, WritePop, WriteSome, WriteDone, WriteRetry, WriteExit
<1>4. ASSUME NEW c \in Clients, NEW n \in 1..MaxSend, NEW r \in BOOLEAN, TokensAbsorb(c, n, r)
      PROVE  MigrationWait'
  <2>1. /\ UNCHANGED <<waitMig, held, clients, tokens>> /\ c \in clients
        /\ stack' = <<"callR">> \/ stack' = <<>>
        /\ sendQueue' = [sendQueue EXCEPT ![c] =
                           @ - SendQueuePush(c, (IF r THEN 0 ELSE sendTokens[c]) + n)]
    BY Zenon, <1>4 DEF TokensAbsorb, ctlVars, bufVars
  <2>2. sendTokens[c] \in Nat BY Zenon DEF Inductive, TypeOK, ClientType
  <2>3. sendQueue[c] = 0 => sendQueue' = sendQueue
    BY <1>s, <2>1, <2>2, CharDeviceAssumption DEF SendQueuePush
  <2> QED BY Zenon, <1>2, <1>a, <1>l, <1>w, <2>1, <2>3
<1>5. ASSUME NEW c \in Clients, TokensTimeout(c) PROVE MigrationWait'
  BY Zenon, <1>1, <1>5 DEF TokensTimeout, ctlVars, bufVars, loopVars
<1>6. ASSUME NEW c \in Clients, NEW b \in Bufs, WriteBufferGetClient(c, b) PROVE MigrationWait'
  BY Zenon, <1>a, <1>6 DEF WriteBufferGetClient, ctlVars
<1>7. ASSUME NEW b \in Bufs, WriteBufferAdd(b) PROVE MigrationWait'
  <2>1. b \in held /\ UNCHANGED waitMig BY Zenon, <1>7 DEF WriteBufferAdd, ctlVars
  <2> QED BY Zenon, <1>a, <1>w, <2>1
<1>8. ASSUME NEW b \in Bufs, WriteBufferRelease(b) PROVE MigrationWait'
  <2>1. b \in held /\ UNCHANGED waitMig BY Zenon, <1>8 DEF WriteBufferRelease, ctlVars
  <2> QED BY Zenon, <1>a, <1>w, <2>1
<1>9. ASSUME NEW c \in Clients, NEW wait \in BOOLEAN, NEW send \in 0..MaxSend,
             ClientAdd(c, wait, send)
      PROVE  MigrationWait'
  <2>1. CASE wait
    <3>1. clients = {} /\ clients' = clients \cup {c} /\ held' = held /\ waitMig'
      BY Zenon, <1>9, <2>1 DEF ClientAdd, bufVars
    <3>2. held' = {} BY Zenon, <1>s, <3>1 DEF BufferPlaces
    <3>3. sendQueue'[c] = 0 /\ tokens'[c] = Window BY Zenon, <1>9, <1>s DEF ClientAdd
    <3>4. stack' = <<"callW", "callR">> \o <<>> BY Zenon, <1>9 DEF ClientAdd, Call, Idle
    <3>5. NoLoop(stack') BY <1>l, <3>4
    <3> QED BY Zenon, <3>1, <3>2, <3>3, <3>5 DEF MigrationWait, NoLoop
  <2>2. CASE ~wait
    <3>1. ~waitMig' BY Zenon, <1>9, <2>2 DEF ClientAdd
    <3> QED BY Zenon, <1>a, <3>1
  <2> QED BY Zenon, <2>1, <2>2
<1>10. ASSUME NEW c \in Clients, ClientRemove(c) PROVE MigrationWait'
  BY Zenon, <1>a, <1>10 DEF ClientRemove
<1>11. ASSUME NEW b \in Bufs, NEW t \in BOOLEAN, ServerMessage(b, t) PROVE MigrationWait'
  BY Zenon, <1>a, <1>11 DEF ServerMessage, ctlVars
<1>12. CASE WriteTimerFires
  <2>1. UNCHANGED <<waitMig, held, clients, sendQueue, tokens>> /\ stack' = <<"callW">> \o stack
    BY Zenon, <1>12 DEF WriteTimerFires, Call, ctlVars, bufVars, cliVars
  <2> QED BY Zenon, <1>2, <1>a, <1>c, <1>w, <2>1
<1>13. CASE Start
  <2>1. UNCHANGED <<waitMig, held, clients, sendQueue, tokens>> /\ stack' = <<"callW", "startW">> \o stack
    BY Zenon, <1>13 DEF Start, Call, ctlVars, bufVars, cliVars
  <2> QED BY Zenon, <1>2, <1>a, <1>c, <1>w, <2>1
<1>14. CASE Stop
  BY Zenon, <1>1, <1>14 DEF Stop, bufVars, cliVars, loopVars
<1>15. CASE Reset
  BY Zenon, <1>a, <1>15 DEF Reset
<1>16. ASSUME NEW vmRunning \in BOOLEAN, Attach(vmRunning) PROVE MigrationWait'
  <2>1. /\ UNCHANGED <<waitMig, held, clients, sendQueue, tokens>>
        /\ stack' = <<"callW", "startW">> \/ stack' = <<>>
    BY Zenon, <1>16 DEF Attach, bufVars, cliVars
  <2> QED BY Zenon, <1>2, <1>a, <1>l, <2>1
<1>17. ASSUME NEW c \in Clients, NEW b \in Bufs, NEW m \in MigData, NEW send \in 0..MaxSend,
              Restore(c, b, m.client, m.write, m.size, send)
       PROVE  MigrationWait'
  BY Zenon, <1>a, <1>17 DEF Restore
<1>18. CASE Wakeup
  <2>1. UNCHANGED <<waitMig, held, clients, sendQueue, tokens>> /\ stack' = <<"callW", "callR">> \o stack
    BY Zenon, <1>18 DEF Wakeup, Call, ctlVars, bufVars, cliVars
  <2> QED BY Zenon, <1>2, <1>a, <1>c, <1>w, <2>1
<1>19. CASE DeviceProduces
  BY Zenon, <1>1, <1>19 DEF DeviceProduces, ctlVars, bufVars, cliVars, loopVars
<1>20. CASE UNCHANGED vars
  BY Zenon, <1>1, <1>20 DEF vars, ctlVars, bufVars, cliVars, loopVars
<1> QED BY ZenonT(40), <1>3, <1>4, <1>5, <1>6, <1>7, <1>8, <1>9, <1>10, <1>11, <1>12, <1>13, <1>14, <1>15,
           <1>16, <1>17, <1>18, <1>19, <1>20 DEF Next, ClientOps, DeviceOps

\* The initial state satisfies the inductive invariant.
LEMMA InductiveInit == ASSUME Init PROVE Inductive
<1> USE CharDeviceAssumption DEF Init
<1>1. BufType /\ CtlType
  <2>1. pending \in BOOLEAN /\ running \in BOOLEAN /\ active \in BOOLEAN /\ waitMig \in BOOLEAN
        /\ attached \in BOOLEAN /\ writeTimer \in BOOLEAN /\ signal \in BOOLEAN
    BY Zenon
  <2>2. writeQueue \in Seq(Bufs) /\ rem \in Nat /\ price \in Nat /\ selfTokens \in Nat
        /\ avail \in Nat
    OBVIOUS
  <2>3. owner \in [Bufs -> Clients \cup {Self, NoToken, None}] /\ held \in SUBSET Bufs
        /\ cur \in Bufs \cup {Nil}
    BY Zenon
  <2> QED BY Zenon, <2>1, <2>2, <2>3 DEF BufType, CtlType
<1>2. ClientType BY Zenon DEF ClientType
<1>3. LoopType /\ stack \in Seq(Frames)
  <2>1. ret \in BOOLEAN /\ total \in BOOLEAN /\ didRead \in BOOLEAN BY Zenon
  <2>2. duringWrite \in 0..2 /\ duringRead \in 0..2 /\ maxTok \in Nat \cup {-1} OBVIOUS
  <2>3. stack \in Seq(Frames) OBVIOUS
  <2> QED BY Zenon, <2>1, <2>2, <2>3 DEF LoopType
<1>4. BufferPlaces BY Zenon DEF BufferPlaces, Live, Queued
<1>5. MigrationWait BY Zenon DEF MigrationWait
<1>6. TokenConservation /\ FreeBelowInterval /\ SendQueueOnlyWithoutTokens /\ SendQueueGuarded
  BY Zenon DEF TokenConservation, FreeBelowInterval, SendQueueOnlyWithoutTokens, SendQueueGuarded
<1>7. SelfTokenConservation
  <2>1. {b \in Bufs : owner[b] = Self} = {} BY Zenon
  <2>2. Count(owner, Bufs, Self) = 0 BY Zenon, <2>1, FS_EmptySet DEF Count
  <2> QED BY <2>2 DEF SelfTokenConservation
<1> QED BY Zenon, <1>1, <1>2, <1>3, <1>4, <1>5, <1>6, <1>7 DEF Inductive, TypeOK

\* Every step keeps the inductive invariant.
LEMMA InductiveStep == ASSUME Inductive, [Next]_vars PROVE Inductive'
<1>1. TypeOK BY Zenon DEF Inductive
<1>2. TypeOK'
  BY Zenon, <1>1, CtlTypeStep, BufTypeStep, ClientTypeStep, LoopTypeStep, StackTypeStep DEF TypeOK
<1> QED BY Zenon, <1>2, BufferPlacesStep, MigrationWaitStep, TokenStep, SelfTokenStep, FreeStep,
           SendQueueStep DEF Inductive

\* Every reachable state of the device satisfies the inductive invariant.
THEOREM AlwaysInductive == Spec => []Inductive
BY InductiveInit, InductiveStep, PTL DEF Spec

\* The token counters never go below zero and every variable keeps its type: the
\* unsigned arithmetic of char-device.cpp does not wrap.
THEOREM AlwaysTypeOK == Spec => []TypeOK
<1>1. Inductive => TypeOK BY Zenon DEF Inductive
<1> QED BY <1>1, AlwaysInductive, PTL

\* No token of a client is ever lost or made twice, through sends, releases, resets and
\* migration, for any window, interval and number of clients.
THEOREM TokensConserved == Spec => [](TokenConservation /\ SelfTokenConservation)
<1>1. Inductive => TokenConservation /\ SelfTokenConservation BY Zenon DEF Inductive
<1> QED BY <1>1, AlwaysInductive, PTL

\* Freed tokens are given back to the client in time.
THEOREM TokensReturned == Spec => []FreeBelowInterval
<1>1. Inductive => FreeBelowInterval BY Zenon DEF Inductive
<1> QED BY <1>1, AlwaysInductive, PTL

\* The assertions about send_queue in char-device.cpp never fail, and a queued message is
\* bounded in number and covered by the timer.
THEOREM SendQueueSafe == Spec => [](SendQueueOnlyWithoutTokens /\ SendQueueGuarded)
<1>1. Inductive => SendQueueOnlyWithoutTokens /\ SendQueueGuarded BY Zenon DEF Inductive
<1> QED BY <1>1, AlwaysInductive, PTL

-----------------------------------------------------------------------------
(* No wakeup and no retry is lost *)

\* One of the calls F is in progress on stack s, and at most one of them.
In(s, F) == \E i \in DOMAIN s : s[i] \in F
AtMostOne(s, F) == \A i, j \in DOMAIN s : s[i] \in F /\ s[j] \in F => i = j

\* What a call and a return do to the calls in progress.
LEMMA StackIn ==
  ASSUME NEW s \in Seq(Frames), NEW e \in Frames, NEW g \in Frames, NEW F
  PROVE  /\ In(<<e>> \o s, F) <=> e \in F \/ In(s, F)
         /\ In(<<e, g>> \o s, F) <=> e \in F \/ g \in F \/ In(s, F)
         /\ s # <<>> => /\ Head(s) \in Frames /\ Tail(s) \in Seq(Frames)
                        /\ In(s, F) <=> Head(s) \in F \/ In(Tail(s), F)
<1>1. In(<<e>> \o s, F) <=> e \in F \/ In(s, F)
  <2>1. /\ \A i \in DOMAIN (<<e>> \o s) : i = 1 \/ i - 1 \in DOMAIN s
        /\ \A i \in DOMAIN s : i + 1 \in DOMAIN (<<e>> \o s) /\ (<<e>> \o s)[i + 1] = s[i]
        /\ 1 \in DOMAIN (<<e>> \o s) /\ (<<e>> \o s)[1] = e
        /\ \A i \in DOMAIN (<<e>> \o s) : i - 1 \in DOMAIN s => (<<e>> \o s)[i] = s[i - 1]
    OBVIOUS
  <2> QED BY Zenon, <2>1 DEF In
<1>2. In(<<e, g>> \o s, F) <=> e \in F \/ g \in F \/ In(s, F)
  <2>1. /\ \A i \in DOMAIN (<<e, g>> \o s) : i = 1 \/ i = 2 \/ i - 2 \in DOMAIN s
        /\ \A i \in DOMAIN s : i + 2 \in DOMAIN (<<e, g>> \o s) /\ (<<e, g>> \o s)[i + 2] = s[i]
        /\ 1 \in DOMAIN (<<e, g>> \o s) /\ (<<e, g>> \o s)[1] = e
        /\ 2 \in DOMAIN (<<e, g>> \o s) /\ (<<e, g>> \o s)[2] = g
        /\ \A i \in DOMAIN (<<e, g>> \o s) : i - 2 \in DOMAIN s => (<<e, g>> \o s)[i] = s[i - 2]
    OBVIOUS
  <2> QED BY Zenon, <2>1 DEF In
<1>3. ASSUME s # <<>>
      PROVE  /\ Head(s) \in Frames /\ Tail(s) \in Seq(Frames)
             /\ In(s, F) <=> Head(s) \in F \/ In(Tail(s), F)
  <2>1. /\ \A i \in DOMAIN s : i = 1 \/ i - 1 \in DOMAIN Tail(s)
        /\ \A i \in DOMAIN Tail(s) : i + 1 \in DOMAIN s /\ Tail(s)[i] = s[i + 1]
        /\ 1 \in DOMAIN s /\ s[1] = Head(s) /\ Head(s) \in Frames /\ Tail(s) \in Seq(Frames)
        /\ \A i \in DOMAIN s : i - 1 \in DOMAIN Tail(s) => s[i] = Tail(s)[i - 1]
    BY <1>3
  <2> QED BY Zenon, <2>1 DEF In
<1> QED BY Zenon, <1>1, <1>2, <1>3

\* A call of F can be made when none is in progress, and none is left when it returns.
LEMMA StackOnce ==
  ASSUME NEW s \in Seq(Frames), NEW e \in Frames, NEW g \in Frames, NEW F
  PROVE  /\ AtMostOne(s, F) /\ (e \in F => ~In(s, F)) => AtMostOne(<<e>> \o s, F)
         /\ AtMostOne(s, F) /\ e \notin F /\ g \notin F => AtMostOne(<<e, g>> \o s, F)
         /\ s # <<>> /\ AtMostOne(s, F) =>
              AtMostOne(Tail(s), F) /\ (Head(s) \in F => ~In(Tail(s), F))
<1>1. ASSUME AtMostOne(s, F), e \in F => ~In(s, F) PROVE AtMostOne(<<e>> \o s, F)
  <2>1. /\ \A i \in DOMAIN (<<e>> \o s) :
             i = 1 \/ (i - 1 \in DOMAIN s /\ (<<e>> \o s)[i] = s[i - 1])
        /\ (<<e>> \o s)[1] = e
    OBVIOUS
  <2> SUFFICES ASSUME NEW i \in DOMAIN (<<e>> \o s), NEW j \in DOMAIN (<<e>> \o s),
                      (<<e>> \o s)[i] \in F, (<<e>> \o s)[j] \in F
               PROVE  i = j
    BY Zenon DEF AtMostOne
  <2>2. i # 1 => i - 1 \in DOMAIN s /\ s[i - 1] \in F BY Zenon, <2>1
  <2>3. j # 1 => j - 1 \in DOMAIN s /\ s[j - 1] \in F BY Zenon, <2>1
  <2>4. i # 1 /\ j # 1 => i - 1 = j - 1 BY Zenon, <1>1, <2>2, <2>3 DEF AtMostOne
  <2>5. i # 1 /\ j # 1 => i = j BY <2>4
  <2>6. i = 1 \/ j = 1 => e \in F BY Zenon, <2>1
  <2>7. e \in F => i = 1 /\ j = 1 BY Zenon, <1>1, <2>2, <2>3 DEF In
  <2> QED BY Zenon, <2>5, <2>6, <2>7
<1>2. ASSUME AtMostOne(s, F), e \notin F, g \notin F PROVE AtMostOne(<<e, g>> \o s, F)
  <2>1. /\ \A i \in DOMAIN (<<e, g>> \o s) :
             i = 1 \/ i = 2 \/ (i - 2 \in DOMAIN s /\ (<<e, g>> \o s)[i] = s[i - 2])
        /\ (<<e, g>> \o s)[1] = e /\ (<<e, g>> \o s)[2] = g
    OBVIOUS
  <2> SUFFICES ASSUME NEW i \in DOMAIN (<<e, g>> \o s), NEW j \in DOMAIN (<<e, g>> \o s),
                      (<<e, g>> \o s)[i] \in F, (<<e, g>> \o s)[j] \in F
               PROVE  i = j
    BY Zenon DEF AtMostOne
  <2>2. i - 2 \in DOMAIN s /\ s[i - 2] \in F BY Zenon, <1>2, <2>1
  <2>3. j - 2 \in DOMAIN s /\ s[j - 2] \in F BY Zenon, <1>2, <2>1
  <2>4. i - 2 = j - 2 BY Zenon, <1>2, <2>2, <2>3 DEF AtMostOne
  <2> QED BY <2>4
<1>3. ASSUME s # <<>>, AtMostOne(s, F)
      PROVE  AtMostOne(Tail(s), F) /\ (Head(s) \in F => ~In(Tail(s), F))
  <2>1. /\ \A i \in DOMAIN Tail(s) : i + 1 \in DOMAIN s /\ Tail(s)[i] = s[i + 1] /\ i + 1 # 1
        /\ 1 \in DOMAIN s /\ s[1] = Head(s)
    BY <1>3
  <2>2. \A i, j \in DOMAIN Tail(s) : i + 1 = j + 1 => i = j OBVIOUS
  <2> QED BY Zenon, <1>3, <2>1, <2>2 DEF AtMostOne, In
<1> QED BY Zenon, <1>1, <1>2, <1>3

\* The frames of a read in progress.
ReadFrames == {"read", "readNone"}

\* A read is in progress exactly while during_read_from_device says so, at most once, and
\* while it is its budget covers the tokens of every client.
ReadLoop ==
  /\ AtMostOne(stack, ReadFrames)
  /\ duringRead > 0 <=> In(stack, ReadFrames)
  /\ running /\ In(stack, ReadFrames) =>
       \A c \in clients : maxTok = -1 \/ (FlowControl[c] /\ sendTokens[c] =< maxTok)

\* A message that a client can take has a wakeup() outstanding or a read that is still to
\* look for it: one about to be called, one in progress, or one told to go round again.
WakeupPending ==
  /\ running /\ attached /\ ~waitMig /\ avail > 0
  /\ \E c \in clients : CanSendToClient(c)
  => \/ signal \/ In(stack, {"callR", "startW", "read"})
     \/ In(stack, {"readNone"}) /\ duringRead > 1

\* A client's data for the device has the timer armed or a write still to be made.
WritePending ==
  /\ running /\ attached /\ ~waitMig
  /\ \E b \in Live \ held : owner[b] \in Clients
  => (cur # Nil /\ writeTimer) \/ In(stack, {"callW", "write"})

\* A write is in progress when during_write_to_device says so, and migration data is
\* expected for the only client.
WriteLoop == duringWrite > 0 => In(stack, {"write"})
OneRestored == waitMig => \A c, d \in clients : c = d

\* What the operations other than the two loops do to the stack of calls.
LEMMA StackMoves ==
  ASSUME TypeOK, [Next]_vars
  PROVE  \/ CallRead \/ ReadNothing \/ ReadRetry \/ ReadExit \/ CallWrite \/ WriteExit
         \/ StartLoop
         \/ /\ UNCHANGED duringRead
            /\ \/ stack' = stack
               \/ stack' = <<"callR">> \o stack \/ stack' = <<"callW">> \o stack
               \/ stack' = <<"callW", "callR">> \o stack
               \/ stack' = <<"callW", "startW">> \o stack
<1>1. CASE DeviceLoops
  BY Zenon, <1>1 DEF DeviceLoops, ReadMessage, WritePop, WriteSome, WriteDone, WriteRetry, loopVars
<1>2. ASSUME NEW c \in Clients, NEW n \in 1..MaxSend, NEW r \in BOOLEAN, TokensAbsorb(c, n, r)
      PROVE  UNCHANGED duringRead /\ (stack' = stack \/ stack' = <<"callR">> \o stack)
  <2>1. stack = <<>> /\ (stack' = <<"callR">> \/ stack' = <<>>) /\ UNCHANGED duringRead
    BY Zenon, <1>2 DEF TokensAbsorb, Idle
  <2>2. <<"callR">> = <<"callR">> \o <<>> OBVIOUS
  <2> QED BY Zenon, <2>1, <2>2
<1>3. CASE ClientOps
  <2>1. ASSUME NEW c \in Clients, TokensTimeout(c) PROVE UNCHANGED <<duringRead, stack>>
    BY Zenon, <2>1 DEF TokensTimeout, loopVars
  <2>2. ASSUME NEW c \in Clients, NEW b \in Bufs, WriteBufferGetClient(c, b)
        PROVE  UNCHANGED <<duringRead, stack>>
    BY Zenon, <2>2 DEF WriteBufferGetClient, loopVars
  <2>3. ASSUME NEW b \in Bufs, WriteBufferAdd(b)
        PROVE  UNCHANGED duringRead /\ stack' = <<"callW">> \o stack
    BY Zenon, <2>3 DEF WriteBufferAdd, Call
  <2>4. ASSUME NEW b \in Bufs, WriteBufferRelease(b) PROVE UNCHANGED <<duringRead, stack>>
    BY Zenon, <2>4 DEF WriteBufferRelease, loopVars
  <2>5. ASSUME NEW c \in Clients, NEW wait \in BOOLEAN, NEW send \in 0..MaxSend,
               ClientAdd(c, wait, send)
        PROVE  UNCHANGED duringRead /\ stack' = <<"callW", "callR">> \o stack
    BY Zenon, <2>5 DEF ClientAdd, Call
  <2>6. ASSUME NEW c \in Clients, ClientRemove(c)
        PROVE  UNCHANGED duringRead /\ (stack' = stack \/ stack' = <<"callR">> \o stack)
    BY Zenon, <2>6 DEF ClientRemove, Call
  <2> QED BY Zenon, <1>3, <1>2, <2>1, <2>2, <2>3, <2>4, <2>5, <2>6 DEF ClientOps
<1>4. ASSUME NEW vmRunning \in BOOLEAN, Attach(vmRunning)
      PROVE  UNCHANGED duringRead /\ (stack' = stack \/ stack' = <<"callW", "startW">> \o stack)
  <2>1. stack = <<>> /\ (stack' = <<"callW", "startW">> \/ stack' = <<>>) /\ UNCHANGED duringRead
    BY Zenon, <1>4 DEF Attach, Idle
  <2>2. <<"callW", "startW">> = <<"callW", "startW">> \o <<>> OBVIOUS
  <2> QED BY Zenon, <2>1, <2>2
<1>5. CASE DeviceOps
  <2>1. ASSUME NEW b \in Bufs, NEW t \in BOOLEAN, ServerMessage(b, t)
        PROVE  UNCHANGED duringRead /\ (stack' = stack \/ stack' = <<"callW">> \o stack)
    BY Zenon, <2>1 DEF ServerMessage, Call
  <2>2. ASSUME NEW c \in Clients, NEW b \in Bufs, NEW m \in MigData, NEW send \in 0..MaxSend,
               Restore(c, b, m.client, m.write, m.size, send)
        PROVE  UNCHANGED duringRead /\ stack' = <<"callW", "callR">> \o stack
    BY Zenon, <2>2 DEF Restore, Call
  <2>3. CASE WriteTimerFires \/ Start \/ Wakeup
    BY Zenon, <2>3 DEF WriteTimerFires, Start, Wakeup, Call
  <2>4. CASE Stop \/ Reset \/ DeviceProduces
    BY Zenon, <2>4 DEF Stop, Reset, DeviceProduces, loopVars
  <2> QED BY Zenon, <1>4, <1>5, <2>1, <2>2, <2>3, <2>4 DEF DeviceOps
<1> QED BY Zenon, <1>1, <1>3, <1>5 DEF Next, vars, loopVars

\* Stack t has the frames of F that stack s has.
Kept(s, t, F) == (In(t, F) <=> In(s, F)) /\ (AtMostOne(s, F) => AtMostOne(t, F))

\* Calls and returns of other functions keep the frames of F.
LEMMA OthersKeep ==
  ASSUME NEW F, NEW s \in Seq(Frames), NEW e \in Frames \ F, NEW g \in Frames \ F
  PROVE  /\ Kept(s, s, F) /\ Kept(s, <<e>> \o s, F) /\ Kept(s, <<e, g>> \o s, F)
         /\ s # <<>> /\ Head(s) \notin F =>
              /\ Kept(s, Tail(s), F) /\ Kept(s, <<e>> \o Tail(s), F)
              /\ Kept(s, <<e, g>> \o Tail(s), F)
<1>0. e \in Frames /\ g \in Frames /\ e \notin F /\ g \notin F OBVIOUS
<1>1. ASSUME NEW q \in Seq(Frames) PROVE Kept(q, <<e>> \o q, F) /\ Kept(q, <<e, g>> \o q, F)
  <2>1. /\ In(<<e>> \o q, F) <=> In(q, F)
        /\ In(<<e, g>> \o q, F) <=> In(q, F)
    BY Zenon, <1>0, StackIn
  <2>2. AtMostOne(q, F) => AtMostOne(<<e>> \o q, F) /\ AtMostOne(<<e, g>> \o q, F)
    BY Zenon, <1>0, StackOnce
  <2> QED BY Zenon, <2>1, <2>2 DEF Kept
<1>2. ASSUME s # <<>>, Head(s) \notin F PROVE Tail(s) \in Seq(Frames) /\ Kept(s, Tail(s), F)
  <2>1. Tail(s) \in Seq(Frames) /\ (In(Tail(s), F) <=> In(s, F)) BY Zenon, <1>0, <1>2, StackIn
  <2>2. AtMostOne(s, F) => AtMostOne(Tail(s), F) BY Zenon, <1>0, <1>2, StackOnce
  <2> QED BY Zenon, <2>1, <2>2 DEF Kept
<1>3. ASSUME s # <<>>, Head(s) \notin F
      PROVE  Kept(s, <<e>> \o Tail(s), F) /\ Kept(s, <<e, g>> \o Tail(s), F)
  BY Zenon, <1>1, <1>2, <1>3 DEF Kept
<1> QED BY Zenon, <1>1, <1>2, <1>3 DEF Kept

\* The frames of a read and of a write are kept by everything but their own steps.
LEMMA FramesKept ==
  ASSUME TypeOK, [Next]_vars
  PROVE  /\ CallRead \/ ReadNothing \/ ReadRetry \/ ReadExit
            \/ (Kept(stack, stack', ReadFrames) /\ UNCHANGED duringRead)
         /\ CallWrite \/ WriteExit \/ Kept(stack, stack', {"write"})
<1>s. stack \in Seq(Frames) BY Zenon DEF TypeOK
<1> DEFINE Safe == Kept(stack, stack', ReadFrames) /\ Kept(stack, stack', {"write"})
<1>f. /\ {"callR", "callW", "startW", "startR"} \subseteq Frames \ ReadFrames
      /\ {"callR", "callW", "startW", "startR"} \subseteq Frames \ {"write"}
      /\ "write" \in Frames \ ReadFrames /\ "read" \in Frames \ {"write"}
      /\ "readNone" \in Frames \ {"write"}
  BY DEF Frames, ReadFrames
<1>a. ASSUME NEW e \in {"callR", "callW", "startW", "startR"},
             NEW g \in {"callR", "callW", "startW", "startR"}
      PROVE  /\ stack' = stack => Safe
             /\ stack' = <<e>> \o stack => Safe
             /\ stack' = <<e, g>> \o stack => Safe
             /\ stack # <<>> /\ Head(stack) \notin ReadFrames =>
                  /\ stack' = Tail(stack) => Kept(stack, stack', ReadFrames)
                  /\ stack' = <<"write">> \o Tail(stack) => Kept(stack, stack', ReadFrames)
                  /\ stack' = <<e, g>> \o Tail(stack) => Kept(stack, stack', ReadFrames)
             /\ stack # <<>> /\ Head(stack) # "write" =>
                  /\ stack' = Tail(stack) => Kept(stack, stack', {"write"})
                  /\ stack' = <<"read">> \o Tail(stack) => Kept(stack, stack', {"write"})
                  /\ stack' = <<"readNone">> \o Tail(stack) => Kept(stack, stack', {"write"})
                  /\ stack' = <<e, g>> \o Tail(stack) => Kept(stack, stack', {"write"})
  <2>1. e \in Frames \ ReadFrames /\ g \in Frames \ ReadFrames BY Zenon, <1>f
  <2>2. e \in Frames \ {"write"} /\ g \in Frames \ {"write"} BY Zenon, <1>f
  <2>3. "write" \in Frames \ ReadFrames /\ "read" \in Frames \ {"write"}
        /\ "readNone" \in Frames \ {"write"}
    BY Zenon, <1>f
  <2>4. /\ stack' = stack => Safe
        /\ stack' = <<e>> \o stack => Safe
        /\ stack' = <<e, g>> \o stack => Safe
    BY Zenon, <1>s, <2>1, <2>2, OthersKeep
  <2>5. ASSUME stack # <<>>, Head(stack) \notin ReadFrames
        PROVE  /\ stack' = Tail(stack) => Kept(stack, stack', ReadFrames)
               /\ stack' = <<"write">> \o Tail(stack) => Kept(stack, stack', ReadFrames)
               /\ stack' = <<e, g>> \o Tail(stack) => Kept(stack, stack', ReadFrames)
    BY Zenon, <1>s, <2>1, <2>3, <2>5, OthersKeep
  <2>6. ASSUME stack # <<>>, Head(stack) # "write"
        PROVE  /\ stack' = Tail(stack) => Kept(stack, stack', {"write"})
               /\ stack' = <<"read">> \o Tail(stack) => Kept(stack, stack', {"write"})
               /\ stack' = <<"readNone">> \o Tail(stack) => Kept(stack, stack', {"write"})
               /\ stack' = <<e, g>> \o Tail(stack) => Kept(stack, stack', {"write"})
    <3>1. Head(stack) \notin {"write"} BY Zenon, <2>6
    <3> QED BY Zenon, <1>s, <2>2, <2>3, <2>6, <3>1, OthersKeep
  <2> HIDE DEF Safe
  <2> QED BY Zenon, <2>4, <2>5, <2>6
<1> HIDE DEF Safe
<1>n. "callW" \notin ReadFrames /\ "write" \notin ReadFrames /\ "startW" \notin ReadFrames
      /\ "startR" \notin ReadFrames /\ "callR" # "write" /\ "read" # "write" /\ "readNone" # "write"
      /\ "startW" # "write" /\ "startR" # "write"
  BY DEF ReadFrames
<1>2. CASE CallWrite
  <2>1. stack # <<>> /\ Head(stack) = "callW" /\ UNCHANGED duringRead BY Zenon, <1>2 DEF CallWrite, Top
  <2>2. stack' = Tail(stack) \/ stack' = <<"write">> \o Tail(stack)
    BY Zenon, <1>2 DEF CallWrite, Return
  <2> QED BY Zenon, <1>a, <1>n, <1>2, <2>1, <2>2
<1>3. CASE WriteExit
  <2>1. /\ stack # <<>> /\ Head(stack) = "write" /\ UNCHANGED duringRead /\ stack' = Tail(stack)
    BY Zenon, <1>3 DEF WriteExit, Top, Return
  <2> QED BY Zenon, <1>a, <1>n, <1>3, <2>1
<1>4. CASE StartLoop
  <2>1. stack # <<>> /\ (Head(stack) = "startW" \/ Head(stack) = "startR") /\ UNCHANGED duringRead
    BY Zenon, <1>4 DEF StartLoop, Top
  <2>2. \/ stack' = <<"callW", "startW">> \o Tail(stack)
        \/ stack' = <<"callR", "startR">> \o Tail(stack)
        \/ stack' = Tail(stack)
    BY Zenon, <1>4 DEF StartLoop
  <2> QED BY Zenon, <1>a, <1>n, <2>1, <2>2
<1>5. CASE CallRead \/ ReadNothing \/ ReadRetry \/ ReadExit
  <2>1. stack # <<>> /\ Head(stack) \in {"callR", "read", "readNone"}
    BY Zenon, <1>5 DEF CallRead, ReadNothing, ReadRetry, ReadExit, Top
  <2>2. \/ stack' = <<"read">> \o Tail(stack) \/ stack' = <<"readNone">> \o Tail(stack)
        \/ stack' = Tail(stack)
    BY Zenon, <1>5 DEF CallRead, ReadNothing, ReadRetry, ReadExit, Return
  <2> QED BY Zenon, <1>a, <1>n, <1>5, <2>1, <2>2
<1>6. CASE UNCHANGED duringRead
           /\ \/ stack' = stack
              \/ stack' = <<"callR">> \o stack \/ stack' = <<"callW">> \o stack
              \/ stack' = <<"callW", "callR">> \o stack
              \/ stack' = <<"callW", "startW">> \o stack
  <2>1. Safe BY Zenon, <1>a, <1>6
  <2> QED BY Zenon, <1>6, <2>1 DEF Safe
<1> QED BY Zenon, <1>2, <1>3, <1>4, <1>5, <1>6, StackMoves

\* The flag of the read loop says whether a read is in progress.
LEMMA ReadFramesStep ==
  ASSUME TypeOK, ReadLoop, [Next]_vars
  PROVE  AtMostOne(stack, ReadFrames)' /\ (duringRead > 0 <=> In(stack, ReadFrames))'
<1>s. stack \in Seq(Frames) /\ duringRead \in 0..2 BY Zenon DEF TypeOK, LoopType
<1>r. AtMostOne(stack, ReadFrames) /\ (duringRead > 0 <=> In(stack, ReadFrames)) BY Zenon DEF ReadLoop
<1>f. /\ "callR" \in Frames \ ReadFrames /\ "read" \in Frames /\ "readNone" \in Frames
      /\ "read" \in ReadFrames /\ "readNone" \in ReadFrames
  BY DEF Frames, ReadFrames
<1>p. ASSUME NEW s \in Seq(Frames), NEW e \in ReadFrames, ~In(s, ReadFrames), AtMostOne(s, ReadFrames)
      PROVE  In(<<e>> \o s, ReadFrames) /\ AtMostOne(<<e>> \o s, ReadFrames)
  <2>1. e \in Frames BY DEF ReadFrames, Frames
  <2> QED BY Zenon, <1>p, <2>1, StackIn, StackOnce
<1>t. ASSUME stack # <<>>
      PROVE  /\ Tail(stack) \in Seq(Frames) /\ AtMostOne(Tail(stack), ReadFrames)
             /\ Head(stack) \in ReadFrames => In(stack, ReadFrames) /\ ~In(Tail(stack), ReadFrames)
             /\ Head(stack) \notin ReadFrames => (In(Tail(stack), ReadFrames) <=> In(stack, ReadFrames))
  <2>1. "callR" \in Frames BY Zenon, <1>f
  <2> QED BY Zenon, <1>s, <1>r, <1>t, <2>1, StackIn, StackOnce
<1>1. CASE Kept(stack, stack', ReadFrames) /\ UNCHANGED duringRead BY Zenon, <1>1, <1>r DEF Kept
<1>2. CASE CallRead
  <2>1. stack # <<>> /\ Head(stack) = "callR" BY Zenon, <1>2 DEF CallRead, Top
  <2>2. \/ stack' = Tail(stack) /\ UNCHANGED duringRead
        \/ stack' = Tail(stack) /\ duringRead > 0 /\ duringRead' = 2
        \/ stack' = <<"read">> \o Tail(stack) /\ ~(duringRead > 0) /\ duringRead' = 1
    BY Zenon, <1>2 DEF CallRead, Return
  <2>3. duringRead' = 2 \/ duringRead' = 1 => duringRead' > 0 OBVIOUS
  <2>4. Head(stack) \notin ReadFrames BY Zenon, <1>f, <2>1
  <2> QED BY Zenon, <1>f, <1>r, <1>t, <1>p, <2>1, <2>2, <2>3, <2>4
<1>3. CASE ReadNothing
  <2>1. stack # <<>> /\ Head(stack) = "read" /\ stack' = <<"readNone">> \o Tail(stack)
        /\ UNCHANGED duringRead
    BY Zenon, <1>3 DEF ReadNothing, Top
  <2> QED BY Zenon, <1>f, <1>r, <1>t, <1>p, <2>1
<1>4. CASE ReadRetry
  <2>1. stack # <<>> /\ Head(stack) = "readNone" /\ stack' = <<"read">> \o Tail(stack)
        /\ duringRead' = 1
    BY Zenon, <1>4 DEF ReadRetry, Top
  <2>2. duringRead' > 0 BY <2>1
  <2> QED BY Zenon, <1>f, <1>t, <1>p, <2>1, <2>2
<1>5. CASE ReadExit
  <2>1. stack # <<>> /\ Head(stack) \in ReadFrames /\ stack' = Tail(stack) /\ duringRead' = 0
    BY Zenon, <1>5, <1>f DEF ReadExit, Top, Return
  <2>2. ~(duringRead' > 0) BY <2>1
  <2> QED BY Zenon, <1>t, <2>1, <2>2
<1> QED BY Zenon, <1>1, <1>2, <1>3, <1>4, <1>5, FramesKept

\* While a read is in progress its budget covers the tokens of every client.
LEMMA ReadBudgetStep ==
  ASSUME Inductive, ReadLoop, [Next]_vars
  PROVE  (running /\ In(stack, ReadFrames) =>
            \A c \in clients : maxTok = -1 \/ (FlowControl[c] /\ sendTokens[c] =< maxTok))'
<1> DEFINE Covers(c) == maxTok = -1 \/ (FlowControl[c] /\ sendTokens[c] =< maxTok)
<1>t. TypeOK /\ clients \in SUBSET Clients /\ sendTokens \in [Clients -> Nat]
      /\ maxTok \in Nat \cup {-1} /\ stack \in Seq(Frames)
  BY Zenon DEF Inductive, TypeOK, ClientType, LoopType
<1>r. running /\ In(stack, ReadFrames) => \A c \in clients : Covers(c) BY Zenon DEF ReadLoop
<1>f. FlowControl \in [Clients -> BOOLEAN] BY CharDeviceAssumption
<1>i. Idle => ~In(stack, ReadFrames) BY DEF Idle, In
<1>k. In(stack', ReadFrames) => In(stack, ReadFrames) \/ CallRead
  <2>1. ReadNothing \/ ReadRetry => In(stack, ReadFrames)
    <3>1. ReadNothing \/ ReadRetry => stack # <<>> /\ Head(stack) \in ReadFrames
      BY Zenon DEF ReadNothing, ReadRetry, Top, ReadFrames
    <3>2. "read" \in Frames BY DEF Frames
    <3> QED BY Zenon, <1>t, <3>1, <3>2, StackIn
  <2>2. ReadExit => In(stack, ReadFrames)
    <3>1. ReadExit => stack # <<>> /\ Head(stack) \in ReadFrames
      BY Zenon DEF ReadExit, Top, ReadFrames
    <3>2. "read" \in Frames BY DEF Frames
    <3> QED BY Zenon, <1>t, <3>1, <3>2, StackIn
  <2> QED BY Zenon, <1>t, <2>1, <2>2, FramesKept DEF Kept
<1> SUFFICES ASSUME running', In(stack', ReadFrames), NEW c \in clients' PROVE Covers(c)'
  OBVIOUS
<1>1. CASE UNCHANGED <<running, clients, sendTokens, maxTok>> /\ ~CallRead
  BY Zenon, <1>1, <1>k, <1>r
<1>2. CASE Idle /\ ~CallRead BY Zenon, <1>2, <1>k, <1>i
<1>3. CASE CallRead
  <2>1. CASE maxTok' \in MaxSendTokens
    <3>1. UNCHANGED <<clients, sendTokens>> BY Zenon, <1>3 DEF CallRead, cliVars
    <3>2. CASE \E d \in clients : ~FlowControl[d] BY Zenon, <2>1, <3>2 DEF MaxSendTokens
    <3>3. CASE \A d \in clients : FlowControl[d]
      <4>1. clients # {} BY Zenon, <3>1
      <4>2. maxTok' \in {m \in {sendTokens[d] : d \in clients} : \A d \in clients : sendTokens[d] =< m}
        BY Zenon, <2>1, <3>3, <4>1 DEF MaxSendTokens
      <4>3. FlowControl[c] /\ sendTokens'[c] =< maxTok' BY Zenon, <3>1, <3>3, <4>2
      <4> QED BY Zenon, <4>3
    <3> QED BY Zenon, <1>f, <1>t, <3>2, <3>3
  <2>2. CASE UNCHANGED maxTok /\ stack' = Tail(stack)
    <3>1. stack # <<>> /\ UNCHANGED <<clients, sendTokens, running>>
      BY Zenon, <1>3 DEF CallRead, cliVars, ctlVars, Top
    <3>2. "read" \in Frames BY DEF Frames
    <3>3. In(stack, ReadFrames) BY Zenon, <1>t, <2>2, <3>1, <3>2, StackIn
    <3> QED BY Zenon, <1>r, <2>2, <3>1, <3>3
  <2> QED BY Zenon, <1>3, <2>1, <2>2 DEF CallRead, Return
<1>4. CASE ReadMessage
  <2>1. UNCHANGED <<running, clients, stack>> /\ maxTok' = DecMax(maxTok) /\ ReadAgain
    BY Zenon, <1>4 DEF ReadMessage, ctlVars
  <2>2. sendTokens'[c] = IF CanSendToClient(c) /\ FlowControl[c] THEN sendTokens[c] - 1 ELSE sendTokens[c]
    BY Zenon, <1>4, <1>t, <2>1 DEF ReadMessage
  <2>3. Covers(c) BY Zenon, <1>r, <2>1
  <2>4. CASE maxTok = -1 BY <2>1, <2>4 DEF DecMax
  <2>5. CASE maxTok # -1
    <3>1. maxTok # 0 /\ maxTok \in Nat BY <1>t, <2>1, <2>5 DEF ReadAgain
    <3>2. FlowControl[c] /\ sendTokens[c] =< maxTok /\ sendTokens[c] \in Nat
      BY Zenon, <1>t, <2>1, <2>3, <2>5
    <3>3. sendTokens[c] > 0 => sendTokens'[c] = sendTokens[c] - 1
      BY Zenon, <2>2, <3>2 DEF CanSendToClient
    <3>4. ~(sendTokens[c] > 0) => sendTokens'[c] = sendTokens[c]
      BY Zenon, <2>2, <3>2 DEF CanSendToClient
    <3>5. maxTok' = maxTok - 1 BY Zenon, <2>1, <2>5 DEF DecMax
    <3>6. sendTokens'[c] =< maxTok' BY <3>1, <3>2, <3>3, <3>4, <3>5
    <3> QED BY Zenon, <3>2, <3>6
  <2> QED BY Zenon, <2>4, <2>5
<1>5. CASE ReadExit
  <2>1. stack # <<>> /\ Head(stack) \in ReadFrames /\ stack' = Tail(stack)
    BY Zenon, <1>5 DEF ReadExit, Top, ReadFrames, Return
  <2>2. "read" \in Frames BY DEF Frames
  <2>3. ~In(Tail(stack), ReadFrames) BY Zenon, <1>t, <2>1, <2>2, StackOnce DEF ReadLoop
  <2> QED BY Zenon, <2>1, <2>3
<1>6. ASSUME NEW d \in Clients, ClientRemove(d), Top("read") PROVE Covers(c)'
  <2>1. UNCHANGED <<running, maxTok>> /\ clients' = clients \ {d}
        /\ sendTokens' = [sendTokens EXCEPT ![d] = 0]
    BY Zenon, <1>6 DEF ClientRemove
  <2>2. c \in clients /\ sendTokens'[c] = sendTokens[c] BY Zenon, <1>t, <2>1
  <2>3. ~CallRead
    <3>1. "read" # "callR" OBVIOUS
    <3> QED BY Zenon, <1>6, <3>1 DEF CallRead, Top
  <2> QED BY Zenon, <1>k, <1>r, <2>1, <2>2, <2>3
<1>7. CASE Reset \/ Stop BY Zenon, <1>7 DEF Reset, Stop
<1>8. CASE DeviceLoops
  BY Zenon, <1>1, <1>3, <1>4, <1>5, <1>8 DEF DeviceLoops, ReadNothing, ReadRetry, CallWrite,
     WritePop, WriteSome, WriteDone, WriteRetry, WriteExit, StartLoop, ctlVars, cliVars, loopVars
<1>9. CASE ClientOps
  <2>1. ASSUME NEW d \in Clients, NEW n \in 1..MaxSend, NEW b, TokensAbsorb(d, n, b) PROVE Idle
    BY Zenon, <2>1 DEF TokensAbsorb
  <2>2. ASSUME NEW d \in Clients, TokensTimeout(d) PROVE Idle BY Zenon, <2>2 DEF TokensTimeout
  <2>3. ASSUME NEW d \in Clients, NEW b \in Bufs, WriteBufferGetClient(d, b) PROVE Idle
    BY Zenon, <2>3 DEF WriteBufferGetClient
  <2>4. ASSUME NEW b \in Bufs, WriteBufferAdd(b) PROVE Idle BY Zenon, <2>4 DEF WriteBufferAdd
  <2>5. ASSUME NEW b \in Bufs, WriteBufferRelease(b) PROVE Idle BY Zenon, <2>5 DEF WriteBufferRelease
  <2>6. ASSUME NEW d \in Clients, NEW wait \in BOOLEAN, NEW send \in 0..MaxSend,
               ClientAdd(d, wait, send)
        PROVE  Idle
    BY Zenon, <2>6 DEF ClientAdd
  <2>7. Idle \/ \E d \in Clients : ClientRemove(d) /\ Top("read")
    BY Zenon, <1>9, <2>1, <2>2, <2>3, <2>4, <2>5, <2>6 DEF ClientOps, ClientRemove
  <2>8. Idle => ~CallRead BY Zenon DEF CallRead, Top, Idle
  <2> QED BY Zenon, <1>2, <1>6, <2>7, <2>8
<1>10. CASE DeviceOps
  <2>1. CASE WriteTimerFires \/ Start BY Zenon, <2>1, <1>2 DEF WriteTimerFires, Start, CallRead, Top, Idle
  <2>2. ASSUME NEW v \in BOOLEAN, Attach(v) PROVE Idle BY Zenon, <2>2 DEF Attach
  <2>3. ASSUME NEW d \in Clients, NEW b \in Bufs, NEW m \in MigData, NEW send \in 0..MaxSend,
               Restore(d, b, m.client, m.write, m.size, send)
        PROVE  Idle
    BY Zenon, <2>3 DEF Restore
  <2>4. ASSUME NEW b \in Bufs, NEW v \in BOOLEAN, ServerMessage(b, v) PROVE Idle
    BY Zenon, <2>4 DEF ServerMessage
  <2>5. CASE Wakeup \/ DeviceProduces
    <3>1. UNCHANGED <<running, clients, sendTokens, maxTok>>
      BY Zenon, <2>5 DEF Wakeup, DeviceProduces, ctlVars, cliVars, loopVars
    <3> QED BY Zenon, <1>1, <1>3, <3>1
  <2>6. Idle => ~CallRead BY Zenon DEF CallRead, Top, Idle
  <2> QED BY Zenon, <1>2, <1>7, <1>10, <2>1, <2>2, <2>3, <2>4, <2>5, <2>6 DEF DeviceOps
<1> QED BY Zenon, <1>1, <1>3, <1>8, <1>9, <1>10 DEF Next, vars, ctlVars, cliVars, loopVars

\* The calls after which the device will have been read.
ToRead == {"callR", "startW", "read"}

\* No operation forgets a message that a client can take.
LEMMA WakeupStep ==
  ASSUME Inductive, ReadLoop, WakeupPending, [Next]_vars
  PROVE  WakeupPending'
<1> DEFINE Wanted == /\ running /\ attached /\ ~waitMig /\ avail > 0
                     /\ \E c \in clients : CanSendToClient(c)
           Due == In(stack, ToRead) \/ (In(stack, {"readNone"}) /\ duringRead > 1)
<1>g. WakeupPending <=> (Wanted => signal \/ Due) BY Zenon DEF WakeupPending, ToRead
<1>h. WakeupPending' <=> (Wanted' => signal' \/ Due') BY Zenon DEF WakeupPending, ToRead
<1>t. TypeOK /\ stack \in Seq(Frames) /\ clients \in SUBSET Clients BY Zenon DEF Inductive, TypeOK, ClientType
<1>c. ClientType BY Zenon DEF Inductive, TypeOK
<1>f. /\ {"callR", "callW", "startW", "startR", "read", "write", "readNone"} \subseteq Frames
      /\ "callR" \in ToRead /\ "startW" \in ToRead /\ "read" \in ToRead
      /\ "callW" \notin ToRead /\ "write" \notin ToRead /\ "startR" \notin ToRead /\ "readNone" \notin ToRead
      /\ "callW" \notin {"readNone"} /\ "write" \notin {"readNone"} /\ "startR" \notin {"readNone"}
      /\ "callR" \notin {"readNone"} /\ "startW" \notin {"readNone"}
      /\ "callR" \notin ReadFrames
  BY DEF Frames, ToRead, ReadFrames
<1>p. ASSUME NEW F, NEW s \in Seq(Frames), NEW e \in Frames, NEW g \in Frames
      PROVE  /\ In(s, F) => In(<<e>> \o s, F) /\ In(<<e, g>> \o s, F)
             /\ e \in F => In(<<e>> \o s, F) /\ In(<<e, g>> \o s, F)
             /\ g \in F => In(<<e, g>> \o s, F)
  BY Zenon, StackIn
<1>q. ASSUME stack # <<>>
      PROVE  /\ Tail(stack) \in Seq(Frames)
             /\ \A F : In(stack, F) <=> Head(stack) \in F \/ In(Tail(stack), F)
  <2>1. "callR" \in Frames BY Zenon, <1>f
  <2> QED BY Zenon, <1>t, <1>q, <2>1, StackIn
<1>m. ASSUME \/ stack' = stack \/ stack' = <<"callR">> \o stack \/ stack' = <<"callW">> \o stack
             \/ stack' = <<"callW", "callR">> \o stack \/ stack' = <<"callW", "startW">> \o stack,
             UNCHANGED duringRead, Due
      PROVE  Due'
  <2>1. "callR" \in Frames /\ "callW" \in Frames /\ "startW" \in Frames BY Zenon, <1>f
  <2>2. ASSUME NEW F, In(stack, F) PROVE In(stack', F)
    <3>1. In(<<"callR">> \o stack, F) BY Zenon, <1>t, <1>p, <2>1, <2>2
    <3>2. In(<<"callW">> \o stack, F) BY Zenon, <1>t, <1>p, <2>1, <2>2
    <3>3. In(<<"callW", "callR">> \o stack, F) BY Zenon, <1>t, <1>p, <2>1, <2>2
    <3>4. In(<<"callW", "startW">> \o stack, F) BY Zenon, <1>t, <1>p, <2>1, <2>2
    <3> QED BY Zenon, <1>m, <2>2, <3>1, <3>2, <3>3, <3>4
  <2> QED BY Zenon, <1>m, <2>2
<1>n. ASSUME stack' = <<"callR">> \o stack \/ stack' = <<"callW", "callR">> \o stack
             \/ stack' = <<"callW", "startW">> \o stack
      PROVE  Due'
  <2>1. "callR" \in Frames /\ "callW" \in Frames /\ "startW" \in Frames BY Zenon, <1>f
  <2>2. "callR" \in ToRead /\ "startW" \in ToRead BY Zenon, <1>f
  <2>3. In(<<"callR">> \o stack, ToRead) BY Zenon, <1>t, <1>p, <2>1, <2>2
  <2>4. In(<<"callW", "callR">> \o stack, ToRead) BY Zenon, <1>t, <1>p, <2>1, <2>2
  <2>5. In(<<"callW", "startW">> \o stack, ToRead) BY Zenon, <1>t, <1>p, <2>1, <2>2
  <2> QED BY Zenon, <1>n, <2>3, <2>4, <2>5
<1> HIDE DEF Wanted, Due
<1> DEFINE Pushes == \/ stack' = stack \/ stack' = <<"callR">> \o stack \/ stack' = <<"callW">> \o stack
                     \/ stack' = <<"callW", "callR">> \o stack \/ stack' = <<"callW", "startW">> \o stack
<1>a. ASSUME Wanted' => Wanted, signal => signal', UNCHANGED duringRead, Pushes PROVE WakeupPending'
  BY Zenon, <1>g, <1>h, <1>m, <1>a
<1>b. ASSUME ~Wanted' \/ signal' \/ Due' PROVE WakeupPending' BY Zenon, <1>h, <1>b
<1>w. ASSUME UNCHANGED <<ctlVars, cliVars>>, avail' = avail PROVE Wanted' <=> Wanted
  BY Zenon, <1>w DEF Wanted, ctlVars, cliVars, CanSendToClient
<1>1. CASE CallRead
  <2>1. stack # <<>> /\ Head(stack) = "callR" /\ UNCHANGED <<ctlVars, cliVars, envVars>>
    BY Zenon, <1>1 DEF CallRead, Top
  <2>2. CASE ~running \/ waitMig \/ ~attached
    BY Zenon, <1>b, <2>1, <2>2 DEF Wanted, ctlVars
  <2>3. CASE stack' = Tail(stack) /\ duringRead > 0 /\ duringRead' = 2
    <3>1. In(stack, ReadFrames) BY Zenon, <2>3 DEF ReadLoop
    <3>2. In(Tail(stack), ReadFrames) BY Zenon, <1>f, <1>q, <2>1, <3>1
    <3>3. In(stack', {"read"}) \/ In(stack', {"readNone"}) BY Zenon, <2>3, <3>2 DEF In, ReadFrames
    <3>4. In(stack', {"read"}) => In(stack', ToRead) BY Zenon DEF In, ToRead
    <3>5. duringRead' > 1 BY <2>3
    <3> QED BY Zenon, <1>b, <3>3, <3>4, <3>5 DEF Due
  <2>4. CASE stack' = <<"read">> \o Tail(stack)
    <3>1. "read" \in Frames BY Zenon, <1>f
    <3>2. In(stack', ToRead) BY Zenon, <1>f, <1>p, <1>q, <2>1, <2>4, <3>1
    <3> QED BY Zenon, <1>b, <3>2 DEF Due
  <2> QED BY Zenon, <1>1, <2>2, <2>3, <2>4 DEF CallRead, Return
<1>2. CASE ReadMessage
  <2>1. stack # <<>> /\ Head(stack) = "read" /\ stack' = stack BY Zenon, <1>2 DEF ReadMessage, Top
  <2>2. In(stack', ToRead) BY Zenon, <1>f, <1>q, <2>1
  <2> QED BY Zenon, <1>b, <2>2 DEF Due
<1>3. CASE ReadNothing
  <2>1. avail' = 0 BY Zenon, <1>3 DEF ReadNothing, envVars
  <2>2. ~(avail' > 0) BY <2>1
  <2> QED BY Zenon, <1>b, <2>2 DEF Wanted
<1>4. CASE ReadRetry
  <2>1. stack # <<>> /\ stack' = <<"read">> \o Tail(stack) BY Zenon, <1>4 DEF ReadRetry, Top
  <2>2. "read" \in Frames BY Zenon, <1>f
  <2>3. In(stack', ToRead) BY Zenon, <1>f, <1>p, <1>q, <2>1, <2>2
  <2> QED BY Zenon, <1>b, <2>3 DEF Due
<1>5. CASE ReadExit
  <2>1. stack # <<>> /\ stack' = Tail(stack) /\ UNCHANGED <<running, attached, waitMig, cliVars, envVars>>
    BY Zenon, <1>5 DEF ReadExit, Top, Return
  <2>w. Wanted' <=> Wanted BY Zenon, <2>1 DEF Wanted, cliVars, envVars, CanSendToClient
  <2>2. CASE Head(stack) = "read" /\ ~ReadAgain
    <3>1. In(stack, ReadFrames) BY Zenon, <1>q, <2>1, <2>2 DEF ReadFrames
    <3>2. ASSUME running, NEW c \in clients, CanSendToClient(c) PROVE FALSE
      <4>1. maxTok = 0 BY Zenon, <2>2, <3>2 DEF ReadAgain
      <4>2. maxTok = -1 \/ (FlowControl[c] /\ sendTokens[c] =< maxTok)
        BY Zenon, <3>1, <3>2 DEF ReadLoop
      <4>3. sendTokens[c] \in Nat BY Zenon, <1>c, <1>t DEF ClientType
      <4>4. FlowControl[c] /\ sendTokens[c] =< 0 BY <4>1, <4>2
      <4>5. ~(sendTokens[c] > 0) BY <4>3, <4>4
      <4> QED BY Zenon, <3>2, <4>4, <4>5 DEF CanSendToClient
    <3> QED BY Zenon, <1>b, <2>w, <3>2 DEF Wanted
  <2>3. CASE Head(stack) = "readNone" /\ ~(duringRead > 1)
    <3>1. Wanted' => signal \/ In(stack, ToRead) BY Zenon, <1>g, <2>3, <2>w DEF Due
    <3>2. In(stack, ToRead) => In(stack', ToRead) BY Zenon, <1>f, <1>q, <2>1, <2>3
    <3> QED BY Zenon, <1>h, <2>1, <3>1, <3>2 DEF envVars, Due
  <2> QED BY Zenon, <1>5, <2>2, <2>3 DEF ReadExit, Top, WokenDuringRead
<1>6. CASE CallWrite \/ WriteExit \/ StartLoop
  <2>1. stack # <<>> /\ UNCHANGED <<running, waitMig, attached, cliVars, envVars, duringRead>>
    BY Zenon, <1>6 DEF CallWrite, WriteExit, StartLoop, Top, ctlVars
  <2>w. Wanted' <=> Wanted BY Zenon, <2>1 DEF Wanted, cliVars, envVars, CanSendToClient
  <2>k. ASSUME \A F \in {ToRead, {"readNone"}} : In(stack, F) => In(stack', F) PROVE WakeupPending'
    <3>1. Due => Due' BY Zenon, <2>1, <2>k DEF Due
    <3> QED BY Zenon, <1>g, <1>h, <2>1, <2>w, <3>1 DEF envVars
  <2>2. ASSUME NEW F \in {ToRead, {"readNone"}}, In(stack, F), Head(stack) \notin F PROVE In(Tail(stack), F)
    BY Zenon, <1>q, <2>1, <2>2
  <2>3. CASE CallWrite
    <3>1. Head(stack) = "callW" /\ (stack' = Tail(stack) \/ stack' = <<"write">> \o Tail(stack))
      BY Zenon, <2>3 DEF CallWrite, Top, Return
    <3>2. "write" \in Frames BY Zenon, <1>f
    <3>3. ASSUME NEW F \in {ToRead, {"readNone"}}, In(stack, F) PROVE In(stack', F)
      <4>1. "callW" \notin F BY Zenon, <1>f
      <4>2. In(Tail(stack), F) BY Zenon, <2>2, <3>1, <3>3, <4>1
      <4>3. Tail(stack) \in Seq(Frames) BY Zenon, <1>q, <2>1
      <4>4. In(<<"write">> \o Tail(stack), F) BY Zenon, <1>p, <3>2, <4>2, <4>3
      <4> QED BY Zenon, <3>1, <4>2, <4>4
    <3> QED BY Zenon, <2>k, <3>3
  <2>4. CASE WriteExit
    <3>1. Head(stack) = "write" /\ stack' = Tail(stack) BY Zenon, <2>4 DEF WriteExit, Top, Return
    <3>2. ASSUME NEW F \in {ToRead, {"readNone"}}, In(stack, F) PROVE In(stack', F)
      <4>1. "write" \notin F BY Zenon, <1>f
      <4> QED BY Zenon, <2>2, <3>1, <3>2, <4>1
    <3> QED BY Zenon, <2>k, <3>2
  <2>5. CASE StartLoop
    <3>1. \/ stack' = <<"callW", "startW">> \o Tail(stack)
          \/ stack' = <<"callR", "startR">> \o Tail(stack)
          \/ stack' = Tail(stack) /\ Head(stack) = "startR"
      BY Zenon, <2>5 DEF StartLoop, Top
    <3>2. "callW" \in Frames /\ "startW" \in Frames /\ "callR" \in Frames /\ "startR" \in Frames
      BY Zenon, <1>f
    <3>3. CASE stack' = Tail(stack) /\ Head(stack) = "startR"
      <4>2. ASSUME NEW F \in {ToRead, {"readNone"}}, In(stack, F) PROVE In(stack', F)
        <5>1. "startR" \notin F BY Zenon, <1>f
        <5> QED BY Zenon, <2>2, <3>3, <4>2, <5>1
      <4> QED BY Zenon, <2>k, <4>2
    <3>4. CASE \/ stack' = <<"callW", "startW">> \o Tail(stack)
               \/ stack' = <<"callR", "startR">> \o Tail(stack)
      <4>2. Tail(stack) \in Seq(Frames) BY Zenon, <1>q, <2>1
      <4>3. "callR" \in ToRead /\ "startW" \in ToRead BY Zenon, <1>f
      <4>4. In(<<"callW", "startW">> \o Tail(stack), ToRead) BY Zenon, <1>p, <3>2, <4>2, <4>3
      <4>5. In(<<"callR", "startR">> \o Tail(stack), ToRead) BY Zenon, <1>p, <3>2, <4>2, <4>3
      <4>1. In(stack', ToRead) BY Zenon, <3>4, <4>4, <4>5
      <4> QED BY Zenon, <1>b, <4>1 DEF Due
    <3> QED BY Zenon, <3>1, <3>3, <3>4
  <2> QED BY Zenon, <1>6, <2>3, <2>4, <2>5
<1>7. CASE WritePop \/ WriteSome \/ WriteDone \/ WriteRetry
  <2>1. UNCHANGED <<ctlVars, clients, sendTokens, envVars, stack, duringRead>>
    BY Zenon, <1>7 DEF WritePop, WriteSome, WriteDone, WriteRetry, cliVars, loopVars
  <2>2. Wanted' => Wanted BY Zenon, <2>1 DEF Wanted, ctlVars, envVars, CanSendToClient
  <2> QED BY Zenon, <1>a, <2>1, <2>2 DEF envVars
<1>8. ASSUME NEW c \in Clients, NEW n \in 1..MaxSend, NEW r \in BOOLEAN, TokensAbsorb(c, n, r)
      PROVE  WakeupPending'
  <2> DEFINE base == (IF r THEN 0 ELSE sendTokens[c]) + n
             k == SendQueuePush(c, base)
  <2>1. /\ stack = <<>> /\ FlowControl[c] /\ UNCHANGED <<ctlVars, clients, envVars, duringRead>>
        /\ sendTokens' = [sendTokens EXCEPT ![c] = base - k]
        /\ stack' = IF base > k THEN <<"callR">> ELSE <<>>
    BY Zenon, <1>8 DEF TokensAbsorb, Idle
  <2>2. base \in Nat /\ k \in Nat /\ k =< base
    <3>1. sendTokens[c] \in Nat /\ sendQueue[c] \in Nat BY Zenon, <1>c DEF ClientType
    <3>2. n \in Nat BY CharDeviceAssumption
    <3>3. base \in Nat BY <3>1, <3>2
    <3> HIDE DEF base
    <3> QED BY <3>1, <3>3 DEF SendQueuePush
  <2> HIDE DEF base, k
  <2>3. CASE base > k
    <3>1. stack' = <<"callR">> \o stack
      <4>1. <<"callR">> = <<"callR">> \o <<>> OBVIOUS
      <4> QED BY Zenon, <2>1, <2>3, <4>1
    <3> QED BY Zenon, <1>b, <1>n, <3>1
  <2>4. CASE ~(base > k)
    <3>1. stack' = stack BY Zenon, <2>1, <2>4
    <3>2. sendTokens'[c] = base - k BY Zenon, <1>c, <2>1 DEF ClientType
    <3>3. ~(sendTokens'[c] > 0) BY <2>2, <2>4, <3>2
    <3>4. ASSUME NEW d \in clients, CanSendToClient(d)' PROVE CanSendToClient(d)
      <4>1. d # c BY Zenon, <2>1, <3>3, <3>4 DEF CanSendToClient
      <4>2. sendTokens'[d] = sendTokens[d] BY Zenon, <1>c, <1>t, <2>1, <4>1 DEF ClientType
      <4> QED BY Zenon, <3>4, <4>2 DEF CanSendToClient
    <3>5. Wanted' => Wanted BY Zenon, <2>1, <3>4 DEF Wanted, ctlVars, envVars
    <3> QED BY Zenon, <1>a, <2>1, <3>1, <3>5 DEF envVars
  <2> QED BY Zenon, <2>3, <2>4
<1>9. ASSUME NEW c \in Clients, ClientRemove(c) PROVE WakeupPending'
  <2>1. /\ UNCHANGED <<running, attached, envVars, duringRead>> /\ clients' = clients \ {c}
        /\ sendTokens' = [sendTokens EXCEPT ![c] = 0]
        /\ IF waitMig THEN stack' = <<"callR">> \o stack ELSE UNCHANGED <<waitMig, stack>>
    BY Zenon, <1>9 DEF ClientRemove, Call
  <2>2. CASE waitMig BY Zenon, <1>b, <1>n, <2>1, <2>2
  <2>3. CASE ~waitMig
    <3>1. ASSUME NEW d \in clients', CanSendToClient(d)' PROVE d \in clients /\ CanSendToClient(d)
      <4>1. d \in clients /\ d # c BY Zenon, <2>1
      <4>2. sendTokens'[d] = sendTokens[d] BY Zenon, <1>c, <1>t, <2>1, <4>1 DEF ClientType
      <4> QED BY Zenon, <3>1, <4>1, <4>2 DEF CanSendToClient
    <3>2. Wanted' => Wanted BY Zenon, <2>1, <2>3, <3>1 DEF Wanted, envVars
    <3> QED BY Zenon, <1>a, <2>1, <2>3, <3>2 DEF envVars
  <2> QED BY Zenon, <2>2, <2>3
<1>10. CASE ClientOps
  <2>1. ASSUME NEW c \in Clients, TokensTimeout(c) PROVE WakeupPending'
    <3>1. UNCHANGED <<ctlVars, clients, sendTokens, envVars, stack, duringRead>>
      BY Zenon, <2>1 DEF TokensTimeout, loopVars
    <3>2. Wanted' => Wanted BY Zenon, <3>1 DEF Wanted, ctlVars, envVars, CanSendToClient
    <3> QED BY Zenon, <1>a, <3>1, <3>2 DEF envVars
  <2>2. ASSUME NEW c \in Clients, NEW b \in Bufs, WriteBufferGetClient(c, b) PROVE WakeupPending'
    <3>1. UNCHANGED <<ctlVars, clients, sendTokens, envVars, stack, duringRead>>
      BY Zenon, <2>2 DEF WriteBufferGetClient, loopVars
    <3>2. Wanted' => Wanted BY Zenon, <3>1 DEF Wanted, ctlVars, envVars, CanSendToClient
    <3> QED BY Zenon, <1>a, <3>1, <3>2 DEF envVars
  <2>3. ASSUME NEW b \in Bufs, WriteBufferAdd(b) PROVE WakeupPending'
    <3>1. UNCHANGED <<ctlVars, cliVars, envVars, duringRead>> /\ stack' = <<"callW">> \o stack
      BY Zenon, <2>3 DEF WriteBufferAdd, Call
    <3> QED BY Zenon, <1>a, <1>w, <3>1 DEF envVars
  <2>4. ASSUME NEW b \in Bufs, WriteBufferRelease(b) PROVE WakeupPending'
    <3>1. UNCHANGED <<ctlVars, clients, sendTokens, envVars, stack, duringRead>>
      BY Zenon, <2>4 DEF WriteBufferRelease, loopVars
    <3>2. Wanted' => Wanted BY Zenon, <3>1 DEF Wanted, ctlVars, envVars, CanSendToClient
    <3> QED BY Zenon, <1>a, <3>1, <3>2 DEF envVars
  <2>5. ASSUME NEW c \in Clients, NEW wait \in BOOLEAN, NEW send \in 0..MaxSend,
               ClientAdd(c, wait, send)
        PROVE  WakeupPending'
    <3>1. stack' = <<"callW", "callR">> \o stack BY Zenon, <2>5 DEF ClientAdd, Call
    <3> QED BY Zenon, <1>b, <1>n, <3>1
  <2> QED BY Zenon, <1>8, <1>9, <1>10, <2>1, <2>2, <2>3, <2>4, <2>5 DEF ClientOps
<1>11. CASE DeviceOps
  <2>1. ASSUME NEW b \in Bufs, NEW t \in BOOLEAN, ServerMessage(b, t) PROVE WakeupPending'
    <3>1. /\ UNCHANGED <<ctlVars, cliVars, envVars, duringRead>>
          /\ stack' = stack \/ stack' = <<"callW">> \o stack
      BY Zenon, <2>1 DEF ServerMessage, Call
    <3> QED BY Zenon, <1>a, <1>w, <3>1 DEF envVars
  <2>2. CASE WriteTimerFires
    <3>1. UNCHANGED <<ctlVars, cliVars, envVars, duringRead>> /\ stack' = <<"callW">> \o stack
      BY Zenon, <2>2 DEF WriteTimerFires, Call
    <3> QED BY Zenon, <1>a, <1>w, <3>1 DEF envVars
  <2>3. CASE Start \/ Wakeup
    <3>1. stack' = <<"callW", "startW">> \o stack \/ stack' = <<"callW", "callR">> \o stack
      BY Zenon, <2>3 DEF Start, Wakeup, Call
    <3> QED BY Zenon, <1>b, <1>n, <3>1
  <2>4. CASE Stop \/ Reset BY Zenon, <1>b, <2>4 DEF Stop, Reset, Wanted
  <2>5. ASSUME NEW v \in BOOLEAN, Attach(v) PROVE WakeupPending'
    <3>1. stack = <<>> /\ running' = v /\ (v => stack' = <<"callW", "startW">>)
      BY Zenon, <2>5 DEF Attach, Idle
    <3>2. <<"callW", "startW">> = <<"callW", "startW">> \o <<>> OBVIOUS
    <3> QED BY Zenon, <1>b, <1>n, <3>1, <3>2 DEF Wanted
  <2>6. ASSUME NEW c \in Clients, NEW b \in Bufs, NEW m \in MigData, NEW send \in 0..MaxSend,
               Restore(c, b, m.client, m.write, m.size, send)
        PROVE  WakeupPending'
    <3>1. stack' = <<"callW", "callR">> \o stack BY Zenon, <2>6 DEF Restore, Call
    <3> QED BY Zenon, <1>b, <1>n, <3>1
  <2>7. CASE DeviceProduces BY Zenon, <1>b, <2>7 DEF DeviceProduces
  <2> QED BY Zenon, <1>11, <2>1, <2>2, <2>3, <2>4, <2>5, <2>6, <2>7 DEF DeviceOps
<1>12. CASE UNCHANGED vars
  <2>1. UNCHANGED <<ctlVars, cliVars, envVars, stack, duringRead>> BY Zenon, <1>12 DEF vars, loopVars
  <2> QED BY Zenon, <1>a, <1>w, <2>1 DEF envVars
<1> QED BY Zenon, <1>1, <1>2, <1>3, <1>4, <1>5, <1>6, <1>7, <1>10, <1>11, <1>12 DEF Next, DeviceLoops

\* A write is in progress when during_write_to_device says so.
LEMMA WriteLoopStep == ASSUME TypeOK, WriteLoop, [Next]_vars PROVE WriteLoop'
<1>t. stack \in Seq(Frames) /\ "write" \in Frames BY Zenon DEF TypeOK, Frames
<1>h. ASSUME stack # <<>>
      PROVE  /\ Tail(stack) \in Seq(Frames)
             /\ In(stack, {"write"}) <=> Head(stack) \in {"write"} \/ In(Tail(stack), {"write"})
  BY Zenon, <1>t, <1>h, StackIn
<1>1. CASE CallWrite
  <2>1. stack # <<>> /\ Head(stack) = "callW" BY Zenon, <1>1 DEF CallWrite, Top
  <2>2. \/ stack' = Tail(stack) /\ (duringWrite' > 0 => duringWrite > 0)
        \/ stack' = <<"write">> \o Tail(stack)
    BY Zenon, <1>1 DEF CallWrite, Return
  <2>3. "callW" \notin {"write"} OBVIOUS
  <2>4. In(<<"write">> \o Tail(stack), {"write"}) BY Zenon, <1>h, <1>t, <2>1, StackIn
  <2> QED BY Zenon, <1>h, <2>1, <2>2, <2>3, <2>4 DEF WriteLoop
<1>2. CASE WriteExit
  <2>1. ~(duringWrite' > 0)
    <3>1. duringWrite' = 0 BY Zenon, <1>2 DEF WriteExit
    <3> QED BY <3>1
  <2> QED BY Zenon, <2>1 DEF WriteLoop
<1>3. CASE WriteDone \/ WriteRetry
  <2>1. stack # <<>> /\ Head(stack) = "write" /\ stack' = stack
    BY Zenon, <1>3 DEF WriteDone, WriteRetry, Top
  <2> QED BY Zenon, <1>h, <2>1 DEF WriteLoop
<1>4. CASE UNCHANGED duringWrite /\ ~CallWrite /\ ~WriteExit
  BY Zenon, <1>4, FramesKept DEF WriteLoop, Kept
<1>5. CASE DeviceLoops
  BY Zenon, <1>1, <1>2, <1>3, <1>4, <1>5 DEF DeviceLoops, CallRead, ReadMessage, ReadNothing,
     ReadRetry, ReadExit, WritePop, WriteSome, StartLoop, loopVars
<1>6. CASE ClientOps
  <2>1. UNCHANGED duringWrite
    BY Zenon, <1>6 DEF ClientOps, TokensAbsorb, TokensTimeout, WriteBufferGetClient, WriteBufferAdd,
       WriteBufferRelease, ClientAdd, ClientRemove, loopVars
  <2> QED BY Zenon, <1>1, <1>2, <1>4, <2>1
<1>7. CASE DeviceOps
  <2>1. UNCHANGED duringWrite
    BY Zenon, <1>7 DEF DeviceOps, ServerMessage, WriteTimerFires, Start, Stop, Reset, Attach, Restore,
       Wakeup, DeviceProduces, loopVars
  <2> QED BY Zenon, <1>1, <1>2, <1>4, <2>1
<1> QED BY Zenon, <1>1, <1>2, <1>4, <1>5, <1>6, <1>7 DEF Next, vars, loopVars

\* Migration data is expected only while one client is attached.
LEMMA OneRestoredStep == ASSUME Inductive, OneRestored, [Next]_vars PROVE OneRestored'
<1>a. ASSUME UNCHANGED clients, waitMig' => waitMig PROVE OneRestored' BY Zenon, <1>a DEF OneRestored
<1>1. CASE DeviceLoops
  BY Zenon, <1>a, <1>1 DEF DeviceLoops, CallRead, ReadMessage, ReadNothing, ReadRetry, ReadExit,
     CallWrite, WritePop, WriteSome, WriteDone, WriteRetry, WriteExit, StartLoop, ctlVars, cliVars
<1>2. ASSUME NEW c \in Clients, NEW wait \in BOOLEAN, NEW send \in 0..MaxSend,
             ClientAdd(c, wait, send)
      PROVE  OneRestored'
  BY Zenon, <1>2 DEF ClientAdd, OneRestored
<1>3. ASSUME NEW c \in Clients, ClientRemove(c) PROVE OneRestored'
  <2>1. ~waitMig' BY Zenon, <1>3 DEF ClientRemove
  <2> QED BY Zenon, <2>1 DEF OneRestored
<1>4. CASE ClientOps
  <2>1. ASSUME NEW c \in Clients, NEW n \in 1..MaxSend, NEW r \in BOOLEAN, TokensAbsorb(c, n, r)
        PROVE  OneRestored'
    BY Zenon, <1>a, <2>1 DEF TokensAbsorb, ctlVars
  <2>2. ASSUME NEW c \in Clients, TokensTimeout(c) PROVE OneRestored'
    BY Zenon, <1>a, <2>2 DEF TokensTimeout, ctlVars
  <2>3. ASSUME NEW c \in Clients, NEW b \in Bufs, WriteBufferGetClient(c, b) PROVE OneRestored'
    BY Zenon, <1>a, <2>3 DEF WriteBufferGetClient, ctlVars
  <2>4. ASSUME NEW b \in Bufs, WriteBufferAdd(b) \/ WriteBufferRelease(b) PROVE OneRestored'
    BY Zenon, <1>a, <2>4 DEF WriteBufferAdd, WriteBufferRelease, ctlVars, cliVars
  <2> QED BY Zenon, <1>2, <1>3, <1>4, <2>1, <2>2, <2>3, <2>4 DEF ClientOps
<1>5. CASE DeviceOps
  <2>1. ASSUME NEW b \in Bufs, NEW t \in BOOLEAN, ServerMessage(b, t) PROVE OneRestored'
    BY Zenon, <1>a, <2>1 DEF ServerMessage, ctlVars, cliVars
  <2>2. CASE WriteTimerFires \/ Start \/ Stop \/ Wakeup \/ DeviceProduces
    BY Zenon, <1>a, <2>2 DEF WriteTimerFires, Start, Stop, Wakeup, DeviceProduces, ctlVars, cliVars
  <2>3. CASE Reset BY Zenon, <2>3 DEF Reset, OneRestored
  <2>4. ASSUME NEW v \in BOOLEAN, Attach(v) PROVE OneRestored'
    BY Zenon, <1>a, <2>4 DEF Attach, cliVars
  <2>5. ASSUME NEW c \in Clients, NEW b \in Bufs, NEW m \in MigData, NEW send \in 0..MaxSend,
               Restore(c, b, m.client, m.write, m.size, send)
        PROVE  OneRestored'
    BY Zenon, <2>5 DEF Restore, OneRestored
  <2> QED BY Zenon, <1>5, <2>1, <2>2, <2>3, <2>4, <2>5 DEF DeviceOps
<1>6. CASE UNCHANGED vars BY Zenon, <1>a, <1>6 DEF vars, ctlVars, cliVars
<1> QED BY Zenon, <1>1, <1>4, <1>5, <1>6 DEF Next

\* No operation forgets a client's data that the device did not take.
LEMMA WriteStep ==
  ASSUME Inductive, WriteLoop, OneRestored, WritePending, [Next]_vars
  PROVE  WritePending'
<1> DEFINE W == {"callW", "write"}
           Mine == \E b \in Live \ held : owner[b] \in Clients
           Wanted == running /\ attached /\ ~waitMig /\ Mine
           Armed == cur # Nil /\ writeTimer
<1>g. WritePending <=> (Wanted => Armed \/ In(stack, W)) BY Zenon DEF WritePending
<1>h. WritePending' <=> (Wanted' => Armed' \/ In(stack', W)) BY Zenon DEF WritePending
<1>t. TypeOK /\ stack \in Seq(Frames) BY Zenon DEF Inductive, TypeOK
<1>o. BufType /\ BufferPlaces BY Zenon DEF Inductive, TypeOK
<1>f. /\ {"callR", "callW", "startW", "startR", "read", "write", "readNone"} \subseteq Frames
      /\ "callW" \in W /\ "write" \in W
      /\ "callR" \notin W /\ "startW" \notin W /\ "startR" \notin W /\ "read" \notin W
      /\ "readNone" \notin W
  BY DEF Frames
<1>p. ASSUME NEW s \in Seq(Frames), NEW e \in Frames, NEW g \in Frames
      PROVE  /\ In(s, W) => In(<<e>> \o s, W) /\ In(<<e, g>> \o s, W)
             /\ e \in W => In(<<e>> \o s, W) /\ In(<<e, g>> \o s, W)
  BY Zenon, StackIn
<1>q. ASSUME stack # <<>>
      PROVE  /\ Tail(stack) \in Seq(Frames)
             /\ In(stack, W) <=> Head(stack) \in W \/ In(Tail(stack), W)
  <2>1. "callR" \in Frames BY Zenon, <1>f
  <2> QED BY Zenon, <1>t, <1>q, <2>1, StackIn
<1>k. "callR" \in Frames /\ "callW" \in Frames /\ "startW" \in Frames /\ "startR" \in Frames
      /\ "read" \in Frames /\ "write" \in Frames /\ "readNone" \in Frames
  BY Zenon, <1>f
<1>n. ASSUME stack' = <<"callW">> \o stack \/ stack' = <<"callW", "callR">> \o stack
             \/ stack' = <<"callW", "startW">> \o stack
      PROVE  In(stack', W)
  <2>1. In(<<"callW">> \o stack, W) BY Zenon, <1>t, <1>f, <1>k, <1>p
  <2>2. In(<<"callW", "callR">> \o stack, W) BY Zenon, <1>t, <1>f, <1>k, <1>p
  <2>3. In(<<"callW", "startW">> \o stack, W) BY Zenon, <1>t, <1>f, <1>k, <1>p
  <2> QED BY Zenon, <1>n, <2>1, <2>2, <2>3
<1>m. ASSUME stack' = stack \/ stack' = <<"callR">> \o stack, In(stack, W) PROVE In(stack', W)
  <2>1. In(<<"callR">> \o stack, W) BY Zenon, <1>t, <1>k, <1>m, <1>p
  <2> QED BY Zenon, <1>m, <2>1
<1> HIDE DEF Wanted, Armed, W
<1>a. ASSUME Wanted' => Wanted, UNCHANGED <<cur, writeTimer>>, In(stack, W) => In(stack', W)
      PROVE  WritePending'
  BY Zenon, <1>g, <1>h, <1>a DEF Armed
<1>b. ASSUME ~Wanted' \/ Armed' \/ In(stack', W) PROVE WritePending' BY Zenon, <1>h, <1>b
<1>w. ASSUME UNCHANGED <<running, waitMig, attached, bufVars>> PROVE Wanted' <=> Wanted
  BY Zenon, <1>w DEF Wanted, bufVars, Live, Queued
<1>1. CASE CallRead \/ ReadNothing \/ ReadRetry \/ ReadExit
  <2>1. stack # <<>> /\ Head(stack) \in {"callR", "read", "readNone"}
        /\ UNCHANGED <<running, waitMig, attached, bufVars, writeTimer>>
    BY Zenon, <1>1 DEF CallRead, ReadNothing, ReadRetry, ReadExit, Top, ctlVars
  <2>2. \/ stack' = <<"read">> \o Tail(stack) \/ stack' = <<"readNone">> \o Tail(stack)
        \/ stack' = Tail(stack)
    BY Zenon, <1>1 DEF CallRead, ReadNothing, ReadRetry, ReadExit, Return
  <2>3. In(stack, W) => In(Tail(stack), W) BY Zenon, <1>f, <1>q, <2>1
  <2>4. In(Tail(stack), W) => /\ In(<<"read">> \o Tail(stack), W)
                              /\ In(<<"readNone">> \o Tail(stack), W)
    BY Zenon, <1>k, <1>p, <1>q, <2>1
  <2> QED BY Zenon, <1>a, <1>w, <2>1, <2>2, <2>3, <2>4 DEF bufVars
<1>2. CASE ReadMessage
  <2>1. UNCHANGED <<running, waitMig, attached, bufVars, writeTimer, stack>>
    BY Zenon, <1>2 DEF ReadMessage, ctlVars
  <2> QED BY Zenon, <1>a, <1>w, <2>1 DEF bufVars
<1>3. CASE CallWrite
  <2>1. stack # <<>> /\ Head(stack) = "callW" /\ UNCHANGED ctlVars BY Zenon, <1>3 DEF CallWrite, Top
  <2>2. CASE ~running \/ waitMig \/ ~attached BY Zenon, <1>b, <2>1, <2>2 DEF Wanted, ctlVars
  <2>3. CASE stack' = Tail(stack) /\ duringWrite > 0
    <3>1. In(stack, {"write"}) BY Zenon, <2>3 DEF WriteLoop
    <3>2. In(stack, {"write"}) <=> Head(stack) \in {"write"} \/ In(Tail(stack), {"write"})
      BY Zenon, <1>t, <1>k, <2>1, StackIn
    <3>3. "callW" \notin {"write"} OBVIOUS
    <3>4. In(stack', {"write"}) BY Zenon, <2>1, <2>3, <3>1, <3>2, <3>3
    <3>5. In(stack', W) BY Zenon, <1>f, <3>4 DEF In
    <3> QED BY Zenon, <1>b, <3>5
  <2>4. CASE stack' = <<"write">> \o Tail(stack)
    <3>1. In(stack', W) BY Zenon, <1>f, <1>k, <1>p, <1>q, <2>1, <2>4
    <3> QED BY Zenon, <1>b, <3>1
  <2> QED BY Zenon, <1>3, <2>2, <2>3, <2>4 DEF CallWrite, Return
<1>4. CASE WritePop \/ WriteSome \/ WriteDone \/ WriteRetry
  <2>1. stack # <<>> /\ Head(stack) = "write" /\ stack' = stack
    BY Zenon, <1>4 DEF WritePop, WriteSome, WriteDone, WriteRetry, Top, loopVars
  <2> QED BY Zenon, <1>b, <1>f, <1>q, <2>1
<1>5. CASE WriteExit
  <2>1. UNCHANGED <<running, waitMig, attached, bufVars>> BY Zenon, <1>5 DEF WriteExit
  <2>2. ASSUME running, cur # Nil PROVE Armed'
    BY Zenon, <1>5, <2>1, <2>2 DEF WriteExit, RetryTimer, Armed, bufVars
  <2>3. ASSUME running, cur = Nil PROVE ~Wanted
    <3>1. writeQueue = <<>> BY Zenon, <1>5, <2>3 DEF WriteExit
    <3>2. Queued = {} BY <3>1 DEF Queued
    <3>3. Live \ held = {} BY Zenon, <2>3, <3>2 DEF Live
    <3> QED BY Zenon, <3>3 DEF Wanted
  <2>4. ~running => ~Wanted BY Zenon DEF Wanted
  <2> QED BY Zenon, <1>b, <1>w, <2>1, <2>2, <2>3, <2>4
<1>6. CASE StartLoop
  <2>1. stack # <<>> /\ Head(stack) \in {"startW", "startR"}
        /\ UNCHANGED <<running, waitMig, attached, bufVars, writeTimer>>
    BY Zenon, <1>6 DEF StartLoop, Top, ctlVars
  <2>2. \/ stack' = <<"callW", "startW">> \o Tail(stack)
        \/ stack' = <<"callR", "startR">> \o Tail(stack)
        \/ stack' = Tail(stack)
    BY Zenon, <1>6 DEF StartLoop
  <2>3. In(stack, W) => In(Tail(stack), W) BY Zenon, <1>f, <1>q, <2>1
  <2>4. In(Tail(stack), W) => In(<<"callW", "startW">> \o Tail(stack), W) BY Zenon, <1>k, <1>p, <1>q, <2>1
  <2>5. In(Tail(stack), W) => In(<<"callR", "startR">> \o Tail(stack), W) BY Zenon, <1>k, <1>p, <1>q, <2>1
  <2> QED BY Zenon, <1>a, <1>w, <2>1, <2>2, <2>3, <2>4, <2>5 DEF bufVars
<1>7. ASSUME NEW c \in Clients, NEW n \in 1..MaxSend, NEW r \in BOOLEAN, TokensAbsorb(c, n, r)
      PROVE  WritePending'
  <2>1. stack = <<>> /\ (stack' = <<"callR">> \/ stack' = <<>>)
        /\ UNCHANGED <<running, waitMig, attached, bufVars, writeTimer>>
    BY Zenon, <1>7 DEF TokensAbsorb, Idle, ctlVars
  <2>2. ~In(stack, W) BY <2>1 DEF In
  <2> QED BY Zenon, <1>a, <1>w, <2>1, <2>2 DEF bufVars
<1>8. ASSUME NEW c \in Clients, NEW b \in Bufs, WriteBufferGetClient(c, b) PROVE WritePending'
  <2>1. /\ UNCHANGED <<ctlVars, writeQueue, cur, writeTimer, stack>> /\ b \notin Live
        /\ \/ UNCHANGED <<held, owner>>
           \/ held' = held \cup {b} /\ owner' = [owner EXCEPT ![b] = c]
    BY Zenon, <1>8 DEF WriteBufferGetClient, loopVars
  <2>2. Wanted' => Wanted
    <3>1. CASE UNCHANGED <<held, owner>> BY Zenon, <2>1, <3>1 DEF Wanted, ctlVars, Live, Queued
    <3>2. CASE held' = held \cup {b} /\ owner' = [owner EXCEPT ![b] = c]
      <4>1. ASSUME NEW x \in Live' \ held' PROVE x \in Live \ held /\ owner'[x] = owner[x]
        <5>1. x \in Live \ held /\ x # b BY Zenon, <2>1, <3>2 DEF Live, Queued
        <5>2. x \in Bufs BY Zenon, <1>o, <5>1, QueueOps DEF Live, BufType
        <5> QED BY Zenon, <1>o, <3>2, <5>1, <5>2 DEF BufType
      <4> QED BY Zenon, <2>1, <4>1 DEF Wanted, ctlVars
    <3> QED BY Zenon, <2>1, <3>1, <3>2
  <2> QED BY Zenon, <1>a, <2>1, <2>2
<1>9. ASSUME NEW b \in Bufs, WriteBufferRelease(b) PROVE WritePending'
  <2>1. /\ UNCHANGED <<ctlVars, writeQueue, cur, writeTimer, stack>> /\ b \in held
        /\ held' = held \ {b} /\ owner' = [owner EXCEPT ![b] = None]
    BY Zenon, <1>9 DEF WriteBufferRelease, loopVars
  <2>2. ASSUME NEW x \in Live' \ held' PROVE x \in Live \ held /\ owner'[x] = owner[x]
    <3>1. x \in Queued \cup ({cur} \ {Nil}) BY Zenon, <2>1 DEF Live, Queued
    <3>2. x \notin held BY Zenon, <1>o, <3>1 DEF BufferPlaces
    <3>3. x \in Live \ held /\ x # b BY Zenon, <2>1, <3>1, <3>2 DEF Live
    <3>4. x \in Bufs BY Zenon, <1>o, <3>3, QueueOps DEF Live, BufType
    <3> QED BY Zenon, <1>o, <2>1, <3>3, <3>4 DEF BufType
  <2>3. Wanted' => Wanted BY Zenon, <2>1, <2>2 DEF Wanted, ctlVars
  <2> QED BY Zenon, <1>a, <2>1, <2>3
<1>10. ASSUME NEW c \in Clients, ClientRemove(c) PROVE WritePending'
  <2>1. /\ UNCHANGED <<running, attached, cur, writeTimer>> /\ clients' = clients \ {c} /\ c \in clients
        /\ DropFromQueue({b \in Bufs : owner[b] = c})
        /\ held' = {b \in held : owner[b] # c}
        /\ owner' = [b \in Bufs |-> IF owner[b] = c THEN None ELSE owner[b]]
        /\ ~waitMig => UNCHANGED <<waitMig, stack>>
    BY Zenon, <1>10 DEF ClientRemove
  <2>2. CASE waitMig
    <3>1. clients' = {} BY Zenon, <2>1, <2>2 DEF OneRestored
    <3>2. \A b \in Bufs : owner'[b] \notin Clients BY Zenon, <3>1, BufferPlacesStep DEF BufferPlaces
    <3>3. Live' \ held' \subseteq Bufs
      BY Zenon, <1>o, <2>1, QueueOps DEF Live, BufType
    <3> QED BY Zenon, <1>b, <3>2, <3>3 DEF Wanted
  <2>3. CASE ~waitMig
    <3>1. Queued' = Queued \ {b \in Bufs : owner[b] = c} BY Zenon, <1>o, <2>1, QueueOps DEF BufType
    <3>2. ASSUME NEW x \in Live' \ held', owner'[x] \in Clients
          PROVE  x \in Live \ held /\ owner[x] \in Clients
      <4>1. x \in Queued \cup ({cur} \ {Nil}) BY Zenon, <2>1, <3>1 DEF Live
      <4>2. x \in Bufs BY Zenon, <1>o, <4>1, QueueOps DEF BufType
      <4>3. None \notin Clients BY Zenon, CharDeviceAssumption
      <4>4. owner[x] # c /\ owner[x] \in Clients BY Zenon, <2>1, <3>2, <4>2, <4>3
      <4>5. x \notin held BY Zenon, <2>1, <3>2, <4>4
      <4> QED BY Zenon, <4>1, <4>4, <4>5 DEF Live
    <3>3. Wanted' => Wanted BY Zenon, <2>1, <2>3, <3>2 DEF Wanted
    <3> QED BY Zenon, <1>a, <2>1, <2>3, <3>3
  <2> QED BY Zenon, <2>2, <2>3
<1>11. CASE ClientOps
  <2>1. ASSUME NEW c \in Clients, TokensTimeout(c) PROVE WritePending'
    <3>1. UNCHANGED <<running, waitMig, attached, bufVars, writeTimer, stack>>
      BY Zenon, <2>1 DEF TokensTimeout, loopVars, ctlVars
    <3> QED BY Zenon, <1>a, <1>w, <3>1 DEF bufVars
  <2>2. ASSUME NEW b \in Bufs, WriteBufferAdd(b) PROVE WritePending'
    BY Zenon, <1>b, <1>n, <2>2 DEF WriteBufferAdd, Call
  <2>3. ASSUME NEW c \in Clients, NEW wait \in BOOLEAN, NEW send \in 0..MaxSend,
               ClientAdd(c, wait, send)
        PROVE  WritePending'
    BY Zenon, <1>b, <1>n, <2>3 DEF ClientAdd, Call
  <2> QED BY Zenon, <1>7, <1>8, <1>9, <1>10, <1>11, <2>1, <2>2, <2>3 DEF ClientOps
<1>12. CASE DeviceOps
  <2>1. ASSUME NEW b \in Bufs, NEW t \in BOOLEAN, ServerMessage(b, t) PROVE WritePending'
    <3>1. CASE stack' = <<"callW">> \o stack BY Zenon, <1>b, <1>n, <3>1
    <3>2. CASE UNCHANGED <<owner, writeQueue, stack>>
      <4>1. UNCHANGED <<cur, held, ctlVars, writeTimer>> BY Zenon, <2>1 DEF ServerMessage
      <4>2. Wanted' <=> Wanted BY Zenon, <3>2, <4>1 DEF Wanted, ctlVars, Live, Queued
      <4> QED BY Zenon, <1>a, <3>2, <4>1, <4>2
    <3> QED BY Zenon, <2>1, <3>1, <3>2 DEF ServerMessage, Call
  <2>2. CASE WriteTimerFires \/ Start \/ Wakeup
    BY Zenon, <1>b, <1>n, <2>2 DEF WriteTimerFires, Start, Wakeup, Call
  <2>3. CASE Stop \/ Reset BY Zenon, <1>b, <2>3 DEF Stop, Reset, Wanted
  <2>4. ASSUME NEW v \in BOOLEAN, Attach(v) PROVE WritePending'
    <3>1. stack = <<>> /\ running' = v /\ (v => stack' = <<"callW", "startW">>)
      BY Zenon, <2>4 DEF Attach, Idle
    <3>2. <<"callW", "startW">> = <<"callW", "startW">> \o <<>> OBVIOUS
    <3> QED BY Zenon, <1>b, <1>n, <3>1, <3>2 DEF Wanted
  <2>5. ASSUME NEW c \in Clients, NEW b \in Bufs, NEW m \in MigData, NEW send \in 0..MaxSend,
               Restore(c, b, m.client, m.write, m.size, send)
        PROVE  WritePending'
    BY Zenon, <1>b, <1>n, <2>5 DEF Restore, Call
  <2>6. CASE DeviceProduces
    <3>1. UNCHANGED <<running, waitMig, attached, bufVars, writeTimer, stack>>
      BY Zenon, <2>6 DEF DeviceProduces, loopVars, ctlVars
    <3> QED BY Zenon, <1>a, <1>w, <3>1 DEF bufVars
  <2> QED BY Zenon, <1>12, <2>1, <2>2, <2>3, <2>4, <2>5, <2>6 DEF DeviceOps
<1>13. CASE UNCHANGED vars
  <2>1. UNCHANGED <<running, waitMig, attached, bufVars, writeTimer, stack>>
    BY Zenon, <1>13 DEF vars, loopVars, ctlVars
  <2> QED BY Zenon, <1>a, <1>w, <2>1 DEF bufVars
<1> QED BY Zenon, <1>1, <1>2, <1>3, <1>4, <1>5, <1>6, <1>11, <1>12, <1>13 DEF Next, DeviceLoops

\* What makes the two promises inductive.
PendingInductive == ReadLoop /\ WakeupPending /\ WriteLoop /\ OneRestored /\ WritePending

\* Every reachable state keeps a read due for every message that can be sent, and a
\* write due for everything a client gave.
THEOREM AlwaysPending == Spec => [](Inductive /\ PendingInductive)
<1>1. Init => PendingInductive
  <2> SUFFICES ASSUME Init PROVE PendingInductive OBVIOUS
  <2> USE DEF Init
  <2>1. \A F : ~In(stack, F) /\ AtMostOne(stack, F) BY DEF In, AtMostOne
  <2>2. ~(duringRead > 0) /\ ~(duringWrite > 0) OBVIOUS
  <2>3. ReadLoop BY Zenon, <2>1, <2>2 DEF ReadLoop
  <2> QED BY Zenon, <2>2, <2>3 DEF PendingInductive, WakeupPending, WriteLoop, OneRestored, WritePending
<1>2. Inductive /\ PendingInductive /\ [Next]_vars => Inductive' /\ PendingInductive'
  <2> SUFFICES ASSUME Inductive, PendingInductive, [Next]_vars PROVE Inductive' /\ PendingInductive'
    OBVIOUS
  <2>1. TypeOK /\ ReadLoop /\ WakeupPending /\ WriteLoop /\ OneRestored /\ WritePending
    BY Zenon DEF Inductive, PendingInductive
  <2>2. ReadLoop' BY Zenon, <2>1, ReadFramesStep, ReadBudgetStep DEF ReadLoop
  <2> QED BY Zenon, <2>1, <2>2, InductiveStep, WakeupStep, WriteLoopStep, OneRestoredStep, WriteStep
          DEF PendingInductive
<1> QED BY <1>1, <1>2, InductiveInit, PTL DEF Spec

\* Once the main loop is back, a running device that has a message some client can take
\* owes a wakeup(): no wakeup is lost between the calls of wakeup(), start() and the read
\* loop, however they nest.
THEOREM NoWakeupIsLost == Spec => []NoLostWakeup
<1>1. Inductive /\ PendingInductive => NoLostWakeup
  <2> SUFFICES ASSUME PendingInductive, Idle, running, attached, ~waitMig, avail > 0,
                      \E c \in clients : CanSendToClient(c)
               PROVE  signal
    BY Zenon DEF NoLostWakeup
  <2>1. \A F : ~In(stack, F) BY DEF Idle, In
  <2> QED BY Zenon, <2>1 DEF PendingInductive, WakeupPending
<1> QED BY <1>1, AlwaysPending, PTL

\* Once the main loop is back, a client's data that a running device has not taken is
\* retried by the write timer.
THEOREM WritesAreRetried == Spec => []ClientWriteRetried
<1>1. Inductive /\ PendingInductive => ClientWriteRetried
  <2> SUFFICES ASSUME PendingInductive, Idle, running, attached, ~waitMig,
                      \E b \in Live \ held : owner[b] \in Clients
               PROVE  cur # Nil /\ writeTimer
    BY Zenon DEF ClientWriteRetried
  <2>1. \A F : ~In(stack, F) BY DEF Idle, In
  <2> QED BY Zenon, <2>1 DEF PendingInductive, WritePending
<1> QED BY <1>1, AlwaysPending, PTL
=============================================================================
