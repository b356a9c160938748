-------------------------- MODULE NetShutdown_proofs --------------------------
(***************************************************************************)
(* ReleasedSafely and NoLateConnection for any number of clients, accepts   *)
(* and workers, with waits that are long enough.  Every step is shown to    *)
(* keep a client in one place, mPendingAcceptCount exact, and what main     *)
(* learned from its last wait true.                                         *)
(***************************************************************************)
EXTENDS NetShutdownInv, FiniteSetTheorems, SequenceTheorems, TLAPS

-----------------------------------------------------------------------------
(* The port. *)

PortType == port \in Seq(Packets \union {Poison})

\* The poison is no packet of a client.
LEMMA PacketFacts ==
    /\ \A p \in Packets : p # Poison /\ p.client \in Clients /\ p.ok \in BOOLEAN
    /\ \A c \in Clients, b \in BOOLEAN :
          /\ [client |-> c, ok |-> b] \in Packets
          /\ [client |-> c, ok |-> b].client = c
    /\ Poison \notin Clients
BY ShutdownAssumption DEF Packets

\* The packet of a client that had none is queued.
LEMMA PortAppend ==
    ASSUME PortType, OnePacket, NEW c \in Clients, NEW b \in BOOLEAN, ~InPort(c),
           port' = Append(port, [client |-> c, ok |-> b])
    PROVE  /\ PortType' /\ OnePacket'
           /\ \A d \in Clients : InPort(d)' <=> InPort(d) \/ d = c
<1> DEFINE p == [client |-> c, ok |-> b]
           n == Len(port)
<1>1. p \in Packets /\ p # Poison /\ p.client = c
  BY PacketFacts
<1>2. /\ n \in Nat /\ DOMAIN port = 1..n /\ DOMAIN port' = 1..(n + 1)
      /\ port'[n + 1] = p /\ \A i \in 1..n : port'[i] = port[i]
      /\ PortType'
  BY <1>1 DEF PortType
<1> HIDE DEF p, n
<1>3. \A i \in 1..n : port[i] # Poison => port[i].client # c
  BY <1>2 DEF InPort
<1>4. \A i \in 1..(n + 1) : i \in 1..n \/ i = n + 1
  BY <1>2
<1>5. OnePacket'
  <2> SUFFICES ASSUME NEW i \in 1..(n + 1), NEW j \in 1..(n + 1),
                      port'[i] # Poison, port'[j] # Poison, port'[i].client = port'[j].client
               PROVE  i = j
    BY <1>2 DEF OnePacket
  <2>1. CASE i \in 1..n /\ j \in 1..n
    BY <2>1, <1>2 DEF OnePacket
  <2>2. CASE i = n + 1 /\ j = n + 1
    BY <2>2
  <2>3. CASE i \in 1..n /\ j = n + 1
    BY <2>3, <1>1, <1>2, <1>3
  <2>4. CASE i = n + 1 /\ j \in 1..n
    BY <2>4, <1>1, <1>2, <1>3
  <2>5. QED BY <1>4, <2>1, <2>2, <2>3, <2>4
<1>6. ASSUME NEW d \in Clients PROVE InPort(d)' <=> InPort(d) \/ d = c
  <2>1. InPort(d)' <=> \E i \in 1..(n + 1) : port'[i] # Poison /\ port'[i].client = d
    BY <1>2 DEF InPort
  <2>2. InPort(d) <=> \E i \in 1..n : port[i] # Poison /\ port[i].client = d
    BY <1>2 DEF InPort
  <2>3. n + 1 \in 1..(n + 1) /\ \A i \in 1..n : i \in 1..(n + 1)
    BY <1>2
  <2>4. QED BY <2>1, <2>2, <2>3, <1>1, <1>2, <1>4
<1>7. QED BY <1>2, <1>5, <1>6

\* The first packet is handed to a worker.
LEMMA PortTail ==
    ASSUME PortType, OnePacket, port # <<>>, port' = Tail(port)
    PROVE  /\ PortType' /\ OnePacket'
           /\ Head(port) = Poison => \A d \in Clients : InPort(d)' <=> InPort(d)
           /\ Head(port) # Poison =>
                 /\ Head(port) \in Packets /\ InPort(Head(port).client)
                 /\ \A d \in Clients : InPort(d)' <=> InPort(d) /\ d # Head(port).client
<1> DEFINE n == Len(port)
           h == Head(port)
<1>1. /\ n \in Nat /\ n >= 1 /\ DOMAIN port = 1..n /\ DOMAIN port' = 1..(n - 1)
      /\ h = port[1] /\ \A i \in 1..(n - 1) : port'[i] = port[i + 1]
      /\ PortType' /\ h \in Packets \union {Poison}
  BY DEF PortType
<1> HIDE DEF n, h
<1>2. \A i \in 1..(n - 1) : i + 1 \in 1..n /\ i + 1 # 1
  BY <1>1
<1>3. \A j \in 1..n : j = 1 \/ (j - 1 \in 1..(n - 1) /\ (j - 1) + 1 = j)
  BY <1>1
<1>4. OnePacket'
  <2> SUFFICES ASSUME NEW i \in 1..(n - 1), NEW j \in 1..(n - 1),
                      port'[i] # Poison, port'[j] # Poison, port'[i].client = port'[j].client
               PROVE  i = j
    BY <1>1 DEF OnePacket
  <2>1. i + 1 = j + 1
    BY <1>1, <1>2 DEF OnePacket
  <2>2. QED BY <2>1
<1>5. ASSUME NEW d \in Clients
      PROVE  InPort(d)' <=> \E j \in 1..n : j # 1 /\ port[j] # Poison /\ port[j].client = d
  <2>1. InPort(d)' <=> \E i \in 1..(n - 1) : port[i + 1] # Poison /\ port[i + 1].client = d
    BY <1>1 DEF InPort
  <2>2. QED BY <2>1, <1>2, <1>3
<1>6. ASSUME NEW d \in Clients
      PROVE  InPort(d) <=> \E j \in 1..n : port[j] # Poison /\ port[j].client = d
  BY <1>1 DEF InPort
<1>7. 1 \in 1..n
  BY <1>1
<1>8. h = Poison => \A d \in Clients : InPort(d)' <=> InPort(d)
  BY <1>1, <1>5, <1>6
<1>9. ASSUME h # Poison
      PROVE  /\ h \in Packets /\ InPort(h.client)
             /\ \A d \in Clients : InPort(d)' <=> InPort(d) /\ d # h.client
  <2>1. h \in Packets /\ h.client \in Clients
    BY <1>1, <1>9, PacketFacts
  <2>2. InPort(h.client)
    BY <2>1, <1>1, <1>6, <1>7, <1>9
  <2>3. \A j \in 1..n : port[j] # Poison /\ port[j].client = h.client => j = 1
    BY <1>1, <1>7, <1>9 DEF OnePacket
  <2>4. QED BY <2>1, <2>2, <2>3, <1>1, <1>5, <1>6
<1>10. QED BY <1>1, <1>4, <1>8, <1>9 DEF h

\* Poison is queued.
LEMMA PortPoison ==
    ASSUME PortType, OnePacket, NEW q \in Seq(Packets \union {Poison}),
           \A i \in DOMAIN q : q[i] = Poison, port' = port \o q
    PROVE  /\ PortType' /\ OnePacket'
           /\ \A d \in Clients : InPort(d)' <=> InPort(d)
<1> DEFINE n == Len(port)
           m == Len(q)
<1>1. /\ n \in Nat /\ m \in Nat /\ DOMAIN port = 1..n /\ DOMAIN port' = 1..(n + m)
      /\ \A i \in 1..n : port'[i] = port[i]
      /\ \A i \in (n + 1)..(n + m) : port'[i] = q[i - n]
      /\ \A i \in 1..m : q[i] = Poison
      /\ PortType'
  <2>1. port' \in Seq(Packets \union {Poison}) /\ Len(port') = n + m
    BY ConcatProperties DEF PortType
  <2>2. \A i \in 1..(n + m) : port'[i] = IF i <= n THEN port[i] ELSE q[i - n]
    BY ConcatProperties DEF PortType
  <2>3. n \in Nat /\ m \in Nat
    BY DEF PortType
  <2>4. QED BY <2>1, <2>2, <2>3 DEF PortType
<1> HIDE DEF n, m
<1>2. \A i \in 1..(n + m) : i \in 1..n \/ (i \in (n + 1)..(n + m) /\ i - n \in 1..m)
  BY <1>1
<1>3. \A i \in 1..(n + m) : port'[i] # Poison => i \in 1..n /\ port'[i] = port[i]
  BY <1>1, <1>2
<1>4. \A i \in 1..n : i \in 1..(n + m)
  BY <1>1
<1>5. OnePacket'
  BY <1>1, <1>3 DEF OnePacket
<1>6. \A d \in Clients : InPort(d)' <=> InPort(d)
  BY <1>1, <1>3, <1>4 DEF InPort
<1>7. QED BY <1>1, <1>5, <1>6

\* An untouched port.
LEMMA PortSame ==
    ASSUME port' = port
    PROVE  /\ OnePacket' = OnePacket /\ PortType' = PortType
           /\ \A d : InPort(d)' = InPort(d)
BY DEF OnePacket, PortType, InPort

-----------------------------------------------------------------------------
(* Who has a client in hand. *)

\* The worker that goes somewhere is the only one that does.
LEMMA GoFacts ==
    ASSUME ThreadTypeOK, NEW w \in Workers, NEW to, wpc' = [wpc EXCEPT ![w] = to]
    PROVE  wpc'[w] = to /\ \A v \in Workers : v # w => wpc'[v] = wpc[v]
BY DEF ThreadTypeOK

\* A worker takes a client.
LEMMA HeldTake ==
    ASSUME ThreadTypeOK, NEW w \in Workers, NEW to \in HandPCs, NEW c, wpc[w] \notin HandPCs,
           wpc' = [wpc EXCEPT ![w] = to], wcur' = [wcur EXCEPT ![w] = c]
    PROVE  \A d : Held(d)' <=> Held(d) \/ d = c
BY DEF ThreadTypeOK, Held

\* It goes on with it.
LEMMA HeldKeep ==
    ASSUME ThreadTypeOK, NEW w \in Workers, NEW to \in HandPCs, wpc[w] \in HandPCs,
           wpc' = [wpc EXCEPT ![w] = to], wcur' = wcur
    PROVE  \A d : Held(d)' <=> Held(d)
BY DEF ThreadTypeOK, Held

\* It is done with it.
LEMMA HeldDrop ==
    ASSUME ThreadTypeOK, HandInv, NEW w \in Workers, NEW to, to \notin HandPCs,
           wpc[w] \in HandPCs, wpc' = [wpc EXCEPT ![w] = to], wcur' = wcur
    PROVE  \A d : Held(d)' <=> Held(d) /\ d # wcur[w]
<1>1. \A v \in Workers : wpc[v] \in HandPCs /\ wcur[v] = wcur[w] => v = w
  BY DEF HandInv
<1>2. wpc'[w] = to /\ \A v \in Workers : v # w => wpc'[v] = wpc[v]
  BY GoFacts
<1>3. QED BY <1>1, <1>2 DEF Held

\* It had none and takes none.
LEMMA HeldOther ==
    ASSUME ThreadTypeOK, NEW w \in Workers, NEW to, to \notin HandPCs,
           wpc[w] \notin HandPCs, wpc' = [wpc EXCEPT ![w] = to], wcur' = wcur
    PROVE  \A d : Held(d)' <=> Held(d)
BY DEF ThreadTypeOK, Held

-----------------------------------------------------------------------------
(* The place of a client: what a step does to it. *)

PlaceBase == PortType /\ TypeOK /\ ThreadTypeOK /\ PlaceInv

\* A step that moves no client.
LEMMA PlaceSame ==
    ASSUME PlaceBase, port' = port, UNCHANGED <<wpc, wcur, clientMap, conn, op>>
    PROVE  PlaceInv'
BY PortSame DEF PlaceBase, PlaceInv, MapInv, WhereInv, HandInv, Held, Accepting

\* Nor does one of a worker that has none.
LEMMA PlaceOther ==
    ASSUME PlaceBase, NEW w \in Workers, NEW to, to \notin HandPCs, wpc[w] \notin HandPCs,
           wpc' = [wpc EXCEPT ![w] = to], port' = port, UNCHANGED <<wcur, clientMap, conn, op>>
    PROVE  PlaceInv'
<1>1. \A d : Held(d)' <=> Held(d)
  BY HeldOther DEF PlaceBase
<1>2. wpc'[w] = to /\ \A v \in Workers : v # w => wpc'[v] = wpc[v]
  BY GoFacts DEF PlaceBase
<1>3. OnePacket' /\ \A d : InPort(d)' = InPort(d)
  BY PortSame DEF PlaceBase, PlaceInv
<1>4. MapInv' /\ WhereInv'
  BY <1>1, <1>3 DEF PlaceBase, PlaceInv, MapInv, WhereInv
<1>5. HandInv'
  BY <1>2, <1>3 DEF PlaceBase, PlaceInv, HandInv, Accepting
<1>6. QED BY <1>3, <1>4, <1>5 DEF PlaceInv

\* The kernel queues the packet of an operation.
LEMMA PlaceCompletes ==
    ASSUME PlaceBase, NEW c \in Clients, Completes(c)
    PROVE  PlaceInv'
<1>1. op[c] /\ op' = [op EXCEPT ![c] = FALSE]
  BY DEF Completes
<1>2. PICK b \in BOOLEAN : port' = Append(port, [client |-> c, ok |-> b])
  BY DEF Completes
<1>3. ~InPort(c)
  BY <1>1 DEF PlaceBase, PlaceInv, WhereInv
<1>4. OnePacket' /\ \A d \in Clients : InPort(d)' <=> InPort(d) \/ d = c
  BY <1>2, <1>3, PortAppend DEF PlaceBase, PlaceInv
<1>5. op'[c] = FALSE /\ \A d \in Clients : d # c => op'[d] = op[d]
  BY <1>1 DEF PlaceBase, TypeOK
<1>6. UNCHANGED <<wpc, wcur, clientMap, conn>>
  BY DEF Completes
<1>7. \A d : Held(d)' <=> Held(d)
  BY <1>6 DEF Held
<1>8. MapInv'
  BY <1>6 DEF PlaceBase, PlaceInv, MapInv
<1>9. WhereInv'
  BY <1>1, <1>4, <1>5, <1>6, <1>7 DEF PlaceBase, PlaceInv, WhereInv
<1>10. HandInv'
  <2>1. \A w \in Workers : wpc[w] \in HandPCs => wcur[w] \in Clients /\ wcur[w] # c
    BY <1>1 DEF PlaceBase, PlaceInv, HandInv, TypeOK
  <2>2. QED BY <2>1, <1>4, <1>5, <1>6 DEF PlaceBase, PlaceInv, HandInv, Accepting
<1>11. QED BY <1>4, <1>8, <1>9, <1>10 DEF PlaceInv

\* A worker takes a packet: with its client, or the poison.
LEMMA PlaceDequeue ==
    ASSUME PlaceBase, NEW w \in Workers, Dequeue(w)
    PROVE  PlaceInv'
<1> DEFINE p == Head(port)
<1>1. /\ wpc[w] = "get" /\ port # <<>> /\ port' = Tail(port)
      /\ UNCHANGED <<clientMap, conn, op>>
  BY DEF Dequeue, clientVars
<1>2. wpc[w] \notin HandPCs
  BY <1>1 DEF HandPCs
<1>3. /\ OnePacket'
      /\ p = Poison => \A d \in Clients : InPort(d)' <=> InPort(d)
      /\ p # Poison =>
            /\ p \in Packets /\ InPort(p.client)
            /\ \A d \in Clients : InPort(d)' <=> InPort(d) /\ d # p.client
  BY <1>1, PortTail DEF PlaceBase, PlaceInv
<1>4. CASE p = Poison
  <2>1. wpc' = [wpc EXCEPT ![w] = "leave"] /\ wcur' = wcur
    BY <1>4 DEF Dequeue, Go
  <2>2. "leave" \notin HandPCs
    BY DEF HandPCs
  <2>3. \A d : Held(d)' <=> Held(d)
    BY <1>2, <2>1, <2>2, HeldOther DEF PlaceBase
  <2>4. wpc'[w] = "leave" /\ \A v \in Workers : v # w => wpc'[v] = wpc[v]
    BY <2>1, GoFacts DEF PlaceBase
  <2>5. MapInv' /\ WhereInv'
    BY <1>1, <1>3, <1>4, <2>3 DEF PlaceBase, PlaceInv, MapInv, WhereInv
  <2>6. HandInv'
    <3>1. \A v \in Workers : wpc'[v] \in HandPCs => wpc[v] = wpc'[v] /\ wcur[v] \in Clients
      BY <2>2, <2>4 DEF PlaceBase, PlaceInv, HandInv, TypeOK
    <3>2. QED BY <3>1, <1>1, <1>3, <1>4, <2>1 DEF PlaceBase, PlaceInv, HandInv, Accepting
  <2>7. QED BY <1>3, <2>5, <2>6 DEF PlaceInv
<1>5. CASE p # Poison
  <2> DEFINE c == p.client
             to == IF Accepting(c) THEN (IF p.ok THEN "accept" ELSE "drop")
                   ELSE IF p.ok THEN "received" ELSE "remove"
  <2>1. c \in Clients /\ InPort(c) /\ \A d \in Clients : InPort(d)' <=> InPort(d) /\ d # c
    BY <1>3, <1>5, PacketFacts
  <2>2. wpc' = [wpc EXCEPT ![w] = to] /\ wcur' = [wcur EXCEPT ![w] = c]
    BY <1>5 DEF Dequeue, Go
  <2>3. /\ to \in HandPCs
        /\ to \in {"accept", "acceptEx", "unpost"} => Accepting(c)
        /\ to \in {"received", "remove"} => ~Accepting(c)
    BY DEF HandPCs
  <2> HIDE DEF p, c, to
  <2>4. \A d : Held(d)' <=> Held(d) \/ d = c
    BY <1>2, <2>2, <2>3, HeldTake DEF PlaceBase
  <2>5. /\ wpc'[w] = to /\ wcur'[w] = c
        /\ \A v \in Workers : v # w => wpc'[v] = wpc[v] /\ wcur'[v] = wcur[v]
    BY <2>2 DEF PlaceBase, ThreadTypeOK
  <2>6. MapInv' /\ WhereInv'
    BY <1>1, <2>1, <2>4 DEF PlaceBase, PlaceInv, MapInv, WhereInv
  <2>7. c \in clientMap /\ ~op[c]
    BY <2>1 DEF PlaceBase, PlaceInv, WhereInv
  <2>8. \A v \in Workers : wpc[v] \in HandPCs => wcur[v] # c /\ wcur[v] \in Clients
    BY <2>1 DEF PlaceBase, PlaceInv, HandInv, TypeOK
  <2>9. HandInv'
    BY <1>1, <2>1, <2>3, <2>5, <2>7, <2>8 DEF PlaceBase, PlaceInv, HandInv, Accepting
  <2>10. QED BY <1>3, <2>6, <2>9 DEF PlaceInv
<1>6. QED BY <1>4, <1>5

\* A worker hands its client to the kernel.
LEMMA PlaceGive ==
    ASSUME PlaceBase, NEW w \in Workers, NEW to, to \notin HandPCs, wpc[w] \in HandPCs,
           wpc' = [wpc EXCEPT ![w] = to], UNCHANGED <<port, wcur, clientMap>>,
           op' = [op EXCEPT ![wcur[w]] = TRUE],
           conn'[wcur[w]] \in {"accepting", "open"},
           \A d \in Clients : d # wcur[w] => conn'[d] = conn[d]
    PROVE  PlaceInv'
<1> DEFINE c == wcur[w]
<1>1. c \in clientMap /\ c \in Clients /\ ~op[c] /\ ~InPort(c)
  BY DEF PlaceBase, PlaceInv, HandInv, TypeOK
<1>2. /\ OnePacket' /\ \A d : InPort(d)' = InPort(d)
  BY PortSame DEF PlaceBase, PlaceInv
<1>3. \A d : Held(d)' <=> Held(d) /\ d # c
  BY HeldDrop DEF PlaceBase, PlaceInv
<1>4. wpc'[w] = to /\ \A v \in Workers : v # w => wpc'[v] = wpc[v]
  BY GoFacts DEF PlaceBase
<1>5. op'[c] = TRUE /\ \A d \in Clients : d # c => op'[d] = op[d]
  BY <1>1 DEF PlaceBase, TypeOK
<1>6. MapInv'
  BY <1>1 DEF PlaceBase, PlaceInv, MapInv
<1>7. WhereInv'
  BY <1>1, <1>2, <1>3, <1>5 DEF PlaceBase, PlaceInv, WhereInv
<1>8. \A v \in Workers : wpc'[v] \in HandPCs =>
         v # w /\ wpc'[v] = wpc[v] /\ wcur[v] \in Clients /\ wcur[v] # c
  BY <1>4 DEF PlaceBase, PlaceInv, HandInv, TypeOK
<1>9. HandInv'
  BY <1>2, <1>5, <1>8 DEF PlaceBase, PlaceInv, HandInv, Accepting
<1>10. QED BY <1>2, <1>6, <1>7, <1>9 DEF PlaceInv

\* It takes it from the table.
LEMMA PlaceTakeOut ==
    ASSUME PlaceBase, NEW w \in Workers, NEW to, to \notin HandPCs, wpc[w] \in HandPCs,
           wpc' = [wpc EXCEPT ![w] = to], UNCHANGED <<port, wcur, op>>,
           clientMap' = clientMap \ {wcur[w]}, conn' = [conn EXCEPT ![wcur[w]] = "gone"]
    PROVE  PlaceInv'
<1> DEFINE c == wcur[w]
<1>1. c \in clientMap /\ c \in Clients /\ ~op[c] /\ ~InPort(c)
  BY DEF PlaceBase, PlaceInv, HandInv, TypeOK
<1>2. /\ OnePacket' /\ \A d : InPort(d)' = InPort(d)
  BY PortSame DEF PlaceBase, PlaceInv
<1>3. \A d : Held(d)' <=> Held(d) /\ d # c
  BY HeldDrop DEF PlaceBase, PlaceInv
<1>4. wpc'[w] = to /\ \A v \in Workers : v # w => wpc'[v] = wpc[v]
  BY GoFacts DEF PlaceBase
<1>5. conn'[c] = "gone" /\ \A d \in Clients : d # c => conn'[d] = conn[d]
  BY <1>1 DEF PlaceBase, TypeOK
<1>6. MapInv'
  BY <1>1, <1>5 DEF PlaceBase, PlaceInv, MapInv
<1>7. WhereInv'
  BY <1>1, <1>2, <1>3 DEF PlaceBase, PlaceInv, WhereInv
<1>8. \A v \in Workers : wpc'[v] \in HandPCs =>
         v # w /\ wpc'[v] = wpc[v] /\ wcur[v] \in Clients /\ wcur[v] # c
  BY <1>4 DEF PlaceBase, PlaceInv, HandInv, TypeOK
<1>9. HandInv'
  BY <1>2, <1>5, <1>8 DEF PlaceBase, PlaceInv, HandInv, Accepting
<1>10. QED BY <1>2, <1>6, <1>7, <1>9 DEF PlaceInv

\* It goes on with it.
LEMMA PlaceKeep ==
    ASSUME PlaceBase, NEW w \in Workers, NEW to \in HandPCs, wpc[w] \in HandPCs,
           to \notin {"accept", "acceptEx"},
           wpc' = [wpc EXCEPT ![w] = to], UNCHANGED <<port, wcur, clientMap, op>>,
           conn'[wcur[w]] \in {"accepting", "open"},
           to = "unpost" => Accepting(wcur[w])',
           to \in {"received", "remove"} => ~Accepting(wcur[w])',
           \A d \in Clients : d # wcur[w] => conn'[d] = conn[d]
    PROVE  PlaceInv'
<1> DEFINE c == wcur[w]
<1>1. c \in clientMap /\ c \in Clients
  BY DEF PlaceBase, PlaceInv, HandInv, TypeOK
<1>2. /\ OnePacket' /\ \A d : InPort(d)' = InPort(d)
  BY PortSame DEF PlaceBase, PlaceInv
<1>3. \A d : Held(d)' <=> Held(d)
  BY HeldKeep DEF PlaceBase
<1>4. wpc'[w] = to /\ \A v \in Workers : v # w => wpc'[v] = wpc[v]
  BY GoFacts DEF PlaceBase
<1>5. MapInv'
  BY <1>1 DEF PlaceBase, PlaceInv, MapInv
<1>6. WhereInv'
  BY <1>2, <1>3 DEF PlaceBase, PlaceInv, WhereInv
<1>7. \A v \in Workers : v # w /\ wpc'[v] \in HandPCs =>
         wpc'[v] = wpc[v] /\ wcur[v] \in Clients /\ wcur[v] # c
  BY <1>4 DEF PlaceBase, PlaceInv, HandInv, TypeOK
<1>8. HandInv'
  <2>1. \A v \in Workers : wpc'[v] \in HandPCs =>
           wcur[v] \in clientMap /\ ~op[wcur[v]] /\ ~InPort(wcur[v])
    BY <1>4 DEF PlaceBase, PlaceInv, HandInv
  <2>2. \A v, u \in Workers :
           wpc'[v] \in HandPCs /\ wpc'[u] \in HandPCs /\ wcur[u] = wcur[v] => u = v
    BY <1>7, <1>4 DEF PlaceBase, PlaceInv, HandInv
  <2>3. \A v \in Workers : wpc'[v] \in {"accept", "acceptEx", "unpost"} => Accepting(wcur[v])'
    <3>1. \A v \in Workers : v # w /\ wpc'[v] \in {"accept", "acceptEx", "unpost"} =>
             Accepting(wcur[v])'
      BY <1>7 DEF PlaceBase, PlaceInv, HandInv, HandPCs, Accepting
    <3>2. QED BY <3>1, <1>4
  <2>4. \A v \in Workers : wpc'[v] \in {"received", "remove"} => ~Accepting(wcur[v])'
    <3>1. \A v \in Workers : v # w /\ wpc'[v] \in {"received", "remove"} => ~Accepting(wcur[v])'
      BY <1>7 DEF PlaceBase, PlaceInv, HandInv, HandPCs, Accepting
    <3>2. QED BY <3>1, <1>4
  <2>5. QED BY <1>2, <2>1, <2>2, <2>3, <2>4 DEF HandInv, Accepting
<1>9. QED BY <1>2, <1>5, <1>6, <1>8 DEF PlaceInv

\* An accepted client gets its first receive, or is dropped.
LEMMA PlaceAcceptConnection ==
    ASSUME PlaceBase, NEW w \in Workers, AcceptConnection(w)
    PROVE  PlaceInv'
<1> DEFINE c == wcur[w]
<1>1. /\ wpc[w] = "accept" /\ UNCHANGED <<port, wcur, clientMap>>
  BY DEF AcceptConnection
<1>2. wpc[w] \in HandPCs /\ "drop" \in HandPCs /\ "repost" \notin HandPCs
  BY <1>1 DEF HandPCs
<1>3. c \in Clients /\ conn[c] = "accepting"
  BY <1>1, <1>2 DEF PlaceBase, PlaceInv, HandInv, TypeOK, Accepting
<1>4. CASE PostRecv(w, "drop") /\ conn' = [conn EXCEPT ![c] = "open"]
  <2>1. conn'[c] = "open" /\ \A d \in Clients : d # c => conn'[d] = conn[d]
    BY <1>3, <1>4 DEF PlaceBase, TypeOK
  <2>2. CASE sock[c] = "open"
    <3>1. op' = [op EXCEPT ![c] = TRUE] /\ wpc' = [wpc EXCEPT ![w] = "repost"]
      BY <1>3, <1>4, <2>2 DEF PostRecv, Go
    <3>2. QED BY <1>1, <1>2, <2>1, <3>1, PlaceGive
  <2>3. CASE sock[c] # "open"
    <3>1. op' = op /\ wpc' = [wpc EXCEPT ![w] = "drop"]
      BY <1>4, <2>3 DEF PostRecv, Go
    <3>2. QED BY <1>1, <1>2, <2>1, <3>1, PlaceKeep
  <2>4. QED BY <2>2, <2>3
<1>5. CASE Go(w, "drop") /\ UNCHANGED <<op, conn>>
  BY <1>1, <1>2, <1>3, <1>5, PlaceKeep DEF Go
<1>6. QED BY <1>4, <1>5 DEF AcceptConnection

\* A client that received gets its next receive, or is removed.
LEMMA PlaceReceived ==
    ASSUME PlaceBase, NEW w \in Workers, Received(w)
    PROVE  PlaceInv'
<1> DEFINE c == wcur[w]
<1>1. /\ wpc[w] = "received" /\ UNCHANGED <<port, wcur, clientMap, conn>> /\ PostRecv(w, "remove")
  BY DEF Received
<1>2. wpc[w] \in HandPCs /\ "remove" \in HandPCs /\ "get" \notin HandPCs
  BY <1>1 DEF HandPCs
<1>3. c \in Clients /\ conn[c] = "open"
  BY <1>1, <1>2 DEF PlaceBase, PlaceInv, HandInv, MapInv, TypeOK, Accepting
<1>4. CASE sock[c] = "open"
  <2>1. op' = [op EXCEPT ![c] = TRUE] /\ wpc' = [wpc EXCEPT ![w] = "get"]
    BY <1>1, <1>3, <1>4 DEF PostRecv, Go
  <2>2. QED BY <1>1, <1>2, <1>3, <2>1, PlaceGive
<1>5. CASE sock[c] # "open"
  <2>1. op' = op /\ wpc' = [wpc EXCEPT ![w] = "remove"]
    BY <1>1, <1>5 DEF PostRecv, Go
  <2>2. ~Accepting(c)'
    BY <1>1, <1>3 DEF Accepting
  <2>3. QED BY <1>1, <1>2, <1>3, <2>1, <2>2, PlaceKeep
<1>6. QED BY <1>4, <1>5

\* RemoveClient takes the client of its worker from the table.
LEMMA PlaceRemoveClient ==
    ASSUME PlaceBase, NEW w \in Workers, RemoveClient(w)
    PROVE  PlaceInv'
<1> DEFINE to == IF wpc[w] = "drop" THEN "repost" ELSE "get"
<1>1. /\ wpc[w] \in {"drop", "remove"} /\ UNCHANGED <<port, wcur, op>>
      /\ clientMap' = clientMap \ {wcur[w]} /\ conn' = [conn EXCEPT ![wcur[w]] = "gone"]
      /\ wpc' = [wpc EXCEPT ![w] = to]
  BY DEF RemoveClient, RemoveLockless, Go
<1>2. to \notin HandPCs /\ wpc[w] \in HandPCs
  BY <1>1 DEF HandPCs
<1> HIDE DEF to
<1>3. QED BY <1>1, <1>2, PlaceTakeOut

\* PostAccept takes a client that was nowhere.
LEMMA PlaceRepostAccept ==
    ASSUME PlaceBase, NEW w \in Workers, RepostAccept(w)
    PROVE  PlaceInv'
<1>1. wpc[w] = "repost" /\ port' = port
  BY DEF RepostAccept
<1>2. wpc[w] \notin HandPCs /\ "decrement" \notin HandPCs /\ "acceptEx" \in HandPCs
  BY <1>1 DEF HandPCs
<1>3. CASE Go(w, "decrement") /\ UNCHANGED <<wcur, clientVars, pending>>
  BY <1>1, <1>2, <1>3, PlaceOther DEF Go, clientVars
<1>4. ASSUME NEW c \in Unused,
             clientMap' = clientMap \union {c}, conn' = [conn EXCEPT ![c] = "accepting"],
             wcur' = [wcur EXCEPT ![w] = c], Go(w, "acceptEx"), UNCHANGED op
      PROVE  PlaceInv'
  <2>1. c \in Clients /\ c \notin clientMap
    BY DEF Unused, PlaceBase, PlaceInv, MapInv
  <2>2. ~op[c] /\ ~InPort(c) /\ ~Held(c)
    BY <2>1 DEF PlaceBase, PlaceInv, WhereInv
  <2>3. \A d : Held(d)' <=> Held(d) \/ d = c
    BY <1>2, <1>4, HeldTake DEF PlaceBase, Go
  <2>4. /\ wpc'[w] = "acceptEx" /\ wcur'[w] = c
        /\ \A v \in Workers : v # w => wpc'[v] = wpc[v] /\ wcur'[v] = wcur[v]
    BY <1>4 DEF PlaceBase, ThreadTypeOK, Go
  <2>5. conn'[c] = "accepting" /\ \A d \in Clients : d # c => conn'[d] = conn[d]
    BY <1>4, <2>1 DEF PlaceBase, TypeOK
  <2>6. OnePacket' /\ \A d : InPort(d)' = InPort(d)
    BY <1>1, PortSame DEF PlaceBase, PlaceInv
  <2>7. MapInv'
    BY <1>4, <2>5 DEF PlaceBase, PlaceInv, MapInv
  <2>8. WhereInv'
    BY <1>4, <2>1, <2>2, <2>3, <2>6 DEF PlaceBase, PlaceInv, WhereInv
  <2>9. \A v \in Workers : wpc[v] \in HandPCs => wcur[v] # c /\ wcur[v] \in Clients
    BY <2>1 DEF PlaceBase, PlaceInv, HandInv, TypeOK
  <2>10. HandInv'
    BY <1>4, <2>2, <2>4, <2>5, <2>6, <2>9 DEF PlaceBase, PlaceInv, HandInv, Accepting
  <2>11. QED BY <2>6, <2>7, <2>8, <2>10 DEF PlaceInv
<1>5. QED BY <1>3, <1>4 DEF RepostAccept

\* AcceptEx gives the client to the kernel, unless the listening socket is gone.
LEMMA PlaceAcceptEx ==
    ASSUME PlaceBase, NEW w \in Workers, AcceptEx(w)
    PROVE  PlaceInv'
<1> DEFINE c == wcur[w]
<1>1. /\ wpc[w] = "acceptEx" /\ UNCHANGED <<port, wcur, clientMap, conn>>
  BY DEF AcceptEx
<1>2. wpc[w] \in HandPCs /\ "unpost" \in HandPCs /\ "decrement" \notin HandPCs
  BY <1>1 DEF HandPCs
<1>3. c \in Clients /\ conn[c] = "accepting"
  BY <1>1, <1>2 DEF PlaceBase, PlaceInv, HandInv, TypeOK, Accepting
<1>4. CASE op' = [op EXCEPT ![c] = TRUE] /\ Go(w, "decrement")
  BY <1>1, <1>2, <1>3, <1>4, PlaceGive DEF Go
<1>5. CASE op' = op /\ Go(w, "unpost")
  <2>1. Accepting(c)'
    BY <1>1, <1>3 DEF Accepting
  <2>2. QED BY <1>1, <1>2, <1>3, <1>5, <2>1, PlaceKeep DEF Go
<1>6. QED BY <1>4, <1>5 DEF AcceptEx

\* The client of an accept that could not be posted is removed.
LEMMA PlaceUnpost ==
    ASSUME PlaceBase, NEW w \in Workers, Unpost(w)
    PROVE  PlaceInv'
<1>1. wpc[w] \in HandPCs /\ "decrement" \notin HandPCs
  BY DEF HandPCs, Unpost
<1>2. QED BY <1>1, PlaceTakeOut DEF Unpost, Go

\* Leave, Decrement and ReleaseAcceptor.
LEMMA PlaceNone ==
    ASSUME PlaceBase, NEW w \in Workers, Leave(w) \/ Decrement(w) \/ ReleaseAcceptor(w)
    PROVE  PlaceInv'
<1>1. PICK to \in {"exited", "release", "get"} : wpc' = [wpc EXCEPT ![w] = to]
  BY DEF Leave, Decrement, ReleaseAcceptor, Go
<1>2. wpc[w] \in {"leave", "decrement", "release"} /\ UNCHANGED <<port, wcur, clientMap, conn, op>>
  BY DEF Leave, Decrement, ReleaseAcceptor, clientVars
<1>3. to \notin HandPCs /\ wpc[w] \notin HandPCs
  BY <1>2 DEF HandPCs
<1>4. QED BY <1>1, <1>2, <1>3, PlaceOther

\* Initialize has no client to lose.
LEMMA PlaceInitialize ==
    ASSUME PlaceBase, PhaseInv, Initialize
    PROVE  PlaceInv'
<1>1. /\ \A w \in Workers : wpc[w] = "exited" /\ wpc'[w] \in {"get", "exited"}
      /\ port' = port /\ UNCHANGED <<wcur, clientMap, conn, op>>
  BY DEF Initialize, PhaseInv, clientVars
<1>2. \A w \in Workers : wpc[w] \notin HandPCs /\ wpc'[w] \notin HandPCs
  BY <1>1 DEF HandPCs
<1>3. \A d : Held(d)' <=> Held(d)
  BY <1>2 DEF Held
<1>4. OnePacket' /\ \A d : InPort(d)' = InPort(d)
  BY <1>1, PortSame DEF PlaceBase, PlaceInv
<1>5. QED BY <1>1, <1>2, <1>3, <1>4 DEF PlaceBase, PlaceInv, MapInv, WhereInv, HandInv

\* Before StartNetService no client is anywhere, after it those of its accepts are
\* with the kernel.
LEMMA PlaceStart ==
    ASSUME PlaceBase, PhaseInv, StartNetService
    PROVE  PlaceInv'
<1>1. /\ \A c \in Clients : conn[c] = "unused"
      /\ \A w \in Workers : wpc[w] \notin HandPCs
      /\ UNCHANGED <<port, wpc, wcur>>
  <2>1. pools = "none"
    BY DEF StartNetService, PhaseInv, ServingPCs, CancelledPCs, AfterPCs
  <2>2. QED BY <2>1 DEF StartNetService, PhaseInv, ServiceCode, HandPCs
<1>2. PICK posted \in SUBSET Clients :
         /\ clientMap' = posted
         /\ conn' = [c \in Clients |-> IF c \in posted THEN "accepting" ELSE "unused"]
         /\ op' = [c \in Clients |-> c \in posted]
  BY DEF StartNetService
<1>3. \A c \in Clients : ~InPort(c) /\ ~Held(c)
  BY <1>1 DEF PlaceBase, PlaceInv, WhereInv, MapInv
<1>4. OnePacket' /\ \A d : InPort(d)' = InPort(d) /\ Held(d)' = Held(d)
  BY <1>1, PortSame DEF PlaceBase, PlaceInv, Held
<1>5. MapInv'
  BY <1>2 DEF MapInv
<1>6. WhereInv'
  BY <1>2, <1>3, <1>4 DEF WhereInv
<1>7. HandInv'
  BY <1>1 DEF HandInv
<1>8. QED BY <1>4, <1>5, <1>6, <1>7 DEF PlaceInv

\* The poison packets are nobody's.
LEMMA PoisonPackets ==
    ASSUME ThreadTypeOK
    PROVE  LET q == [i \in 1..Cardinality(mThreads) |-> Poison]
           IN  q \in Seq(Packets \union {Poison}) /\ \A i \in DOMAIN q : q[i] = Poison
<1>1. mThreads \in SUBSET Workers /\ IsFiniteSet(Workers)
  BY ShutdownAssumption, FS_Interval DEF ThreadTypeOK, Workers
<1>2. Cardinality(mThreads) \in Nat
  BY <1>1, FS_Subset, FS_CardinalityType
<1>3. QED BY <1>2

\* They move no client.
LEMMA PlacePoison ==
    ASSUME PlaceBase, PoisonWorkers
    PROVE  PlaceInv'
<1> DEFINE q == [i \in 1..Cardinality(mThreads) |-> Poison]
<1>1. q \in Seq(Packets \union {Poison}) /\ \A i \in DOMAIN q : q[i] = Poison
  BY PoisonPackets DEF PlaceBase
<1>2. port' = port \o q /\ UNCHANGED <<wpc, wcur, clientMap, conn, op>>
  BY DEF PoisonWorkers, PoisonThese, clientVars
<1> HIDE DEF q
<1>3. OnePacket' /\ \A d \in Clients : InPort(d)' <=> InPort(d)
  BY <1>1, <1>2, PortPoison DEF PlaceBase, PlaceInv
<1>4. \A w \in Workers : wpc[w] \in HandPCs => wcur[w] \in Clients
  BY DEF PlaceBase, PlaceInv, HandInv, TypeOK
<1>5. QED BY <1>2, <1>3, <1>4
  DEF PlaceBase, PlaceInv, MapInv, WhereInv, HandInv, Held, Accepting

\* Every step keeps each client in one place.
LEMMA PlaceStep ==
    ASSUME PlaceBase, PhaseInv, Next
    PROVE  PlaceInv'
<1>1. ASSUME NEW c \in Clients, Completes(c) PROVE PlaceInv'
  BY <1>1, PlaceCompletes
<1>2. ASSUME NEW w \in Workers, WorkerStep(w) PROVE PlaceInv'
  BY <1>2, PlaceDequeue, PlaceNone, PlaceAcceptConnection, PlaceReceived, PlaceRemoveClient,
     PlaceRepostAccept, PlaceAcceptEx, PlaceUnpost
  DEF WorkerStep
<1>3. ASSUME AssistStep PROVE PlaceInv'
  BY <1>3, PlaceSame DEF AssistStep, clientVars
<1>4. ASSUME MainStep PROVE PlaceInv'
  <2>1. ASSUME \/ RemoveService \/ PostCancel \/ WaitAcceptor \/ CancelClients \/ Poll \/ Nap
               \/ ReleaseAllPool \/ DeleteService \/ UnInitialize \/ WaitExits
        PROVE  PlaceInv'
    <3>1. port' = port /\ UNCHANGED <<wpc, wcur, clientMap, conn, op>>
      BY <2>1
      DEF RemoveService, PostCancel, WaitAcceptor, NoWaitForAcceptor, CancelClients, Poll, Nap,
          ReleaseAllPool, DeleteService, UnInitialize, WaitExits, clientVars
    <3>2. QED BY <3>1, PlaceSame
  <2>2. QED BY <1>4, <2>1, PlaceInitialize, PlaceStart, PlacePoison DEF MainStep
<1>5. ASSUME CallStop PROVE PlaceInv'
  BY <1>5, PlaceSame DEF CallStop, clientVars
<1>6. QED BY <1>1, <1>2, <1>3, <1>4, <1>5 DEF Next

-----------------------------------------------------------------------------
(* Types and phases. *)

\* Every step keeps the types, given that the count stays a number.
LEMMA TypeStep ==
    ASSUME PlaceBase, Next, pending' \in Nat
    PROVE  TypeOK' /\ ThreadTypeOK' /\ PortType'
<1>0. PortType <=> port \in Seq([client : Clients, ok : BOOLEAN] \union {Poison})
  BY DEF PortType, Packets
<1>1. PortType'
  <2>1. ASSUME NEW c \in Clients, Completes(c) PROVE PortType'
    <3>1. PICK b \in BOOLEAN : port' = Append(port, [client |-> c, ok |-> b])
      BY <2>1 DEF Completes
    <3>2. [client |-> c, ok |-> b] \in Packets
      BY PacketFacts
    <3>3. QED BY <3>1, <3>2 DEF PlaceBase, PortType
  <2>2. ASSUME NEW w \in Workers, Dequeue(w) PROVE PortType'
    BY <2>2, PortTail DEF Dequeue, PlaceBase, PlaceInv
  <2>3. ASSUME PoisonWorkers PROVE PortType'
    <3> DEFINE q == [i \in 1..Cardinality(mThreads) |-> Poison]
    <3>1. q \in Seq(Packets \union {Poison}) /\ \A i \in DOMAIN q : q[i] = Poison
      BY PoisonPackets DEF PlaceBase
    <3>2. port' = port \o q
      BY <2>3 DEF PoisonWorkers, PoisonThese
    <3> HIDE DEF q
    <3>3. QED BY <3>1, <3>2, PortPoison DEF PlaceBase, PlaceInv
  <2>4. port' = port \/ (\E c \in Clients : Completes(c)) \/ (\E w \in Workers : Dequeue(w))
        \/ PoisonWorkers
    BY DEF Next, WorkerStep, MainStep, Leave, AcceptConnection, Received, RemoveClient,
           RemoveLockless, RepostAccept, AcceptEx, Unpost, Decrement, ReleaseAcceptor, AssistStep,
           Initialize, StartNetService, RemoveService, PostCancel, WaitAcceptor,
           NoWaitForAcceptor, CancelClients, Poll, Nap, ReleaseAllPool, DeleteService,
           UnInitialize, WaitExits, CallStop
  <2>5. QED BY <2>1, <2>2, <2>3, <2>4, PortSame DEF PlaceBase
<1> DEFINE ClientTypes ==
             /\ clientMap \subseteq Clients
             /\ conn \in [Clients -> {"unused", "accepting", "open", "gone"}]
             /\ sock \in [Clients -> {"open", "closed"}] /\ op \in [Clients -> BOOLEAN]
           CoreTypes ==
             /\ exitEvent \in [Workers -> {"null", "reset", "set", "closed"}]
             /\ poolLock \in {Main, Nobody} /\ mapLock \in {Assist, Nobody}
<1>2. ClientTypes /\ CoreTypes /\ ThreadTypeOK
  BY DEF PlaceBase, TypeOK
<1>3. ASSUME NEW c \in Clients, Completes(c) PROVE ClientTypes' /\ CoreTypes' /\ ThreadTypeOK'
  BY <1>2, <1>3 DEF Completes, coreVars, serviceVars, ThreadTypeOK
<1>4. ASSUME NEW w \in Workers, WorkerStep(w)
      PROVE  ClientTypes' /\ CoreTypes' /\ ThreadTypeOK'
  <2>1. CASE Dequeue(w)
    <3>1. UNCHANGED <<clientVars, coreVars, poolLock>>
      BY <2>1 DEF Dequeue, serviceVars
    <3>2. wcur' = wcur \/ \E p \in Packets : wcur' = [wcur EXCEPT ![w] = p.client]
      BY <2>1, PortTail DEF Dequeue, PlaceBase, PlaceInv
    <3>3. \E to \in {"leave", "accept", "drop", "received", "remove"} : wpc' = [wpc EXCEPT ![w] = to]
      BY <2>1 DEF Dequeue, Go
    <3>4. ThreadTypeOK'
      BY <1>2, <3>1, <3>2, <3>3, PacketFacts DEF coreVars, ThreadTypeOK, ServiceCode
    <3>5. QED BY <1>2, <3>1, <3>4 DEF clientVars, coreVars
  <2>2. CASE Leave(w)
    BY <1>2, <2>2 DEF Leave, Go, clientVars, serviceVars, ThreadTypeOK
  <2>3. CASE AcceptConnection(w)
    BY <1>2, <2>3, ZenonT(30)
    DEF AcceptConnection, PostRecv, Go, coreVars, serviceVars, ThreadTypeOK, ServiceCode
  <2>4. CASE Received(w)
    BY <1>2, <2>4 DEF Received, PostRecv, Go, coreVars, serviceVars, ThreadTypeOK, ServiceCode
  <2>5. CASE RemoveClient(w)
    BY <1>2, <2>5
    DEF RemoveClient, RemoveLockless, Go, coreVars, serviceVars, ThreadTypeOK, ServiceCode
  <2>6. CASE RepostAccept(w)
    BY <1>2, <2>6
    DEF RepostAccept, Unused, Go, clientVars, coreVars, serviceVars, ThreadTypeOK, ServiceCode
  <2>7. CASE AcceptEx(w)
    BY <1>2, <2>7 DEF AcceptEx, Go, coreVars, serviceVars, ThreadTypeOK, ServiceCode
  <2>8. CASE Unpost(w)
    BY <1>2, <2>8 DEF Unpost, Go, coreVars, serviceVars, ThreadTypeOK, ServiceCode
  <2>9. CASE Decrement(w) \/ ReleaseAcceptor(w)
    BY <1>2, <2>9
    DEF Decrement, ReleaseAcceptor, Go, clientVars, coreVars, serviceVars, ThreadTypeOK, ServiceCode
  <2>10. QED BY <1>4, <2>1, <2>2, <2>3, <2>4, <2>5, <2>6, <2>7, <2>8, <2>9 DEF WorkerStep
<1>5. ASSUME AssistStep \/ CallStop PROVE ClientTypes' /\ CoreTypes' /\ ThreadTypeOK'
  BY <1>2, <1>5 DEF AssistStep, CallStop, clientVars, coreVars, serviceVars, ThreadTypeOK
<1>6. ASSUME MainStep PROVE ClientTypes' /\ CoreTypes' /\ ThreadTypeOK'
  <2>1. CASE Initialize
    <3>1. PICK n \in 0..ThreadCount : \E made \in SUBSET (1..n) :
             /\ mThreads' = made
             /\ exitEvent' = [w \in Workers |-> IF w <= n THEN "reset" ELSE "null"]
             /\ wpc' = [w \in Workers |-> IF w \in running' THEN "get" ELSE "exited"]
      BY <2>1 DEF Initialize
    <3>2. 1..n \subseteq Workers
      BY ShutdownAssumption DEF Workers
    <3>3. QED
      BY <1>2, <2>1, <3>1, <3>2 DEF Initialize, clientVars, serviceVars, ThreadTypeOK
  <2>2. CASE StartNetService
    BY <1>2, <2>2 DEF StartNetService, coreVars, ThreadTypeOK
  <2>3. CASE CancelClients
    BY <1>2, <2>3 DEF CancelClients, coreVars, serviceVars, ThreadTypeOK
  <2>4. CASE RemoveService \/ PostCancel \/ WaitAcceptor \/ Poll \/ Nap \/ ReleaseAllPool
             \/ DeleteService
    BY <1>2, <2>4
    DEF RemoveService, PostCancel, WaitAcceptor, NoWaitForAcceptor, Poll, Nap, ReleaseAllPool,
        DeleteService, clientVars, coreVars, serviceVars, ThreadTypeOK
  <2>5. CASE UnInitialize \/ PoisonWorkers \/ WaitExits
    BY <1>2, <2>5
    DEF UnInitialize, PoisonWorkers, PoisonThese, WaitExits, clientVars, serviceVars, ThreadTypeOK
  <2>6. QED BY <1>6, <2>1, <2>2, <2>3, <2>4, <2>5 DEF MainStep
<1>7. ClientTypes' /\ CoreTypes' /\ ThreadTypeOK'
  BY <1>3, <1>4, <1>5, <1>6 DEF Next
<1>8. port' \in Seq([client : Clients, ok : BOOLEAN] \union {Poison})
  BY <1>1 DEF PortType, Packets
<1>9. QED BY <1>1, <1>7, <1>8 DEF TypeOK

\* A worker in the service's code runs while the service exists.
LEMMA PhaseWorker ==
    ASSUME PlaceBase, PhaseInv, NEW w \in Workers, wpc[w] \in ServiceCode,
           UNCHANGED <<mainPC, pools, mMarkedStop, running>>
    PROVE  PhaseInv'
<1>1. wpc[w] # "exited"
  BY DEF ServiceCode
<1>2. running # {} /\ mainPC # "init" /\ pools # "none"
  BY <1>1 DEF PhaseInv
<1>3. mainPC # "serve"
  BY <1>2 DEF PhaseInv, ServingPCs, CancelledPCs, AfterPCs
<1>4. QED BY <1>2, <1>3 DEF PhaseInv

\* Every step keeps the phases.
LEMMA PhaseStep ==
    ASSUME PlaceBase, PhaseInv, Next
    PROVE  PhaseInv'
<1>1. ASSUME NEW c \in Clients, Completes(c) PROVE PhaseInv'
  <2>1. conn[c] # "unused"
    BY <1>1 DEF Completes, PlaceBase, PlaceInv, WhereInv, MapInv
  <2>2. pools # "none"
    BY <2>1 DEF PhaseInv
  <2>3. mainPC \notin {"init", "serve"}
    BY <2>2 DEF PhaseInv, ServingPCs, CancelledPCs, AfterPCs
  <2>4. QED BY <1>1, <2>2, <2>3 DEF Completes, coreVars, serviceVars, PhaseInv
<1>2. ASSUME NEW w \in Workers, WorkerStep(w) PROVE PhaseInv'
  <2>1. CASE Dequeue(w)
    <3>1. running # {} /\ mainPC # "init"
      BY <2>1 DEF Dequeue, PhaseInv
    <3>2. mainPC # "serve"
      BY <2>1 DEF Dequeue, PhaseInv
    <3>3. pools = "none" => \A v \in Workers : wpc'[v] \notin ServiceCode
      <4>1. SUFFICES ASSUME pools = "none" PROVE wpc'[w] \notin ServiceCode
        BY <2>1 DEF Dequeue, Go, PhaseInv, PlaceBase, ThreadTypeOK
      <4>2. Head(port) = Poison
        <5>1. \A c \in Clients : ~InPort(c)
          BY <4>1 DEF PhaseInv, PlaceBase, PlaceInv, WhereInv, MapInv
        <5>2. QED BY <2>1, <5>1, PortTail, PacketFacts DEF Dequeue, PlaceBase, PlaceInv
      <4>3. QED BY <2>1, <4>2 DEF Dequeue, Go, PlaceBase, ThreadTypeOK, ServiceCode
    <3>4. UNCHANGED <<mainPC, coreVars, acceptorVars, clientVars, serviceVars>>
      BY <2>1 DEF Dequeue
    <3>5. QED BY <3>1, <3>2, <3>3, <3>4
      DEF PhaseInv, coreVars, acceptorVars, clientVars, serviceVars
  <2>2. CASE Leave(w)
    <3>1. wpc[w] = "leave" /\ wpc' = [wpc EXCEPT ![w] = "exited"]
      BY <2>2 DEF Leave, Go
    <3>2. \A v \in Workers : wpc'[v] = wpc[v] \/ wpc'[v] = "exited"
      BY <3>1 DEF PlaceBase, ThreadTypeOK
    <3>3. UNCHANGED <<mainPC, port, running, pools, mMarkedStop, conn, pending, event>>
      BY <2>2 DEF Leave, acceptorVars, clientVars, serviceVars
    <3>4. "exited" \notin ServiceCode
      BY DEF ServiceCode
    <3>5. QED BY <3>2, <3>3, <3>4 DEF PhaseInv
  <2>3. CASE wpc[w] \in ServiceCode
    <3>1. wpc[w] # "get" /\ wpc[w] # "leave"
      BY <2>3 DEF ServiceCode
    <3>2. UNCHANGED <<mainPC, pools, mMarkedStop, running>>
      BY <1>2, <3>1
      DEF WorkerStep, Dequeue, Leave, AcceptConnection, Received, RemoveClient, RemoveLockless,
          RepostAccept, AcceptEx, Unpost, Decrement, ReleaseAcceptor, coreVars, serviceVars
    <3>3. QED BY <2>3, <3>2, PhaseWorker
  <2>4. QED BY <1>2, <2>1, <2>2, <2>3
    DEF WorkerStep, AcceptConnection, Received, RemoveClient, RemoveLockless, RepostAccept,
        AcceptEx, Unpost, Decrement, ReleaseAcceptor, ServiceCode
<1>3. ASSUME AssistStep PROVE PhaseInv'
  BY <1>3 DEF AssistStep, acceptorVars, clientVars, serviceVars, PhaseInv
<1>4. ASSUME CallStop PROVE PhaseInv'
  BY <1>4 DEF CallStop, coreVars, acceptorVars, clientVars, PhaseInv,
              BlankPCs, ServingPCs, CancelledPCs, AfterPCs
<1>5. ASSUME MainStep PROVE PhaseInv'
  <2>1. CASE Initialize
    <3>1. /\ mainPC = "init" /\ mainPC' \in {"serve", "uninit"} /\ port' = port
          /\ \A w \in Workers : wpc'[w] = IF w \in running' THEN "get" ELSE "exited"
          /\ UNCHANGED <<acceptorVars, clientVars, serviceVars>>
      BY <2>1 DEF Initialize
    <3>2. \A w \in Workers : wpc'[w] \notin ServiceCode
      BY <3>1 DEF ServiceCode
    <3>3. pools = "none"
      BY <3>1 DEF PhaseInv, ServingPCs, CancelledPCs, AfterPCs
    <3>4. QED BY <3>1, <3>2, <3>3 DEF PhaseInv, acceptorVars, clientVars, serviceVars, BlankPCs
  <2>2. CASE StartNetService
    <3>1. pools' = "live" /\ mainPC' = "running" /\ UNCHANGED <<wpc, running>>
      BY <2>2 DEF StartNetService, coreVars
    <3>2. \A c \in Clients : conn'[c] # "open"
      BY <2>2 DEF StartNetService
    <3>3. QED BY <3>1, <3>2 DEF PhaseInv, ServingPCs
  <2>3. CASE RemoveService \/ PostCancel \/ WaitAcceptor
    BY <2>3 DEF RemoveService, PostCancel, WaitAcceptor, NoWaitForAcceptor, coreVars,
                acceptorVars, clientVars, serviceVars, PhaseInv,
                BlankPCs, ServingPCs, CancelledPCs, AfterPCs
  <2>4. CASE CancelClients \/ Poll \/ Nap
    BY <2>4 DEF CancelClients, Poll, Nap, coreVars,
                acceptorVars, clientVars, serviceVars, PhaseInv,
                BlankPCs, ServingPCs, CancelledPCs, AfterPCs
  <2>5. CASE ReleaseAllPool \/ DeleteService
    BY <2>5 DEF ReleaseAllPool, DeleteService, coreVars,
                acceptorVars, clientVars, serviceVars, PhaseInv,
                BlankPCs, ServingPCs, CancelledPCs, AfterPCs
  <2>6. CASE UnInitialize \/ PoisonWorkers \/ WaitExits
    BY <2>6 DEF UnInitialize, PoisonWorkers, PoisonThese, WaitExits,
                acceptorVars, clientVars, serviceVars, PhaseInv,
                BlankPCs, ServingPCs, CancelledPCs, AfterPCs
  <2>7. QED BY <1>5, <2>1, <2>2, <2>3, <2>4, <2>5, <2>6 DEF MainStep
<1>6. QED BY <1>1, <1>2, <1>3, <1>4, <1>5 DEF Next

-----------------------------------------------------------------------------
(* mPendingAcceptCount. *)

Shutdown == PlaceBase /\ PhaseInv /\ PendingCounts

\* What is counted is finite.
LEMMA CountsFinite ==
    /\ IsFiniteSet(Outstanding) /\ IsFiniteSet(AcceptWorkers) /\ IsFiniteSet(AcceptExs)
    /\ Cardinality(Outstanding) \in Nat /\ Cardinality(AcceptWorkers) \in Nat
    /\ Cardinality(AcceptExs) \in Nat
<1>1. IsFiniteSet(Clients) /\ IsFiniteSet(Workers)
  BY ShutdownAssumption, FS_Interval DEF Workers
<1>2. Outstanding \in SUBSET Clients /\ AcceptWorkers \in SUBSET Workers /\ AcceptExs \in SUBSET Workers
  BY DEF Outstanding, AcceptWorkers, AcceptExs
<1>3. IsFiniteSet(Outstanding) /\ IsFiniteSet(AcceptWorkers) /\ IsFiniteSet(AcceptExs)
  BY <1>1, <1>2, FS_Subset
<1>4. QED BY <1>3, FS_CardinalityType

\* A counted set that gains a member.
LEMMA OneMore ==
    ASSUME NEW S, IsFiniteSet(S), NEW x, x \notin S, NEW T, T = S \cup {x}
    PROVE  Cardinality(T) = Cardinality(S) + 1
BY FS_AddElement

\* One that loses a member.
LEMMA OneLess ==
    ASSUME NEW S, IsFiniteSet(S), NEW x \in S, NEW T, T = S \ {x}
    PROVE  Cardinality(T) = Cardinality(S) - 1
BY FS_RemoveElement

\* A worker that goes from one accepting place to another, or to none from none.
LEMMA WorkersSame ==
    ASSUME ThreadTypeOK, NEW w \in Workers, NEW to, wpc' = [wpc EXCEPT ![w] = to],
           wpc[w] \in AcceptPCs <=> to \in AcceptPCs
    PROVE  AcceptWorkers' = AcceptWorkers
BY GoFacts DEF AcceptWorkers

\* One that begins to handle a completed accept.
LEMMA WorkersEnter ==
    ASSUME ThreadTypeOK, NEW w \in Workers, NEW to \in AcceptPCs,
           wpc' = [wpc EXCEPT ![w] = to], wpc[w] \notin AcceptPCs
    PROVE  Cardinality(AcceptWorkers') = Cardinality(AcceptWorkers) + 1
<1>1. AcceptWorkers' = AcceptWorkers \cup {w} /\ w \notin AcceptWorkers
  BY GoFacts, ZenonT(30) DEF AcceptWorkers
<1>2. QED BY <1>1, CountsFinite, OneMore

\* One that is done with it.
LEMMA WorkersLeave ==
    ASSUME ThreadTypeOK, NEW w \in Workers, NEW to, to \notin AcceptPCs,
           wpc' = [wpc EXCEPT ![w] = to], wpc[w] \in AcceptPCs
    PROVE  Cardinality(AcceptWorkers') = Cardinality(AcceptWorkers) - 1
<1>1. AcceptWorkers' = AcceptWorkers \ {w} /\ w \in AcceptWorkers
  BY GoFacts DEF AcceptWorkers
<1>2. QED BY <1>1, CountsFinite, OneLess

\* A worker that is not at its AcceptEx, before and after.
LEMMA ExsSame ==
    ASSUME ThreadTypeOK, NEW w \in Workers, NEW to, wpc' = [wpc EXCEPT ![w] = to],
           wpc[w] # "acceptEx", to # "acceptEx"
    PROVE  AcceptExs' = AcceptExs
BY GoFacts DEF AcceptExs

\* One that comes to it.
LEMMA ExsEnter ==
    ASSUME ThreadTypeOK, NEW w \in Workers,
           wpc' = [wpc EXCEPT ![w] = "acceptEx"], wpc[w] # "acceptEx"
    PROVE  Cardinality(AcceptExs') = Cardinality(AcceptExs) + 1
<1>1. AcceptExs' = AcceptExs \cup {w} /\ w \notin AcceptExs
  BY GoFacts DEF AcceptExs
<1>2. QED BY <1>1, CountsFinite, OneMore

\* One that called it.
LEMMA ExsLeave ==
    ASSUME ThreadTypeOK, NEW w \in Workers, NEW to, wpc' = [wpc EXCEPT ![w] = to],
           wpc[w] = "acceptEx", to # "acceptEx"
    PROVE  Cardinality(AcceptExs') = Cardinality(AcceptExs) - 1
<1>1. AcceptExs' = AcceptExs \ {w} /\ w \in AcceptExs
  BY GoFacts DEF AcceptExs
<1>2. QED BY <1>1, CountsFinite, OneLess

\* A step that changes neither places nor states.
LEMMA OutstandingSame ==
    ASSUME conn' = conn, \A d \in Clients : Held(d)' <=> Held(d)
    PROVE  Outstanding' = Outstanding
BY DEF Outstanding, Accepting

\* The packet of an accept passes from the port to a worker: the same count.
LEMMA CountDequeue ==
    ASSUME Shutdown, NEW w \in Workers, Dequeue(w)
    PROVE  PendingCounts'
<1> DEFINE p == Head(port)
<1>0. /\ PlaceBase /\ ThreadTypeOK /\ PortType /\ OnePacket /\ PendingCounts
      /\ wpc[w] = "get" /\ port # <<>> /\ port' = Tail(port) /\ conn' = conn /\ pending' = pending
  BY DEF Shutdown, Dequeue, clientVars, acceptorVars, PlaceBase, PlaceInv
<1>1. wpc[w] \notin AcceptPCs /\ wpc[w] \notin HandPCs /\ wpc[w] # "acceptEx"
  BY <1>0 DEF AcceptPCs, HandPCs
<1>2. CASE p = Poison
  <2>1. wpc' = [wpc EXCEPT ![w] = "leave"] /\ wcur' = wcur
    BY <1>2 DEF Dequeue, Go
  <2>2. "leave" \notin HandPCs /\ "leave" \notin AcceptPCs
    BY DEF HandPCs, AcceptPCs
  <2>3. Outstanding' = Outstanding
    BY <1>0, <1>1, <2>1, <2>2, HeldOther, OutstandingSame
  <2>4. AcceptWorkers' = AcceptWorkers /\ AcceptExs' = AcceptExs
    BY <1>0, <1>1, <2>1, <2>2, WorkersSame, ExsSame
  <2>5. QED BY <1>0, <2>3, <2>4 DEF PendingCounts
<1>3. CASE p # Poison
  <2> DEFINE c == p.client
             to == IF Accepting(c) THEN (IF p.ok THEN "accept" ELSE "drop")
                   ELSE IF p.ok THEN "received" ELSE "remove"
  <2>1. c \in Clients /\ InPort(c)
    BY <1>0, <1>3, PortTail, PacketFacts
  <2>2. wpc' = [wpc EXCEPT ![w] = to] /\ wcur' = [wcur EXCEPT ![w] = c]
    BY <1>3 DEF Dequeue, Go
  <2>3. to \in HandPCs /\ to # "acceptEx" /\ (to \in AcceptPCs <=> Accepting(c))
    BY DEF HandPCs, AcceptPCs
  <2> HIDE DEF p, c, to
  <2>4. \A d : Held(d)' <=> Held(d) \/ d = c
    BY <1>0, <1>1, <2>2, <2>3, HeldTake
  <2>5. ~Held(c)
    BY <2>1 DEF Held, Shutdown, PlaceBase, PlaceInv, HandInv
  <2>6. AcceptExs' = AcceptExs
    BY <1>0, <1>1, <2>2, <2>3, ExsSame
  <2>7. CASE Accepting(c)
    <3>1. Outstanding' = Outstanding \ {c} /\ c \in Outstanding
      BY <1>0, <2>1, <2>4, <2>5, <2>7 DEF Outstanding, Accepting
    <3>2. Cardinality(Outstanding') = Cardinality(Outstanding) - 1
      BY <3>1, CountsFinite, OneLess
    <3>3. Cardinality(AcceptWorkers') = Cardinality(AcceptWorkers) + 1
      BY <1>0, <1>1, <2>2, <2>3, <2>7, WorkersEnter
    <3>4. QED BY <1>0, <2>6, <3>2, <3>3, CountsFinite DEF PendingCounts
  <2>8. CASE ~Accepting(c)
    <3>1. Outstanding' = Outstanding
      BY <1>0, <2>1, <2>4, <2>8 DEF Outstanding, Accepting
    <3>2. AcceptWorkers' = AcceptWorkers
      BY <1>0, <1>1, <2>2, <2>3, <2>8, WorkersSame
    <3>3. QED BY <1>0, <2>6, <3>1, <3>2 DEF PendingCounts
  <2>9. QED BY <2>7, <2>8
<1>4. QED BY <1>2, <1>3

\* A client in the hands of a worker is no outstanding accept, nor is one that is no
\* longer accepting.
LEMMA OutstandingHand ==
    ASSUME Shutdown, NEW w \in Workers, wpc[w] \in HandPCs, NEW to,
           wpc' = [wpc EXCEPT ![w] = to], wcur' = wcur,
           to \in HandPCs \/ ~Accepting(wcur[w])',
           \A d \in Clients : d # wcur[w] => conn'[d] = conn[d]
    PROVE  Outstanding' = Outstanding
<1>0. ThreadTypeOK /\ HandInv
  BY DEF Shutdown, PlaceBase, PlaceInv
<1>1. Held(wcur[w])
  BY DEF Held
<1>2. CASE to \in HandPCs
  <2>1. \A d : Held(d)' <=> Held(d)
    BY <1>0, <1>2, HeldKeep
  <2>2. QED BY <1>1, <2>1 DEF Outstanding, Accepting
<1>3. CASE to \notin HandPCs
  <2>1. \A d : Held(d)' <=> Held(d) /\ d # wcur[w]
    BY <1>0, <1>3, HeldDrop
  <2>2. QED BY <1>1, <1>3, <2>1 DEF Outstanding, Accepting
<1>4. QED BY <1>2, <1>3

\* A worker that connects, drops or removes its client changes no count.
LEMMA CountHand ==
    ASSUME Shutdown, NEW w \in Workers,
           AcceptConnection(w) \/ Received(w) \/ RemoveClient(w) \/ Unpost(w)
    PROVE  PendingCounts'
<1> DEFINE c == wcur[w]
<1>0. /\ PlaceBase /\ ThreadTypeOK /\ HandInv /\ PendingCounts /\ TypeOK
  BY DEF Shutdown, PlaceBase, PlaceInv
<1>1. /\ wpc[w] \in HandPCs /\ wpc[w] # "acceptEx"
      /\ wcur' = wcur /\ pending' = pending
  BY DEF AcceptConnection, Received, RemoveClient, RemoveLockless, Unpost, acceptorVars, HandPCs
<1>2. c \in Clients
  BY <1>0, <1>1 DEF HandInv, TypeOK
<1>3. ASSUME NEW to, to # "acceptEx", wpc' = [wpc EXCEPT ![w] = to],
             wpc[w] \in AcceptPCs <=> to \in AcceptPCs,
             to \in HandPCs \/ ~Accepting(c)',
             \A d \in Clients : d # c => conn'[d] = conn[d]
      PROVE  PendingCounts'
  <2>1. Outstanding' = Outstanding
    BY <1>1, <1>3, OutstandingHand
  <2>2. AcceptWorkers' = AcceptWorkers /\ AcceptExs' = AcceptExs
    BY <1>0, <1>1, <1>3, WorkersSame, ExsSame
  <2>3. QED BY <1>0, <1>1, <2>1, <2>2 DEF PendingCounts
<1>4. CASE AcceptConnection(w)
  <2>1. wpc[w] = "accept"
    BY <1>4 DEF AcceptConnection
  <2>2. conn[c] = "accepting"
    BY <1>0, <1>1, <2>1 DEF HandInv, Accepting
  <2>3. wpc[w] \in AcceptPCs /\ {"repost", "drop"} \subseteq AcceptPCs /\ "drop" \in HandPCs
    BY <2>1 DEF AcceptPCs, HandPCs
  <2>4. \A d \in Clients : d # c => conn'[d] = conn[d]
    BY <1>0, <1>4 DEF AcceptConnection, TypeOK
  <2>5. CASE wpc' = [wpc EXCEPT ![w] = "drop"]
    BY <1>3, <2>3, <2>4, <2>5
  <2>6. CASE wpc' = [wpc EXCEPT ![w] = "repost"] /\ conn' = [conn EXCEPT ![c] = "open"]
    <3>1. ~Accepting(c)'
      BY <1>0, <1>1, <1>2, <2>6 DEF TypeOK, Accepting
    <3>2. QED BY <1>3, <2>3, <2>4, <2>6, <3>1
  <2>7. QED BY <1>4, <2>2, <2>5, <2>6 DEF AcceptConnection, PostRecv, Go
<1>5. CASE Received(w)
  <2>1. wpc[w] = "received" /\ conn' = conn /\ PostRecv(w, "remove")
    BY <1>5 DEF Received
  <2>2. conn[c] = "open"
    BY <1>0, <1>1, <1>2, <2>1 DEF HandInv, PlaceBase, PlaceInv, MapInv, Accepting
  <2>3. wpc' = [wpc EXCEPT ![w] = "get"] \/ wpc' = [wpc EXCEPT ![w] = "remove"]
    BY <2>1, <2>2 DEF PostRecv, Go
  <2>4. ~Accepting(c)'
    BY <1>1, <2>1, <2>2 DEF Accepting
  <2>5. wpc[w] \notin AcceptPCs /\ "get" \notin AcceptPCs /\ "remove" \notin AcceptPCs
    BY <2>1 DEF AcceptPCs
  <2>6. QED BY <1>3, <2>1, <2>3, <2>4, <2>5
<1>6. CASE RemoveClient(w)
  <2> DEFINE to == IF wpc[w] = "drop" THEN "repost" ELSE "get"
  <2>1. /\ wpc[w] \in {"drop", "remove"} /\ conn' = [conn EXCEPT ![c] = "gone"]
        /\ wpc' = [wpc EXCEPT ![w] = to]
    BY <1>6 DEF RemoveClient, RemoveLockless, Go
  <2>2. ~Accepting(c)' /\ \A d \in Clients : d # c => conn'[d] = conn[d]
    BY <1>0, <1>1, <1>2, <2>1 DEF TypeOK, Accepting
  <2>3. to # "acceptEx" /\ (wpc[w] \in AcceptPCs <=> to \in AcceptPCs)
    BY <2>1 DEF AcceptPCs
  <2> HIDE DEF to
  <2>4. QED BY <1>3, <2>1, <2>2, <2>3
<1>7. CASE Unpost(w)
  <2>1. /\ wpc[w] = "unpost" /\ conn' = [conn EXCEPT ![c] = "gone"]
        /\ wpc' = [wpc EXCEPT ![w] = "decrement"]
    BY <1>7 DEF Unpost, Go
  <2>2. ~Accepting(c)' /\ \A d \in Clients : d # c => conn'[d] = conn[d]
    BY <1>0, <1>1, <1>2, <2>1 DEF TypeOK, Accepting
  <2>3. wpc[w] \in AcceptPCs /\ "decrement" \in AcceptPCs
    BY <2>1 DEF AcceptPCs
  <2>4. QED BY <1>3, <2>1, <2>2, <2>3
<1>8. QED BY <1>4, <1>5, <1>6, <1>7

\* PostAccept counts the accept it is about to post.
LEMMA CountRepostAccept ==
    ASSUME Shutdown, NEW w \in Workers, RepostAccept(w)
    PROVE  PendingCounts'
<1>0. PlaceBase /\ ThreadTypeOK /\ PendingCounts /\ TypeOK /\ wpc[w] = "repost"
  BY DEF Shutdown, PlaceBase, RepostAccept
<1>1. /\ wpc[w] \notin HandPCs /\ "decrement" \notin HandPCs /\ "acceptEx" \in HandPCs
      /\ wpc[w] \in AcceptPCs /\ {"decrement", "acceptEx"} \subseteq AcceptPCs
      /\ wpc[w] # "acceptEx"
  BY <1>0 DEF HandPCs, AcceptPCs
<1>2. CASE Go(w, "decrement") /\ UNCHANGED <<wcur, clientVars, pending>>
  <2>1. Outstanding' = Outstanding
    BY <1>0, <1>1, <1>2, HeldOther, OutstandingSame DEF Go, clientVars
  <2>2. AcceptWorkers' = AcceptWorkers /\ AcceptExs' = AcceptExs
    BY <1>0, <1>1, <1>2, WorkersSame, ExsSame DEF Go
  <2>3. QED BY <1>0, <1>2, <2>1, <2>2 DEF PendingCounts
<1>3. ASSUME NEW c \in Unused, conn' = [conn EXCEPT ![c] = "accepting"],
             wcur' = [wcur EXCEPT ![w] = c], Go(w, "acceptEx"), pending' = pending + 1
      PROVE  PendingCounts'
  <2>1. \A d : Held(d)' <=> Held(d) \/ d = c
    BY <1>0, <1>1, <1>3, HeldTake DEF Go
  <2>2. conn[c] = "unused" /\ c \in Clients
    BY DEF Unused
  <2>3. \A d \in Clients : d # c => conn'[d] = conn[d]
    BY <1>0, <1>3 DEF TypeOK
  <2>4. Outstanding' = Outstanding
    BY <2>1, <2>2, <2>3 DEF Outstanding, Accepting
  <2>5. AcceptWorkers' = AcceptWorkers
    BY <1>0, <1>1, <1>3, WorkersSame DEF Go
  <2>6. Cardinality(AcceptExs') = Cardinality(AcceptExs) + 1
    BY <1>0, <1>1, <1>3, ExsEnter DEF Go
  <2>7. QED BY <1>0, <1>3, <2>4, <2>5, <2>6, CountsFinite DEF PendingCounts
<1>4. QED BY <1>2, <1>3 DEF RepostAccept

\* The accept is with the kernel, or its count is taken back.
LEMMA CountAcceptEx ==
    ASSUME Shutdown, NEW w \in Workers, AcceptEx(w)
    PROVE  PendingCounts'
<1> DEFINE c == wcur[w]
<1>0. /\ PlaceBase /\ ThreadTypeOK /\ HandInv /\ PendingCounts /\ TypeOK
      /\ wpc[w] = "acceptEx" /\ wcur' = wcur /\ conn' = conn
  BY DEF Shutdown, PlaceBase, PlaceInv, AcceptEx
<1>1. /\ wpc[w] \in HandPCs /\ "decrement" \notin HandPCs /\ "unpost" \in HandPCs
      /\ wpc[w] \in AcceptPCs /\ {"decrement", "unpost"} \subseteq AcceptPCs
  BY <1>0 DEF HandPCs, AcceptPCs
<1>2. c \in Clients /\ Accepting(c) /\ Held(c)
  BY <1>0, <1>1 DEF HandInv, TypeOK, Held
<1>3. CASE wpc' = [wpc EXCEPT ![w] = "decrement"] /\ pending' = pending
  <2>1. \A d : Held(d)' <=> Held(d) /\ d # c
    BY <1>0, <1>1, <1>3, HeldDrop
  <2>2. Outstanding' = Outstanding \cup {c} /\ c \notin Outstanding
    BY <1>0, <1>2, <2>1 DEF Outstanding, Accepting
  <2>3. Cardinality(Outstanding') = Cardinality(Outstanding) + 1
    BY <2>2, CountsFinite, OneMore
  <2>4. AcceptWorkers' = AcceptWorkers
    BY <1>0, <1>1, <1>3, WorkersSame
  <2>5. Cardinality(AcceptExs') = Cardinality(AcceptExs) - 1
    BY <1>0, <1>3, ExsLeave
  <2>6. QED BY <1>0, <1>3, <2>3, <2>4, <2>5, CountsFinite DEF PendingCounts
<1>4. CASE wpc' = [wpc EXCEPT ![w] = "unpost"] /\ pending' = pending - 1
  <2>1. Outstanding' = Outstanding
    BY <1>0, <1>1, <1>4, HeldKeep, OutstandingSame
  <2>2. AcceptWorkers' = AcceptWorkers
    BY <1>0, <1>1, <1>4, WorkersSame
  <2>3. Cardinality(AcceptExs') = Cardinality(AcceptExs) - 1
    BY <1>0, <1>4, ExsLeave
  <2>4. QED BY <1>0, <1>4, <2>1, <2>2, <2>3, CountsFinite DEF PendingCounts
<1>5. QED BY <1>3, <1>4 DEF AcceptEx, Go

\* DecrementPending, and the workers that have no client.
LEMMA CountNone ==
    ASSUME Shutdown, NEW w \in Workers, Leave(w) \/ Decrement(w) \/ ReleaseAcceptor(w)
    PROVE  PendingCounts'
<1>0. /\ ThreadTypeOK /\ PendingCounts /\ TypeOK
      /\ wpc[w] \in {"leave", "decrement", "release"} /\ wcur' = wcur /\ conn' = conn
  BY DEF Shutdown, PlaceBase, Leave, Decrement, ReleaseAcceptor, clientVars
<1>1. PICK to \in {"exited", "release", "get"} :
         wpc' = [wpc EXCEPT ![w] = to]
  BY DEF Leave, Decrement, ReleaseAcceptor, Go
<1>2. /\ wpc[w] \notin HandPCs /\ to \notin HandPCs /\ to \notin AcceptPCs
      /\ wpc[w] # "acceptEx" /\ to # "acceptEx"
      /\ wpc[w] \in AcceptPCs <=> wpc[w] = "decrement"
  BY <1>0 DEF HandPCs, AcceptPCs
<1>3. Outstanding' = Outstanding /\ AcceptExs' = AcceptExs
  BY <1>0, <1>1, <1>2, HeldOther, OutstandingSame, ExsSame
<1>4. CASE wpc[w] = "decrement"
  <2>1. pending' = pending - 1
    BY <1>4 DEF Leave, Decrement, ReleaseAcceptor
  <2>2. Cardinality(AcceptWorkers') = Cardinality(AcceptWorkers) - 1
    BY <1>0, <1>1, <1>2, <1>4, WorkersLeave
  <2>3. QED BY <1>0, <1>3, <2>1, <2>2, CountsFinite DEF PendingCounts
<1>5. CASE wpc[w] # "decrement"
  <2>1. pending' = pending
    BY <1>5 DEF Leave, Decrement, ReleaseAcceptor, acceptorVars
  <2>2. AcceptWorkers' = AcceptWorkers
    BY <1>0, <1>1, <1>2, <1>5, WorkersSame
  <2>3. QED BY <1>0, <1>3, <2>1, <2>2 DEF PendingCounts
<1>6. QED BY <1>4, <1>5

\* StartNetService counts what it posted.
LEMMA CountStart ==
    ASSUME Shutdown, StartNetService
    PROVE  PendingCounts'
<1>1. PICK posted \in SUBSET Clients :
         /\ Cardinality(posted) = Backlog
         /\ conn' = [c \in Clients |-> IF c \in posted THEN "accepting" ELSE "unused"]
  BY DEF StartNetService
<1>2. pending' = Backlog /\ UNCHANGED <<wpc, wcur>>
  BY DEF StartNetService
<1>3. pools = "none"
  BY DEF StartNetService, Shutdown, PhaseInv, ServingPCs, CancelledPCs, AfterPCs
<1>4. \A w \in Workers : wpc[w] \notin HandPCs /\ wpc[w] \notin AcceptPCs /\ wpc[w] # "acceptEx"
  BY <1>3 DEF Shutdown, PhaseInv, ServiceCode, HandPCs, AcceptPCs
<1>5. Outstanding' = posted
  BY <1>1, <1>2, <1>4 DEF Outstanding, Accepting, Held
<1>6. AcceptWorkers' = {} /\ AcceptExs' = {}
  BY <1>2, <1>4 DEF AcceptWorkers, AcceptExs
<1>7. Backlog \in Nat
  BY ShutdownAssumption, FS_CardinalityType
<1>8. QED BY <1>1, <1>2, <1>5, <1>6, <1>7, FS_EmptySet DEF PendingCounts

\* Every step keeps mPendingAcceptCount exact.
LEMMA CountStep ==
    ASSUME Shutdown, Next
    PROVE  PendingCounts' /\ pending' \in Nat
<1>1. ASSUME UNCHANGED <<wpc, wcur, conn, pending>> PROVE PendingCounts'
  BY <1>1 DEF Shutdown, PendingCounts, Outstanding, AcceptWorkers, AcceptExs, Held, Accepting
<1>2. ASSUME NEW w \in Workers, WorkerStep(w) PROVE PendingCounts'
  BY <1>2, CountDequeue, CountHand, CountRepostAccept, CountAcceptEx, CountNone DEF WorkerStep
<1>3. ASSUME Initialize PROVE PendingCounts'
  <2>1. \A w \in Workers : wpc[w] \in {"get", "exited"} /\ wpc'[w] \in {"get", "exited"}
    BY <1>3 DEF Initialize, Shutdown, PhaseInv
  <2>2. \A w \in Workers : /\ wpc[w] \notin HandPCs \cup AcceptPCs \cup {"acceptEx"}
                           /\ wpc'[w] \notin HandPCs \cup AcceptPCs \cup {"acceptEx"}
    BY <2>1 DEF HandPCs, AcceptPCs
  <2>3. UNCHANGED <<conn, pending>>
    BY <1>3 DEF Initialize, clientVars, acceptorVars
  <2>4. Outstanding' = Outstanding /\ AcceptWorkers' = AcceptWorkers /\ AcceptExs' = AcceptExs
    BY <2>2, <2>3 DEF Outstanding, AcceptWorkers, AcceptExs, Held, Accepting
  <2>5. QED BY <2>3, <2>4 DEF Shutdown, PendingCounts
<1>4. ASSUME StartNetService PROVE PendingCounts'
  BY <1>4, CountStart
<1>5. ASSUME (\E c \in Clients : Completes(c)) \/ AssistStep \/ CallStop PROVE PendingCounts'
  BY <1>1, <1>5 DEF Completes, AssistStep, CallStop, acceptorVars, clientVars
<1>6. ASSUME \/ RemoveService \/ PostCancel \/ WaitAcceptor \/ CancelClients \/ Poll \/ Nap
             \/ ReleaseAllPool \/ DeleteService \/ UnInitialize \/ PoisonWorkers \/ WaitExits
      PROVE  PendingCounts'
  BY <1>1, <1>6
  DEF RemoveService, PostCancel, WaitAcceptor, NoWaitForAcceptor, CancelClients, Poll, Nap,
      ReleaseAllPool, DeleteService, UnInitialize, PoisonWorkers, PoisonThese, WaitExits,
      acceptorVars, clientVars
<1>7. PendingCounts'
  BY <1>2, <1>3, <1>4, <1>5, <1>6 DEF Next, MainStep
<1>8. /\ Cardinality(Outstanding)' \in Nat /\ Cardinality(AcceptWorkers)' \in Nat
      /\ Cardinality(AcceptExs)' \in Nat
  <2>1. IsFiniteSet(Clients) /\ IsFiniteSet(Workers)
    BY ShutdownAssumption, FS_Interval DEF Workers
  <2>2. Outstanding' \in SUBSET Clients /\ AcceptWorkers' \in SUBSET Workers
        /\ AcceptExs' \in SUBSET Workers
    BY DEF Outstanding, AcceptWorkers, AcceptExs
  <2>3. QED BY <2>1, <2>2, FS_Subset, FS_CardinalityType
<1>9. QED BY <1>7, <1>8 DEF PendingCounts

-----------------------------------------------------------------------------
(* The end of the acceptor. *)

AcceptorSteps == \E w \in Workers : Decrement(w) \/ ReleaseAcceptor(w)

\* With no accept outstanding and none being handled there is no new one: the workers
\* go on to receive, remove and leave.
LEMMA NoAcceptsWorker ==
    ASSUME Shutdown, NoAccepts, NEW w \in Workers, WorkerStep(w)
    PROVE  /\ Dequeue(w) \/ Leave(w) \/ Received(w) \/ RemoveClient(w) \/ ReleaseAcceptor(w)
           /\ NoAccepts' /\ \A v \in Workers : wpc'[v] = "release" => wpc[v] = "release"
           /\ clientMap' \subseteq clientMap
           /\ \A c \in Clients : conn'[c] = "open" => conn[c] = "open" /\ sock'[c] = sock[c]
<1>0. TypeOK /\ ThreadTypeOK /\ PlaceInv
  BY DEF Shutdown, PlaceBase
<1>1. wpc[w] \notin AcceptPCs
  BY DEF NoAccepts
<1>2. Dequeue(w) \/ Leave(w) \/ Received(w) \/ (RemoveClient(w) /\ wpc[w] = "remove") \/ ReleaseAcceptor(w)
  BY <1>1 DEF WorkerStep, AcceptConnection, RemoveClient, RemoveLockless, RepostAccept, AcceptEx,
              Unpost, Decrement, AcceptPCs
<1>3. PICK to \in {"leave", "received", "remove", "exited", "get"} : wpc' = [wpc EXCEPT ![w] = to]
  <2>1. CASE Dequeue(w)
    <3>1. Head(port) = Poison \/ Head(port).client \in Clients
      BY <2>1, PortTail, PacketFacts DEF Dequeue, Shutdown, PlaceBase, PlaceInv
    <3>2. CASE Head(port) = Poison
      BY <2>1, <3>2 DEF Dequeue, Go
    <3>3. CASE Head(port) # Poison
      <4>1. ~Accepting(Head(port).client)
        BY <3>1, <3>3, PortTail, PacketFacts, <2>1
        DEF Dequeue, Shutdown, PlaceBase, PlaceInv, NoAccepts
      <4>2. QED BY <2>1, <3>3, <4>1 DEF Dequeue, Go
    <3>4. QED BY <3>2, <3>3
  <2>2. CASE Leave(w) \/ Received(w) \/ (RemoveClient(w) /\ wpc[w] = "remove") \/ ReleaseAcceptor(w)
    <3>1. Received(w) => conn[wcur[w]] = "open"
      <4>1. Received(w) => wpc[w] = "received" /\ "received" \in HandPCs
        BY DEF Received, HandPCs
      <4>2. QED BY <1>0, <4>1 DEF PlaceInv, HandInv, MapInv, TypeOK, Accepting
    <3>2. QED
      BY <2>2, <3>1
      DEF Leave, Received, PostRecv, RemoveClient, RemoveLockless, ReleaseAcceptor, Go
  <2>3. QED BY <1>2, <2>1, <2>2
<1>4. wpc'[w] = to /\ \A v \in Workers : v # w => wpc'[v] = wpc[v]
  BY <1>0, <1>3, GoFacts
<1>5. to \notin AcceptPCs /\ to # "release"
  BY DEF AcceptPCs
<1>6. clientMap' \subseteq clientMap /\ \A c \in Clients : \/ conn'[c] = conn[c] /\ sock'[c] = sock[c]
                                                           \/ conn'[c] = "gone"
  BY <1>0, <1>2
  DEF TypeOK, Dequeue, Leave, Received, RemoveClient, RemoveLockless, ReleaseAcceptor, clientVars
<1>7. QED BY <1>2, <1>4, <1>5, <1>6 DEF NoAccepts, Accepting

\* What the steps of the others leave alone.
LEMMA OtherSteps ==
    ASSUME Next, ~StartNetService, ~\E w \in Workers : WorkerStep(w)
    PROVE  /\ clientMap' = clientMap /\ conn' = conn
           /\ ~Initialize => wpc' = wpc /\ wcur' = wcur /\ running' = running
           /\ ~Initialize /\ ~CancelClients => sock' = sock
           /\ event' = event \/ event' = "closed"
           /\ ~CancelClients => sock' = sock
BY DEF Next, MainStep, Completes, AssistStep, CallStop, Initialize, RemoveService, PostCancel,
       WaitAcceptor, NoWaitForAcceptor, CancelClients, Poll, Nap, ReleaseAllPool, DeleteService,
       UnInitialize, PoisonWorkers, PoisonThese, WaitExits, coreVars, acceptorVars, clientVars,
       serviceVars

\* Before Initialize no worker runs, after it none is in the service's code.
LEMMA InitializeWorkers ==
    ASSUME Shutdown, Initialize
    PROVE  /\ pools = "none" /\ event = "none"
           /\ \A w \in Workers : wpc[w] = "exited" /\ wpc'[w] \in {"get", "exited"}
BY DEF Shutdown, PhaseInv, Initialize, ServingPCs, CancelledPCs, AfterPCs

\* Nor is there anything of the service before StartNetService.
LEMMA StartWorkers ==
    ASSUME Shutdown, StartNetService
    PROVE  /\ pools = "none" /\ UNCHANGED <<wpc, running>>
           /\ \A w \in Workers : wpc[w] \notin ServiceCode
BY DEF Shutdown, PhaseInv, StartNetService, ServingPCs, CancelledPCs, AfterPCs, coreVars

\* Once gone, the acceptor stays so, until a service is started.
LEMMA AcceptorGoneStays ==
    ASSUME Shutdown, AcceptorGone, Next, ~StartNetService
    PROVE  AcceptorGone'
<1>1. ASSUME NEW w \in Workers, WorkerStep(w) PROVE AcceptorGone'
  BY <1>1, NoAcceptsWorker DEF AcceptorGone
<1>2. ASSUME ~\E w \in Workers : WorkerStep(w) PROVE AcceptorGone'
  <2>1. CASE Initialize
    BY <1>2, <2>1, OtherSteps, InitializeWorkers DEF AcceptorGone, NoAccepts, Accepting, AcceptPCs
  <2>2. CASE ~Initialize
    BY <1>2, <2>2, OtherSteps DEF AcceptorGone, NoAccepts, Accepting
  <2>3. QED BY <2>1, <2>2
<1>3. QED BY <1>1, <1>2

\* The worker that counts the pending accepts to zero is the last that handles one.
LEMMA LastAccept ==
    ASSUME Shutdown, NEW w \in Workers, wpc[w] = "decrement", pending = 1
    PROVE  /\ \A c \in Clients : ~Accepting(c)
           /\ \A v \in Workers : wpc[v] \in AcceptPCs => v = w
<1>1. w \in AcceptWorkers
  BY DEF AcceptWorkers, AcceptPCs
<1>2. Cardinality(AcceptWorkers \ {w}) = Cardinality(AcceptWorkers) - 1
      /\ IsFiniteSet(AcceptWorkers \ {w})
  BY <1>1, CountsFinite, FS_RemoveElement
<1>3. Cardinality(AcceptWorkers \ {w}) \in Nat
  BY <1>2, FS_CardinalityType
<1>4. pending = Cardinality(Outstanding) + Cardinality(AcceptWorkers) + Cardinality(AcceptExs)
  BY DEF Shutdown, PendingCounts
<1>5. Cardinality(Outstanding) = 0 /\ Cardinality(AcceptWorkers \ {w}) = 0
  BY <1>2, <1>3, <1>4, CountsFinite
<1>6. Outstanding = {} /\ AcceptWorkers \ {w} = {}
  BY <1>2, <1>5, CountsFinite, FS_EmptySet
<1>7. \A v \in Workers : wpc[v] \in AcceptPCs => v = w
  BY <1>6 DEF AcceptWorkers
<1>8. ASSUME NEW c \in Clients, Accepting(c) PROVE FALSE
  <2>1. PICK v \in Workers : wpc[v] \in HandPCs /\ wcur[v] = c
    BY <1>6, <1>8 DEF Outstanding, Held
  <2>2. wpc[v] \notin {"received", "remove"}
    BY <1>8, <2>1 DEF Shutdown, PlaceBase, PlaceInv, HandInv
  <2>3. wpc[v] \in AcceptPCs
    BY <2>1, <2>2 DEF HandPCs, AcceptPCs
  <2>4. QED BY <1>7, <2>1, <2>3 DEF HandPCs
<1>9. QED BY <1>7, <1>8

\* Every step: a worker releases the acceptor, and its event is set, only when nothing
\* is left of it.
LEMMA ReleaseStep ==
    ASSUME Shutdown, ReleaseInv, Next
    PROVE  ReleaseInv'
<1>0. ThreadTypeOK
  BY DEF Shutdown, PlaceBase
<1>1. ASSUME NEW w \in Workers, Decrement(w) PROVE ReleaseInv'
  <2>1. wpc[w] = "decrement" /\ event' = event /\ conn' = conn
    BY <1>1 DEF Decrement, clientVars
  <2>2. w \in Workers /\ wpc[w] \in AcceptPCs
    BY <2>1 DEF AcceptPCs
  <2>3. ~NoAccepts
    BY <2>2 DEF NoAccepts
  <2>4. event # "set" /\ \A v \in Workers : wpc[v] # "release"
    BY <2>3 DEF ReleaseInv, AcceptorGone
  <2>5. CASE pending = 1
    <3>1. wpc'[w] = "release" /\ \A v \in Workers : v # w => wpc'[v] = wpc[v]
      BY <1>0, <1>1, <2>5, GoFacts DEF Decrement, Go
    <3>2. NoAccepts'
      BY <2>1, <2>5, <3>1, LastAccept DEF NoAccepts, Accepting, AcceptPCs
    <3>3. QED BY <2>1, <2>4, <3>1, <3>2 DEF ReleaseInv
  <2>6. CASE pending # 1
    <3>1. wpc'[w] = "get" /\ \A v \in Workers : v # w => wpc'[v] = wpc[v]
      BY <1>0, <1>1, <2>6, GoFacts DEF Decrement, Go
    <3>2. QED BY <2>1, <2>4, <3>1 DEF ReleaseInv
  <2>7. QED BY <2>5, <2>6
<1>2. ASSUME NEW w \in Workers, ReleaseAcceptor(w) PROVE ReleaseInv'
  <2>1. wpc[w] = "release" /\ conn' = conn /\ wpc' = [wpc EXCEPT ![w] = "get"]
    BY <1>2 DEF ReleaseAcceptor, clientVars, Go
  <2>2. NoAccepts /\ \A v \in Workers : wpc[v] = "release" => v = w
    BY <2>1 DEF ReleaseInv
  <2>3. wpc'[w] = "get" /\ \A v \in Workers : v # w => wpc'[v] = wpc[v]
    BY <1>0, <2>1, GoFacts
  <2>4. NoAccepts' /\ \A v \in Workers : wpc'[v] # "release"
    BY <2>1, <2>2, <2>3 DEF NoAccepts, Accepting, AcceptPCs
  <2>5. QED BY <2>4 DEF ReleaseInv, AcceptorGone
<1>3. ASSUME NEW w \in Workers, WorkerStep(w), ~Decrement(w), ~ReleaseAcceptor(w) PROVE ReleaseInv'
  <2>1. event' = event /\ \A v \in Workers : wpc'[v] = "release" => wpc[v] = "release"
    <3>1. \E to \in {"leave", "accept", "drop", "received", "remove", "exited", "get", "repost",
                     "decrement", "acceptEx", "unpost"} : wpc' = [wpc EXCEPT ![w] = to]
      BY <1>3
      DEF WorkerStep, Dequeue, Leave, AcceptConnection, Received, PostRecv, RemoveClient,
          RemoveLockless, RepostAccept, AcceptEx, Unpost, Go
    <3>2. event' = event
      BY <1>3
      DEF WorkerStep, Dequeue, Leave, AcceptConnection, Received, RemoveClient,
          RemoveLockless, RepostAccept, AcceptEx, Unpost, acceptorVars
    <3>3. QED BY <1>0, <3>1, <3>2 DEF ThreadTypeOK
  <2>2. NoAccepts => NoAccepts'
    BY <1>3, NoAcceptsWorker
  <2>3. QED BY <2>1, <2>2 DEF ReleaseInv, AcceptorGone
<1>4. ASSUME StartNetService PROVE ReleaseInv'
  <2>1. event' = "reset"
    BY <1>4 DEF StartNetService
  <2>2. QED BY <1>4, <2>1, StartWorkers DEF ReleaseInv, ServiceCode
<1>5. ASSUME ~StartNetService, ~\E w \in Workers : WorkerStep(w) PROVE ReleaseInv'
  <2>1. CASE Initialize
    <3>1. event' # "set" /\ \A w \in Workers : wpc'[w] # "release"
      BY <1>5, <2>1, OtherSteps, InitializeWorkers
    <3>2. QED BY <3>1 DEF ReleaseInv
  <2>2. CASE ~Initialize
    <3>1. wpc' = wpc /\ conn' = conn /\ (event' = "set" => event = "set")
      BY <1>5, <2>2, OtherSteps
    <3>2. QED BY <3>1 DEF ReleaseInv, AcceptorGone, NoAccepts, Accepting
  <2>3. QED BY <2>1, <2>2
<1>6. QED BY <1>1, <1>2, <1>3, <1>4, <1>5

-----------------------------------------------------------------------------
(* What main knows. *)

\* Nothing can move: then no accept is outstanding, and a connection waits on an open
\* socket.
LEMMA QuietMeans ==
    ASSUME Shutdown, AllQuiet, running # {}
    PROVE  /\ AcceptorGone
           /\ \A c \in clientMap : conn[c] = "open" /\ sock[c] = "open"
<1>1. /\ port = <<>> /\ \A w \in Workers : wpc[w] \in {"get", "exited"}
      /\ \A c \in Clients : op[c] => ~Accepting(c) /\ sock[c] = "open"
  BY DEF AllQuiet
<1>2. \A c : ~InPort(c) /\ ~Held(c)
  BY <1>1 DEF InPort, Held, HandPCs
<1>3. \A c \in clientMap : c \in Clients /\ op[c] /\ conn[c] \in {"accepting", "open"}
  BY <1>2 DEF Shutdown, PlaceBase, PlaceInv, MapInv, WhereInv, TypeOK
<1>4. \A c \in Clients : Accepting(c) => c \in clientMap
  BY DEF Accepting, Shutdown, PlaceBase, PlaceInv, MapInv
<1>5. \A c \in clientMap : conn[c] = "open" /\ sock[c] = "open"
  BY <1>1, <1>3 DEF Accepting
<1>6. \A c \in Clients : ~Accepting(c)
  BY <1>4, <1>5 DEF Accepting
<1>7. QED BY <1>1, <1>5, <1>6 DEF AcceptorGone, NoAccepts, AcceptPCs

\* A step of a worker, while main stops the service.
LEMMA StopWorker ==
    ASSUME Shutdown, StopInv, NEW w \in Workers, WorkerStep(w)
    PROVE  StopInv'
<1>1. UNCHANGED <<mainPC, running, pools>>
  BY DEF WorkerStep, Dequeue, Leave, AcceptConnection, Received, RemoveClient, RemoveLockless,
         RepostAccept, AcceptEx, Unpost, Decrement, ReleaseAcceptor, coreVars, serviceVars
<1>2. ~StartNetService
  <2>1. StartNetService => mainPC' = "running" /\ mainPC = "serve"
    BY DEF StartNetService
  <2>2. QED BY <1>1, <2>1
<1>3. Next
  BY DEF Next
<1>4. AcceptorGone => /\ AcceptorGone' /\ clientMap' \subseteq clientMap
                      /\ \A c \in Clients : conn'[c] = "open" => conn[c] = "open" /\ sock'[c] = sock[c]
  BY <1>2, <1>3, AcceptorGoneStays, NoAcceptsWorker DEF AcceptorGone
<1>5. running # {}
  <2>1. wpc[w] # "exited"
    BY DEF WorkerStep, Dequeue, Leave, AcceptConnection, Received, RemoveClient, RemoveLockless,
           RepostAccept, AcceptEx, Unpost, Decrement, ReleaseAcceptor
  <2>2. QED BY <2>1 DEF Shutdown, PhaseInv
<1>6. running' # {} /\ mainPC' \in {"cancel"} \cup CancelledPCs => AcceptorGone'
  BY <1>1, <1>4 DEF StopInv
<1>7. NoLateConnection'
  <2>1. SUFFICES ASSUME mainPC \in CancelledPCs, NEW c \in clientMap', conn'[c] = "open"
                 PROVE  sock'[c] = "closed"
    BY <1>1 DEF NoLateConnection, CancelledPCs
  <2>2. AcceptorGone
    BY <1>5, <2>1 DEF StopInv
  <2>3. c \in clientMap /\ c \in Clients
    BY <1>4, <2>2 DEF Shutdown, PlaceBase, TypeOK
  <2>4. conn[c] = "open" /\ sock'[c] = sock[c]
    BY <1>4, <2>1, <2>2, <2>3
  <2>5. QED BY <2>1, <2>3, <2>4 DEF StopInv, NoLateConnection, CancelledPCs
<1>8. running' # {} /\ (mainPC' = "release" \/ pools' = "freed") => AcceptorGone' /\ clientMap' = {}
  BY <1>1, <1>4 DEF StopInv
<1>9. QED BY <1>6, <1>7, <1>8 DEF StopInv

\* A step of main, with waits that are long enough, or of the others.
LEMMA StopMain ==
    ASSUME ~WaitsExpire, Shutdown, ReleaseInv, StopInv, Next, PhaseInv',
           ~\E w \in Workers : WorkerStep(w)
    PROVE  StopInv'
<1>1. CASE Initialize
  <2>1. mainPC' \in {"serve", "uninit"} /\ pools' = pools
    BY <1>1 DEF Initialize, serviceVars
  <2>2. pools' = "none"
    BY <1>1, <2>1, InitializeWorkers
  <2>3. QED BY <2>1, <2>2 DEF StopInv, NoLateConnection, CancelledPCs
<1>2. CASE StartNetService
  <2>1. mainPC' = "running" /\ pools' = "live"
    BY <1>2 DEF StartNetService
  <2>2. QED BY <2>1 DEF StopInv, NoLateConnection, CancelledPCs
<1>3. CASE ~Initialize /\ ~StartNetService
  <2>1. /\ UNCHANGED <<clientMap, conn, wpc, running>>
        /\ ~CancelClients => sock' = sock
    BY <1>3, OtherSteps
  <2>2. AcceptorGone => AcceptorGone'
    BY <1>3, AcceptorGoneStays
  <2>3. CASE WaitAcceptor
    <3>1. mainPC' = "cancel" /\ pools' = pools /\ mainPC = "waitAcceptor"
      BY <2>3 DEF WaitAcceptor, NoWaitForAcceptor, serviceVars
    <3>2. running # {} => AcceptorGone
      BY <2>3, QuietMeans DEF WaitAcceptor, ReleaseInv
    <3>3. pools' # "freed"
      BY <3>1 DEF Shutdown, PhaseInv, AfterPCs
    <3>4. QED BY <2>1, <2>2, <3>1, <3>2, <3>3 DEF StopInv, NoLateConnection, CancelledPCs
  <2>4. CASE CancelClients
    <3>1. mainPC' = "poll" /\ pools' = pools /\ mainPC = "cancel"
      BY <2>4 DEF CancelClients, serviceVars
    <3>2. running # {} => AcceptorGone
      BY <3>1 DEF StopInv
    <3>3. pools' # "freed"
      BY <3>1 DEF Shutdown, PhaseInv, AfterPCs
    <3>4. \A c \in clientMap : conn[c] = "open" => sock'[c] = "closed"
      BY <2>4 DEF CancelClients, Accepting, Shutdown, PlaceBase, TypeOK
    <3>5. QED BY <2>1, <2>2, <3>1, <3>2, <3>3, <3>4 DEF StopInv, NoLateConnection, CancelledPCs
  <2>5. CASE Poll \/ Nap
    <3>1. mainPC \in {"poll", "nap"} /\ pools' = pools /\ mainPC' \in CancelledPCs /\ sock' = sock
      BY <2>5 DEF Poll, Nap, CancelledPCs, clientVars
    <3>2. running # {} => AcceptorGone
      BY <3>1 DEF StopInv, CancelledPCs
    <3>3. pools' # "freed"
      BY <3>1 DEF Shutdown, PhaseInv, AfterPCs
    <3>4. NoLateConnection'
      BY <2>1, <3>1 DEF StopInv, NoLateConnection, CancelledPCs
    <3>5. ASSUME running # {}, mainPC' = "release" PROVE clientMap = {}
      <4>1. CASE Poll
        BY <3>5, <4>1 DEF Poll
      <4>2. CASE Nap
        <5>1. AllQuiet
          BY <3>5, <4>2 DEF Nap
        <5>2. \A c \in clientMap : conn[c] = "open" /\ sock[c] = "open"
          BY <3>5, <5>1, QuietMeans
        <5>3. \A c \in clientMap : conn[c] = "open" => sock[c] = "closed"
          BY <3>1 DEF StopInv, NoLateConnection
        <5>4. QED BY <5>2, <5>3
      <4>3. QED BY <2>5, <4>1, <4>2
    <3>6. QED BY <2>1, <2>2, <3>1, <3>2, <3>3, <3>4, <3>5 DEF StopInv
  <2>6. CASE ReleaseAllPool
    <3>1. mainPC = "release" /\ mainPC' = "delete"
      BY <2>6 DEF ReleaseAllPool
    <3>2. QED BY <2>1, <2>2, <3>1 DEF StopInv, NoLateConnection, CancelledPCs
  <2>7. CASE RemoveService \/ PostCancel \/ DeleteService \/ UnInitialize \/ PoisonWorkers
             \/ WaitExits \/ CallStop
    <3>1. /\ mainPC' \notin {"cancel"} \cup CancelledPCs /\ pools' = pools
      BY <2>7 DEF RemoveService, PostCancel, DeleteService, UnInitialize, PoisonWorkers,
                  PoisonThese, WaitExits, CallStop, CancelledPCs, serviceVars
    <3>2. QED BY <2>1, <2>2, <3>1 DEF StopInv, NoLateConnection, CancelledPCs
  <2>8. CASE AssistStep \/ \E c \in Clients : Completes(c)
    <3>1. UNCHANGED <<mainPC, pools, sock>>
      BY <2>8 DEF AssistStep, Completes, clientVars, serviceVars
    <3>2. QED BY <2>1, <2>2, <3>1 DEF StopInv, NoLateConnection
  <2>9. QED BY <1>3, <2>3, <2>4, <2>5, <2>6, <2>7, <2>8 DEF Next, MainStep
<1>4. QED BY <1>1, <1>2, <1>3

-----------------------------------------------------------------------------
(* The theorems. *)

\* The invariant in the parts the lemmas are about.
LEMMA ShutdownParts == ShutdownInv <=> Shutdown /\ ReleaseInv /\ StopInv
BY DEF ShutdownInv, Shutdown, PlaceBase, TypeOK, PortType, Packets

\* Nothing has been started.
LEMMA ShutdownInit == Init => ShutdownInv
<1> SUFFICES ASSUME Init PROVE ShutdownInv
  OBVIOUS
<1>1. /\ \A w \in Workers : wpc[w] = "exited"
      /\ \A c \in Clients : conn[c] = "unused" /\ ~op[c]
      /\ port = <<>> /\ clientMap = {} /\ pools = "none" /\ mainPC = "init"
      /\ pending = 0 /\ event = "none"
  BY DEF Init
<1>2. TypeOK
  <2>1. port \in Seq([client : Clients, ok : BOOLEAN] \union {Poison})
    BY <1>1, EmptySeq
  <2>2. QED BY <2>1 DEF Init, TypeOK
<1>3. ThreadTypeOK
  BY DEF Init, ThreadTypeOK
<1>4. PhaseInv
  BY <1>1 DEF Init, PhaseInv, BlankPCs, ServiceCode
<1>5. \A c : ~InPort(c) /\ ~Held(c)
  BY <1>1 DEF InPort, Held, HandPCs
<1>6. PlaceInv
  BY <1>1, <1>5 DEF PlaceInv, MapInv, WhereInv, HandInv, OnePacket, HandPCs
<1>7. PendingCounts
  <2>1. Outstanding = {} /\ AcceptWorkers = {} /\ AcceptExs = {}
    BY <1>1 DEF Outstanding, Accepting, AcceptWorkers, AcceptExs, AcceptPCs
  <2>2. QED BY <1>1, <2>1, FS_EmptySet DEF PendingCounts
<1>8. ReleaseInv
  BY <1>1 DEF ReleaseInv
<1>9. StopInv
  BY <1>1 DEF StopInv, NoLateConnection, CancelledPCs
<1>10. QED BY <1>2, <1>3, <1>4, <1>6, <1>7, <1>8, <1>9 DEF ShutdownInv

\* Every step keeps the invariant.
LEMMA ShutdownStep == ~WaitsExpire /\ ShutdownInv /\ [Next]_vars => ShutdownInv'
<1> SUFFICES ASSUME ~WaitsExpire, ShutdownInv, [Next]_vars PROVE ShutdownInv'
  OBVIOUS
<1>1. CASE Next
  <2>1. Shutdown /\ ReleaseInv /\ StopInv /\ PlaceBase /\ PhaseInv
    BY ShutdownParts DEF Shutdown
  <2>2. PlaceInv' /\ PhaseInv'
    BY <1>1, <2>1, PlaceStep, PhaseStep
  <2>3. PendingCounts' /\ pending' \in Nat
    BY <1>1, <2>1, CountStep
  <2>4. TypeOK' /\ ThreadTypeOK'
    BY <1>1, <2>1, <2>3, TypeStep
  <2>5. ReleaseInv'
    BY <1>1, <2>1, ReleaseStep
  <2>6. StopInv'
    BY <1>1, <2>1, <2>2, StopWorker, StopMain
  <2>7. QED BY <2>2, <2>3, <2>4, <2>5, <2>6 DEF ShutdownInv
<1>2. CASE UNCHANGED vars
  BY <1>2
  DEF vars, coreVars, acceptorVars, clientVars, serviceVars, ShutdownInv, TypeOK, ThreadTypeOK,
      PhaseInv, PlaceInv, MapInv, WhereInv, HandInv, OnePacket, Held, InPort, PendingCounts,
      Outstanding, AcceptWorkers, AcceptExs, Accepting, ReleaseInv, AcceptorGone, NoAccepts,
      StopInv, NoLateConnection
<1>3. QED BY <1>1, <1>2

\* Each client is in one place, mPendingAcceptCount exact, and what main concluded from
\* its waits true.
THEOREM ShutdownInvCorrect ==
    ASSUME ~WaitsExpire
    PROVE  Spec => []ShutdownInv
<1>1. ShutdownInv /\ [Next]_vars => ShutdownInv'
  BY ShutdownStep
<1>2. QED BY <1>1, ShutdownInit, PTL DEF Spec

\* When StopNetService frees the pools, no client is left in the table, no operation of
\* one is with the kernel or queued to the port, and no worker is in the service's code.
THEOREM PoolsReleasedSafely ==
    ASSUME ~WaitsExpire
    PROVE  Spec => []ReleasedSafely
<1>1. ShutdownInv => ReleasedSafely
  <2> SUFFICES ASSUME ShutdownInv, pools = "freed", running # {}
               PROVE  /\ clientMap = {}
                      /\ \A c \in Clients : ~op[c]
                      /\ \A w \in Workers : wpc[w] \notin ServiceCode
                      /\ \A i \in DOMAIN port : port[i] = Poison
    BY DEF ReleasedSafely
  <2>1. AcceptorGone /\ clientMap = {}
    BY DEF ShutdownInv, StopInv
  <2>2. \A c \in Clients : ~op[c] /\ ~InPort(c)
    BY <2>1 DEF ShutdownInv, PlaceInv, WhereInv
  <2>3. \A w \in Workers : wpc[w] \notin HandPCs
    BY <2>1 DEF ShutdownInv, PlaceInv, HandInv
  <2>4. \A w \in Workers : wpc[w] \notin ServiceCode
    BY <2>1, <2>3 DEF AcceptorGone, NoAccepts, HandPCs, AcceptPCs, ServiceCode
  <2>5. \A i \in DOMAIN port : port[i] = Poison
    <3> SUFFICES ASSUME NEW i \in DOMAIN port, port[i] # Poison PROVE FALSE
      OBVIOUS
    <3>1. port[i] \in Packets \union {Poison}
      BY DEF ShutdownInv, TypeOK, Packets
    <3>2. port[i].client \in Clients /\ InPort(port[i].client)
      BY <3>1, PacketFacts DEF InPort
    <3>3. QED BY <2>2, <3>2
  <2>6. QED BY <2>1, <2>2, <2>4, <2>5
<1>2. QED BY <1>1, ShutdownInvCorrect, PTL

\* After CancelIO every connection in the table has its socket closed, also one that was
\* accepted while the service began to stop.
THEOREM NoConnectionSlipsThrough ==
    ASSUME ~WaitsExpire
    PROVE  Spec => []NoLateConnection
<1>1. ShutdownInv => NoLateConnection
  BY DEF ShutdownInv, StopInv
<1>2. QED BY <1>1, ShutdownInvCorrect, PTL

=============================================================================
