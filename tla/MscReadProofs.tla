---------------------------- MODULE MscReadProofs ----------------------------
(***************************************************************************)
(* READ, for any card, buffers, chunk length, commands and faults: what the *)
(* host is told of a command against what it got of it (RInv); that the map *)
(* of a file is its cluster chain and what detect_format accepts is read    *)
(* the way its format says (MapInv, FileMapExact); that the streams, the    *)
(* card and the faults go with the command (UInv); and that the data the    *)
(* host gets is that of the blocks it asked for (TInv, ReadsTruly).         *)
(*                                                                         *)
(* The map is made by recursive functions over sequences of any length. The *)
(* induction they need is got from the well-foundedness of finite sets.     *)
(***************************************************************************)
EXTENDS MscRead, TLAPS, FiniteSetTheorems

---------------------------------------------------------------------------
(* Induction: that the finite sets of numbers are well-founded gives a least *)
(* element to every set of numbers, and that gives induction to the rest.    *)
LEMMA LeastNumber ==
  ASSUME NEW T \in SUBSET Nat, T # {}
  PROVE  \E m \in T : \A k \in T : m <= k
<1>1. PICK n \in T : TRUE OBVIOUS
<1> DEFINE Below(k) == 0..k - 1
           S == {k \in T : k <= n}
           Sets == {Below(k) : k \in S}
           R == StrictSubsetOrdering(Nat)
<1>2. Sets \subseteq FiniteSubsetsOf(Nat)
  <2>1. SUFFICES ASSUME NEW k \in S PROVE Below(k) \in SUBSET Nat /\ IsFiniteSet(Below(k))
    BY DEF FiniteSubsetsOf
  <2>2. QED BY FS_Interval
<1>3. IsWellFoundedOn(R, FiniteSubsetsOf(Nat)) BY FS_StrictSubsetOrderingWellFounded
<1>4. n \in S BY <1>1
<1>5. PICK x \in Sets : \A y \in Sets : ~(<<y, x>> \in R)
  <2>1. Sets # {} BY <1>4
  <2> HIDE DEF Sets, R
  <2>2. QED BY <1>2, <1>3, <2>1, WFMin, Zenon
<1>6. PICK m \in S : x = Below(m) OBVIOUS
<1>7. ASSUME NEW k \in T, k < m PROVE FALSE
  <2>1. k \in S BY <1>7
  <2>2. Below(k) \subseteq Below(m) /\ Below(k) # Below(m) BY <1>7, SMT
  <2>3. <<Below(k), Below(m)>> \in R BY <2>2 DEF StrictSubsetOrdering
  <2>4. QED BY <2>1, <2>3, <1>5, <1>6
<1>8. QED BY <1>7, SMT

LEMMA SetInduction ==
  ASSUME NEW S, 0 \in S, \A n \in Nat : n \in S => n + 1 \in S
  PROVE  Nat \subseteq S
<1> DEFINE T == Nat \ S
<1>1. SUFFICES ASSUME T # {} PROVE FALSE OBVIOUS
<1>2. PICK m \in T : \A k \in T : m <= k BY <1>1, LeastNumber
<1>3. m # 0 /\ m - 1 \in Nat /\ m - 1 \in S BY <1>2
<1>4. (m - 1) + 1 \in S BY <1>3
<1>5. QED BY <1>4

(* A function defined by recursion along p, which lowers mu, exists.        *)
Recursion(D, V, mu, p, Z, G) ==
  /\ mu \in [D -> Nat] /\ p \in [D -> D] /\ Z \in [D -> V] /\ G \in [D \X V -> V]
  /\ \A d \in D : mu[d] # 0 => mu[p[d]] < mu[d]
Solves(f, D, V, mu, p, Z, G) ==
  f \in [D -> V] /\ \A d \in D : f[d] = IF mu[d] = 0 THEN Z[d] ELSE G[<<d, f[p[d]]>>]
LEMMA RecursionExists ==
  ASSUME NEW D, NEW V, NEW mu, NEW p, NEW Z, NEW G, Recursion(D, V, mu, p, Z, G)
  PROVE  \E f : Solves(f, D, V, mu, p, Z, G)
<1>0. /\ mu \in [D -> Nat] /\ p \in [D -> D] /\ Z \in [D -> V] /\ G \in [D \X V -> V]
      /\ \A d \in D : mu[d] # 0 => mu[p[d]] < mu[d]
  BY DEF Recursion
<1> DEFINE Step(f, d) == f[d] = IF mu[d] = 0 THEN Z[d] ELSE G[<<d, f[p[d]]>>]
           Good(f, k) == f \in [D -> V] /\ \A d \in D : mu[d] <= k => Step(f, d)
           S == {k \in Nat : \E f : Good(f, k)}
<1>1. 0 \in S
  <2>1. Good(Z, 0) BY <1>0
  <2>2. QED BY <2>1
<1>2. ASSUME NEW k \in Nat, k \in S PROVE k + 1 \in S
  <2>1. PICK f : Good(f, k) BY <1>2
  <2> DEFINE g == [d \in D |-> IF mu[d] = k + 1 THEN G[<<d, f[p[d]]>>] ELSE f[d]]
  <2>2. g \in [D -> V] BY <1>0, <2>1
  <2>3. ASSUME NEW d \in D, mu[d] <= k + 1 PROVE Step(g, d)
    <3>1. mu[d] # 0 => p[d] \in D /\ mu[p[d]] < k + 1 /\ mu[p[d]] \in Nat BY <1>0, <2>3
    <3>2. mu[d] # 0 => g[p[d]] = f[p[d]] BY <3>1
    <3>3. CASE mu[d] = k + 1 BY <1>0, <3>2, <3>3
    <3>4. CASE mu[d] # k + 1
      <4>1. mu[d] <= k BY <1>0, <2>3, <3>4
      <4>2. Step(f, d) BY <2>1, <4>1
      <4>3. g[d] = f[d] BY <3>4
      <4>4. QED BY <3>2, <4>2, <4>3
    <3>5. QED BY <3>3, <3>4
  <2> HIDE DEF g
  <2>4. Good(g, k + 1) BY <2>2, <2>3
  <2> HIDE DEF Good
  <2>5. QED BY <2>4
<1>3. Nat \subseteq S
  <2> HIDE DEF S
  <2>1. QED BY <1>1, <1>2, SetInduction
<1>4. ASSUME NEW f, NEW g, NEW k \in Nat, NEW l \in Nat, Good(f, k), Good(g, l), NEW d \in D, mu[d] <= k, mu[d] <= l
      PROVE  f[d] = g[d]
  <2> DEFINE Bad == {e \in D : mu[e] <= k /\ mu[e] <= l /\ f[e] # g[e]}
             T == {mu[e] : e \in Bad}
  <2>1. SUFFICES ASSUME T # {} PROVE FALSE
    <3>1. f[d] # g[d] => d \in Bad BY <1>4
    <3>2. QED BY <3>1
  <2>2. T \in SUBSET Nat BY <1>0
  <2>3. PICK m \in T : \A n \in T : m <= n
    <3> HIDE DEF T
    <3>1. QED BY <2>1, <2>2, LeastNumber
  <2>4. PICK e \in D : mu[e] = m /\ mu[e] <= k /\ mu[e] <= l /\ f[e] # g[e] BY <2>3
  <2>5. Step(f, e) /\ Step(g, e) BY <1>4, <2>4
  <2>6. mu[e] # 0 BY <2>4, <2>5
  <2>7. p[e] \in D /\ mu[p[e]] \in Nat /\ mu[p[e]] < m BY <1>0, <2>4, <2>6
  <2>8. mu[p[e]] <= k /\ mu[p[e]] <= l BY <1>0, <2>4, <2>7
  <2>9. f[p[e]] # g[p[e]] BY <2>4, <2>5, <2>6
  <2>10. mu[p[e]] \in T BY <2>7, <2>8, <2>9
  <2>11. m <= mu[p[e]]
    <3> HIDE DEF T
    <3>1. QED BY <2>3, <2>10
  <2>12. m \in Nat BY <1>0, <2>4
  <2>13. QED BY <2>7, <2>11, <2>12
<1> DEFINE at == [d \in D |-> CHOOSE g : Good(g, mu[d])]
           f == [d \in D |-> at[d][d]]
<1>5. \A d \in D : Good(at[d], mu[d])
  <2>1. ASSUME NEW d \in D PROVE Good(at[d], mu[d])
    <3>1. mu[d] \in S BY <1>0, <1>3
    <3>2. \E g : Good(g, mu[d]) BY <3>1
    <3> HIDE DEF Good
    <3>3. QED BY <3>2
  <2> HIDE DEF Good, at
  <2>2. QED BY <2>1
<1>6. ASSUME NEW d \in D PROVE f[d] \in V /\ Step(f, d)
  <2>1. Good(at[d], mu[d]) BY <1>5
  <2>2. at[d] \in [D -> V] /\ Step(at[d], d) /\ f[d] = at[d][d]
    <3>1. mu[d] <= mu[d] BY <1>0
    <3>2. f[d] = at[d][d] OBVIOUS
    <3> HIDE DEF at, f
    <3>3. QED BY <2>1, <3>1, <3>2
  <2>3. CASE mu[d] = 0 BY <2>2, <2>3
  <2>4. CASE mu[d] # 0
    <3>1. p[d] \in D /\ mu[p[d]] \in Nat /\ mu[d] \in Nat /\ mu[p[d]] <= mu[p[d]] /\ mu[p[d]] <= mu[d] BY <1>0, <2>4
    <3>2. Good(at[p[d]], mu[p[d]]) BY <3>1, <1>5
    <3>3. at[p[d]][p[d]] = at[d][p[d]]
      <4> HIDE DEF Good, at
      <4>1. QED BY <1>4, <2>1, <3>1, <3>2
    <3>4. f[p[d]] = at[d][p[d]] BY <3>1, <3>3
    <3> HIDE DEF f, at
    <3>5. QED BY <2>2, <2>4, <3>4
  <2>5. QED BY <2>3, <2>4
<1>7. f \in [D -> V] BY <1>6
<1> HIDE DEF f
<1>8. QED BY <1>6, <1>7 DEF Solves
---------------------------------------------------------------------------
(* The fields of a record, whatever their values.                           *)
CmdRec(c)  == c = [pc |-> c.pc, lun |-> c.lun, bytes |-> c.bytes, sent |-> c.sent, filled |-> c.filled,
                   fsec |-> c.fsec, seg |-> c.seg, segDone |-> c.segDone, idx |-> c.idx, open |-> c.open,
                   passed |-> c.passed]
HostRec(h) == h = [lun |-> h.lun, first |-> h.first, n |-> h.n, want |-> h.want, got |-> h.got,
                   status |-> h.status, residue |-> h.residue]

IsList(s)   == \E S : s \in Seq(S)
Buffers(m)  == m = [b \in Buf |-> [i \in 1..ChunkLen |-> m[b][i]]]
OnTheWay(q) == IF q = <<>> THEN 0 ELSE IF Len(q) = 1 THEN q[1].len ELSE q[1].len + q[2].len

Packets == [buf : Buf, len : 0..ChunkLen]
Filling == {"wait", "fill", "read", "end"}
Typed ==
  /\ cmd.pc \in Filling \cup {"idle", "fail", "drain"} /\ CmdRec(cmd)
  /\ cmd.bytes \in Nat /\ cmd.sent \in Nat /\ cmd.idx \in Buf /\ cmd.passed \in BOOLEAN
  /\ HostRec(host) /\ moved \in BOOLEAN /\ Buffers(mem)
  /\ txq \in Seq(Packets) /\ Len(txq) <= 2
  /\ host.want \in Nat /\ IsList(host.got)

(* A command under way that no reset has hit: what is counted as sent is    *)
(* what the host has, and what is on its way.                               *)
Counted ==
  /\ cmd.pc = "idle" => txq = <<>>
  /\ cmd.pc # "idle" /\ ~moved =>
       /\ host.status = "pending" /\ cmd.sent = Len(host.got) + OnTheWay(txq)
       /\ cmd.bytes <= host.want /\ (host.n = host.want => cmd.bytes = host.want)
  /\ cmd.pc # "idle" /\ moved => host = NoCommand
  /\ cmd.sent <= cmd.bytes
  /\ cmd.pc \in Filling => cmd.passed
  /\ cmd.pc = "fail" => ~cmd.passed
  /\ cmd.pc = "drain" /\ cmd.passed => cmd.sent = cmd.bytes

RInv == Typed /\ Counted /\ ResidueTold

---------------------------------------------------------------------------
(* Lists of whatever. *)
LEMMA ListFacts ==
  /\ IsList(<<>>) /\ Len(<<>>) = 0
  /\ \A s, t : IsList(s) /\ IsList(t) => IsList(s \o t) /\ Len(s \o t) = Len(s) + Len(t)
  /\ \A s : IsList(s) => Len(s) \in Nat
<1>1. IsList(<<>>) /\ Len(<<>>) = 0
  <2>1. <<>> \in Seq({}) OBVIOUS
  <2>2. QED BY <2>1 DEF IsList
<1>2. ASSUME NEW s, NEW t, IsList(s), IsList(t)
      PROVE  IsList(s \o t) /\ Len(s \o t) = Len(s) + Len(t)
  <2>1. PICK S : s \in Seq(S) BY <1>2 DEF IsList
  <2>2. PICK T : t \in Seq(T) BY <1>2 DEF IsList
  <2>3. s \in Seq(S \cup T) /\ t \in Seq(S \cup T) BY <2>1, <2>2
  <2>4. s \o t \in Seq(S \cup T) /\ Len(s \o t) = Len(s) + Len(t) BY <2>3
  <2>5. QED BY <2>4 DEF IsList
<1>3. ASSUME NEW s, IsList(s) PROVE Len(s) \in Nat BY <1>3 DEF IsList
<1>4. QED BY <1>1, <1>2, <1>3

(* The first len blocks of a buffer. *)
LEMMA FirstBlocks ==
  ASSUME Buffers(mem), NEW b \in Buf, NEW len \in 0..ChunkLen
  PROVE  IsList(SubSeq(mem[b], 1, len)) /\ Len(SubSeq(mem[b], 1, len)) = len
<1> DEFINE S == {mem[b][i] : i \in 1..ChunkLen}
<1>1. mem[b] = [i \in 1..ChunkLen |-> mem[b][i]] BY DEF Buffers
<1>2. mem[b] \in [1..ChunkLen -> S] BY <1>1
<1> HIDE DEF S
<1>3. mem[b] \in Seq(S) /\ Len(mem[b]) = ChunkLen BY <1>2, ReadAssumption
<1>4. SubSeq(mem[b], 1, len) \in Seq(S) /\ Len(SubSeq(mem[b], 1, len)) = len
  BY <1>3, ReadAssumption
<1>5. QED BY <1>4 DEF IsList

LEMMA Counts ==
  ASSUME NEW a, NEW b, a \in Int, b \in Int
  PROVE  Lesser(a, b) \in Int /\ Lesser(a, b) <= a /\ Lesser(a, b) <= b /\ (Lesser(a, b) = a \/ Lesser(a, b) = b)
BY DEF Lesser

(* What is stored lands in a buffer. *)
LEMMA StoreKeeps ==
  ASSUME Buffers(mem), NEW b, NEW at, NEW s, Store(b, at, s)
  PROVE  Buffers(mem)'
<1> DEFINE new == [i \in 1..ChunkLen |-> IF i \in at + 1..at + Len(s) THEN s[i - at] ELSE mem[b][i]]
<1>1. mem' = [mem EXCEPT ![b] = new] BY DEF Store
<1>2. mem' = [c \in Buf |-> IF c = b THEN new ELSE mem[c]] BY <1>1 DEF Buffers
<1>3. ASSUME NEW c \in Buf PROVE mem'[c] = [i \in 1..ChunkLen |-> mem'[c][i]]
  <2>1. CASE c = b
    <3>1. mem'[c] = new BY <1>2, <2>1
    <3>2. QED BY <3>1
  <2>2. CASE c # b
    <3>1. mem'[c] = mem[c] BY <1>2, <2>2
    <3>2. mem[c] = [i \in 1..ChunkLen |-> mem[c][i]] BY DEF Buffers
    <3>3. QED BY <3>1, <3>2
  <2>3. QED BY <2>1, <2>2
<1>4. mem' = [c \in Buf |-> mem'[c]] BY <1>2
<1>5. QED BY <1>3, <1>4, Zenon DEF Buffers

---------------------------------------------------------------------------
(* How a step may move the command on that neither queues, returns nor      *)
(* touches what the host knows.                                             *)
Onward ==
  /\ CmdRec(cmd') /\ cmd'.bytes = cmd.bytes /\ cmd'.sent = cmd.sent /\ cmd'.idx = cmd.idx
  /\ \/ cmd'.pc = cmd.pc /\ cmd'.passed = cmd.passed
     \/ cmd.pc \in Filling /\ cmd'.pc \in Filling /\ cmd'.passed = cmd.passed
     \/ cmd.pc \in Filling /\ cmd'.pc = "fail" /\ cmd'.passed = FALSE
     \/ cmd.pc = "wait" /\ cmd.sent = cmd.bytes /\ cmd'.pc = "drain" /\ cmd'.passed = cmd.passed
     \/ cmd.pc = "fail" /\ cmd'.pc = "drain" /\ cmd'.passed = cmd.passed

LEMMA Continues ==
  ASSUME RInv, Onward, Buffers(mem)', host' = host, txq' = txq, moved' = moved
  PROVE  RInv'
<1>1. Typed'
  BY DEF RInv, Typed, Onward, Filling
<1>2. Counted'
  BY DEF RInv, Typed, Counted, Onward, Filling
<1>3. ResidueTold' BY DEF RInv, ResidueTold
<1>4. QED BY <1>1, <1>2, <1>3 DEF RInv

(* The driver and the card. *)
LEMMA StreamKeepsBuffers ==
  ASSUME Buffers(mem), StreamStep \/ PullCard
  PROVE  Buffers(mem)'
<1>1. CASE StartChunk BY <1>1, StoreKeeps DEF StartChunk
<1>2. CASE ChunkRead BY <1>2, StoreKeeps DEF ChunkRead
<1>3. CASE ChunkFails
  <2>1. PICK k \in 0..io.cnt - 1 : Store(io.buf, io.at, [i \in 1..k |-> Block(line.at + i - 1)])
    BY <1>3 DEF ChunkFails
  <2>2. QED BY <2>1, StoreKeeps
<1>4. CASE RecoverRead BY <1>4 DEF RecoverRead, Buffers
<1>5. CASE PullCard BY <1>5 DEF PullCard, Buffers
<1>6. QED BY <1>1, <1>2, <1>3, <1>4, <1>5 DEF StreamStep

LEMMA UnderTheCommand ==
  ASSUME RInv, Driver \/ Pulled
  PROVE  RInv'
<1>1. host' = host /\ txq' = txq /\ moved' = moved /\ cmd' = cmd BY DEF Driver, Pulled
<1>2. Buffers(mem)' BY StreamKeepsBuffers DEF Driver, Pulled, RInv, Typed
<1>3. Onward BY <1>1 DEF Onward, RInv, Typed
<1>4. QED BY <1>1, <1>2, <1>3, Continues

LEMMA WaitBufferKeeps ==
  ASSUME RInv, WaitBuffer
  PROVE  RInv'
<1>1. host' = host /\ txq' = txq /\ moved' = moved /\ mem' = mem
  BY DEF WaitBuffer, Unmoved, readVars
<1>2. Onward
  <2>1. cmd.pc = "wait" /\ CmdRec(cmd) BY DEF WaitBuffer, At, RInv, Typed
  <2>2. CASE cmd.sent = cmd.bytes /\ cmd' = [cmd EXCEPT !.pc = "drain"]
    BY <2>1, <2>2 DEF CmdRec, Onward, Filling
  <2>3. CASE cmd' = [cmd EXCEPT !.pc = "fill", !.filled = 0]
    BY <2>1, <2>3 DEF CmdRec, Onward, Filling
  <2>4. QED BY <2>2, <2>3 DEF WaitBuffer
<1>3. Buffers(mem)' BY <1>1 DEF Buffers, RInv, Typed
<1>4. QED BY <1>1, <1>2, <1>3, Continues

LEMMA MapRunKeeps ==
  ASSUME RInv, MapRun
  PROVE  RInv'
<1>1. host' = host /\ txq' = txq /\ moved' = moved BY DEF MapRun
<1>2. cmd.pc = "fill" /\ CmdRec(cmd) BY DEF MapRun, At, RInv, Typed
<1>3. PICK z, run :
        \/ Fails /\ mem' = mem
        \/ /\ Store(cmd.idx, cmd.filled, [i \in 1..z |-> Zero])
           /\ cmd' = [cmd EXCEPT !.filled = @ + z, !.fsec = @ + z]
        \/ /\ mem' = mem
           /\ cmd' = [cmd EXCEPT !.open = TRUE, !.seg = run, !.segDone = 0] \/ Fails
  BY DEF MapRun
<1>4. Buffers(mem)'
  <2>1. CASE mem' = mem BY <2>1 DEF RInv, Typed, Buffers
  <2>2. CASE Store(cmd.idx, cmd.filled, [i \in 1..z |-> Zero]) BY <2>2, StoreKeeps DEF RInv, Typed
  <2>3. QED BY <1>3, <2>1, <2>2
<1>5. Onward
  <2>1. CASE Fails BY <1>2, <2>1 DEF Fails, CmdRec, Onward, Filling
  <2>2. CASE cmd' = [cmd EXCEPT !.filled = @ + z, !.fsec = @ + z]
    BY <1>2, <2>2 DEF CmdRec, Onward, Filling
  <2>3. CASE cmd' = [cmd EXCEPT !.open = TRUE, !.seg = run, !.segDone = 0]
    BY <1>2, <2>3 DEF CmdRec, Onward, Filling
  <2>4. QED BY <1>3, <2>1, <2>2, <2>3
<1>6. QED BY <1>1, <1>4, <1>5, Continues

LEMMA PiecesKeep ==
  ASSUME RInv, ReadPiece \/ PieceRead \/ RunEnded \/ Fail
  PROVE  RInv'
<1>1. host' = host /\ txq' = txq /\ moved' = moved
  BY DEF ReadPiece, PieceRead, RunEnded, Fail, Unmoved
<1>2. Buffers(mem)'
  <2>1. mem' = mem
    BY DEF ReadPiece, PieceRead, RunEnded, Fail, PushRead, EndRead, AbortRead, readVars
  <2>2. QED BY <2>1 DEF Buffers, RInv, Typed
<1>3. CmdRec(cmd) BY DEF RInv, Typed
<1>4. Onward
  <2>1. CASE ReadPiece
    <3>1. cmd.pc = "fill" /\ cmd' = [cmd EXCEPT !.pc = "read"] BY <2>1 DEF ReadPiece, At
    <3>2. QED BY <1>3, <3>1 DEF CmdRec, Onward, Filling
  <2>2. CASE PieceRead
    <3>1. PICK c : /\ c.pc = "fill" /\ c = [cmd EXCEPT !.pc = "fill", !.filled = cmd.filled + Piece,
                         !.segDone = cmd.segDone + Piece, !.fsec = cmd.fsec + Piece]
                   /\ \/ cmd' = [cmd EXCEPT !.pc = "fail", !.passed = FALSE, !.open = FALSE]
                      \/ cmd' = c
                      \/ cmd' = [c EXCEPT !.pc = "end", !.open = FALSE]
      <4> DEFINE c == [cmd EXCEPT !.pc = "fill", !.filled = cmd.filled + Piece,
                         !.segDone = cmd.segDone + Piece, !.fsec = cmd.fsec + Piece]
      <4>1. c.pc = "fill" BY <1>3 DEF CmdRec
      <4>2. \/ cmd' = [cmd EXCEPT !.pc = "fail", !.passed = FALSE, !.open = FALSE]
            \/ cmd' = c
            \/ cmd' = [c EXCEPT !.pc = "end", !.open = FALSE]
        BY <2>2 DEF PieceRead
      <4>3. QED BY <4>1, <4>2
    <3>2. cmd.pc = "read" BY <2>2 DEF PieceRead, At
    <3>3. CASE cmd' = [cmd EXCEPT !.pc = "fail", !.passed = FALSE, !.open = FALSE]
      BY <1>3, <3>2, <3>3 DEF CmdRec, Onward, Filling
    <3>4. CASE cmd' = c BY <1>3, <3>1, <3>2, <3>4 DEF CmdRec, Onward, Filling
    <3>5. CASE cmd' = [c EXCEPT !.pc = "end", !.open = FALSE]
      BY <1>3, <3>1, <3>2, <3>5 DEF CmdRec, Onward, Filling
    <3>6. QED BY <3>1, <3>3, <3>4, <3>5
  <2>3. CASE RunEnded
    <3>1. cmd.pc = "end" /\ (cmd' = [cmd EXCEPT !.pc = "fill"] \/ cmd' = [cmd EXCEPT !.pc = "fail", !.passed = FALSE])
      BY <2>3 DEF RunEnded, At, Fails
    <3>2. QED BY <1>3, <3>1 DEF CmdRec, Onward, Filling
  <2>4. CASE Fail
    <3>1. cmd.pc = "fail" /\ cmd' = [cmd EXCEPT !.pc = "drain", !.open = FALSE] BY <2>4 DEF Fail, At
    <3>2. QED BY <1>3, <3>1 DEF CmdRec, Onward, Filling
  <2>5. QED BY <2>1, <2>2, <2>3, <2>4
<1>5. QED BY <1>1, <1>2, <1>4, Continues

LEMMA ChunkCounts ==
  ASSUME Typed, cmd.sent <= cmd.bytes
  PROVE  Chunk \in 0..ChunkLen /\ cmd.sent + Chunk <= cmd.bytes
BY ReadAssumption DEF Chunk, Lesser, Typed

(* The ends of a queue. *)
LEMMA QueueFront ==
  ASSUME NEW S, NEW q \in Seq(S)
  PROVE  /\ Len(q) \in Nat /\ (q = <<>> <=> Len(q) = 0) /\ (\A i \in 1..Len(q) : q[i] \in S)
         /\ q # <<>> => /\ Head(q) = q[1] /\ Tail(q) \in Seq(S) /\ Len(Tail(q)) = Len(q) - 1
                        /\ \A i \in 1..Len(q) - 1 : Tail(q)[i] = q[i + 1]
OBVIOUS

LEMMA QueueBack ==
  ASSUME NEW S, NEW q \in Seq(S), NEW p \in S
  PROVE  /\ Append(q, p) \in Seq(S) /\ Len(Append(q, p)) = Len(q) + 1 /\ Append(q, p)[Len(q) + 1] = p
         /\ \A i \in 1..Len(q) : Append(q, p)[i] = q[i]
OBVIOUS

LEMMA EmptyList == <<>> \in Seq(Packets) /\ Len(<<>>) <= 2
OBVIOUS

LEMMA PacketFields ==
  ASSUME NEW p \in Packets
  PROVE  p.buf \in Buf /\ p.len \in 0..ChunkLen /\ p.len \in Int
BY ReadAssumption DEF Packets

LEMMA OnTheWayGrows ==
  ASSUME NEW q \in Seq(Packets), Len(q) <= 1, NEW p \in Packets
  PROVE  /\ Append(q, p) \in Seq(Packets) /\ Len(Append(q, p)) <= 2
         /\ OnTheWay(q) \in Int /\ OnTheWay(Append(q, p)) = OnTheWay(q) + p.len
<1> DEFINE r == Append(q, p)
<1>1. r \in Seq(Packets) /\ Len(r) = Len(q) + 1 /\ r[Len(q) + 1] = p /\ \A i \in 1..Len(q) : r[i] = q[i]
  BY QueueBack
<1>2. Len(q) \in Nat /\ (q = <<>> <=> Len(q) = 0) /\ \A i \in 1..Len(q) : q[i] \in Packets
  BY QueueFront
<1>3. Len(q) = 0 \/ Len(q) = 1
  <2>1. \A n \in Nat : n <= 1 => n = 0 \/ n = 1 OBVIOUS
  <2>2. QED BY <1>2, <2>1
<1>4. p.len \in Int BY PacketFields
<1> HIDE DEF r
<1>5. r = <<>> <=> Len(r) = 0 BY <1>1, QueueFront
<1>6. OnTheWay(q) \in Int /\ OnTheWay(r) = OnTheWay(q) + p.len
  <2>1. CASE Len(q) = 0
    <3>1. Len(r) = 1 /\ r[1] = p /\ r # <<>> BY <1>1, <1>5, <2>1
    <3>2. OnTheWay(q) = 0 /\ OnTheWay(r) = p.len BY <1>2, <2>1, <3>1 DEF OnTheWay
    <3>3. QED BY <1>4, <3>2
  <2>2. CASE Len(q) = 1
    <3>1. Len(r) = 2 /\ r[2] = p /\ r[1] = q[1] /\ r # <<>> BY <1>1, <1>5, <2>2
    <3>2. q[1] \in Packets BY <1>2, <2>2
    <3>3. q[1].len \in Int BY <3>2, PacketFields
    <3>4. OnTheWay(q) = q[1].len /\ OnTheWay(r) = q[1].len + p.len BY <1>2, <2>2, <3>1 DEF OnTheWay
    <3>5. QED BY <1>4, <3>3, <3>4
  <2>3. QED BY <1>3, <2>1, <2>2
<1>7. QED BY <1>1, <1>3, <1>6 DEF r

LEMMA OnTheWayShrinks ==
  ASSUME NEW q \in Seq(Packets), Len(q) <= 2, q # <<>>
  PROVE  /\ Tail(q) \in Seq(Packets) /\ Len(Tail(q)) <= 2
         /\ Head(q).buf \in Buf /\ Head(q).len \in 0..ChunkLen
         /\ OnTheWay(Tail(q)) \in Int /\ OnTheWay(q) = Head(q).len + OnTheWay(Tail(q))
<1> DEFINE r == Tail(q)
<1>1. /\ Len(q) \in Nat /\ Len(q) # 0 /\ (\A i \in 1..Len(q) : q[i] \in Packets)
      /\ Head(q) = q[1] /\ r \in Seq(Packets) /\ Len(r) = Len(q) - 1
      /\ \A i \in 1..Len(q) - 1 : r[i] = q[i + 1]
  BY QueueFront
<1>2. Len(q) = 1 \/ Len(q) = 2 BY <1>1
<1> HIDE DEF r
<1>3. r = <<>> <=> Len(r) = 0 BY <1>1, QueueFront
<1>4. q[1] \in Packets BY <1>1, <1>2
<1>5. q[1].buf \in Buf /\ q[1].len \in 0..ChunkLen /\ q[1].len \in Int BY <1>4, PacketFields
<1>6. OnTheWay(r) \in Int /\ OnTheWay(q) = q[1].len + OnTheWay(r)
  <2>1. CASE Len(q) = 1
    <3>1. OnTheWay(r) = 0 /\ OnTheWay(q) = q[1].len BY <1>1, <1>3, <2>1 DEF OnTheWay
    <3>2. QED BY <1>5, <3>1
  <2>2. CASE Len(q) = 2
    <3>1. r[1] = q[2] /\ q[2] \in Packets /\ Len(r) = 1 BY <1>1, <2>2
    <3>2. q[2].len \in Int BY <3>1, PacketFields
    <3>3. OnTheWay(r) = q[2].len /\ OnTheWay(q) = q[1].len + q[2].len
      BY <1>3, <2>2, <3>1 DEF OnTheWay
    <3>4. QED BY <1>5, <3>2, <3>3
  <2>3. QED BY <1>2, <2>1, <2>2
<1>7. Len(r) <= 2 BY <1>1, <1>2
<1>8. QED BY <1>1, <1>5, <1>6, <1>7 DEF r

LEMMA QueueKeeps ==
  ASSUME RInv, Queue
  PROVE  RInv'
<1> DEFINE p == [buf |-> cmd.idx, len |-> Chunk]
<1>1. /\ cmd.pc = "fill" /\ Len(txq) <= 1 /\ txq' = Append(txq, p) /\ host' = host /\ moved' = moved /\ mem' = mem
      /\ cmd' = [cmd EXCEPT !.pc = "wait", !.sent = cmd.sent + Chunk, !.idx = (cmd.idx + 1) % NBuf]
  BY DEF Queue, At, MayFill, Drained, Unmoved, readVars
<1>2. Chunk \in 0..ChunkLen /\ cmd.sent + Chunk <= cmd.bytes BY ChunkCounts DEF RInv, Counted
<1>3. p \in Packets BY <1>2 DEF RInv, Typed, Packets
<1>4. /\ txq' \in Seq(Packets) /\ Len(txq') <= 2
      /\ OnTheWay(txq') = OnTheWay(txq) + Chunk
  <2>1. txq \in Seq(Packets) BY DEF RInv, Typed
  <2> HIDE DEF p
  <2>2. p.len = Chunk BY DEF p
  <2>3. QED BY <1>1, <1>3, <2>1, <2>2, OnTheWayGrows
<1>5. (cmd.idx + 1) % NBuf \in Buf BY CommandAssumption DEF RInv, Typed
<1>6. /\ CmdRec(cmd') /\ cmd'.pc = "wait" /\ cmd'.bytes = cmd.bytes /\ cmd'.sent = cmd.sent + Chunk
      /\ cmd'.idx \in Buf /\ cmd'.passed = cmd.passed
  <2>1. CmdRec(cmd) BY DEF RInv, Typed
  <2>2. QED BY <1>1, <1>5, <2>1 DEF CmdRec
<1>7. Typed'
  BY <1>1, <1>2, <1>4, <1>6, ReadAssumption DEF RInv, Typed, Buffers, Filling
<1>8. Counted'
  <2>1. OnTheWay(txq) \in Int BY <1>1, <1>3, OnTheWayGrows DEF RInv, Typed
  <2>2. ~moved => Len(host.got) \in Int BY ListFacts DEF RInv, Typed
  <2>3. QED BY <1>1, <1>2, <1>4, <1>6, <2>1, <2>2, ReadAssumption DEF RInv, Typed, Counted, Filling
<1>9. ResidueTold' BY <1>1 DEF RInv, ResidueTold
<1>10. QED BY <1>7, <1>8, <1>9 DEF RInv

LEMMA FreshBuffers ==
  ASSUME mem' = [b \in Buf |-> [i \in 1..ChunkLen |-> Junk]]
  PROVE  Buffers(mem)'
BY DEF Buffers

LEMMA NothingAsked == IdleCmd.idx \in Buf /\ CmdRec(IdleCmd) /\ HostRec(NoCommand)
BY CommandAssumption DEF IdleCmd, NoCommand, CmdRec, HostRec

(* The command returns, told to the host or given up.                       *)
LEMMA FinishKeeps ==
  ASSUME RInv, Finish \/ Abandoned
  PROVE  RInv'
<1>1. cmd' = IdleCmd /\ txq' = <<>> /\ Buffers(mem)' /\ moved' = moved
  BY FreshBuffers DEF Finish, Abandoned, Return, Unmoved
<1>2. HostRec(host') /\ host'.want = host.want /\ host'.got = host.got /\ ResidueTold'
  <2>1. HostRec(host) BY DEF RInv, Typed
  <2>2. CASE host' = host BY <2>1, <2>2 DEF RInv, ResidueTold
  <2>3. CASE host' # host
    <3>1. /\ Finish /\ ~moved /\ cmd.pc = "drain" /\ Len(txq) <= 0
          /\ host' = [host EXCEPT !.status = IF cmd.passed THEN "passed" ELSE "failed", !.residue = host.want - cmd.sent]
      BY <2>3 DEF Finish, Abandoned, Return, At, Drained
    <3>2. /\ HostRec(host') /\ host'.want = host.want /\ host'.got = host.got /\ host'.n = host.n
          /\ host'.residue = host.want - cmd.sent
          /\ host'.status = IF cmd.passed THEN "passed" ELSE "failed"
      BY <2>1, <3>1 DEF HostRec
    <3>3. cmd.sent = Len(host.got)
      <4>1. txq = <<>> BY <3>1, QueueFront DEF RInv, Typed
      <4>2. Len(host.got) \in Nat BY ListFacts DEF RInv, Typed
      <4>3. QED BY <3>1, <4>1, <4>2 DEF RInv, Counted, OnTheWay
    <3>4. /\ cmd.sent \in Nat /\ host.want \in Nat /\ cmd.sent <= host.want
          /\ cmd.passed /\ host.n = host.want => cmd.sent = host.want
      BY <3>1 DEF RInv, Typed, Counted
    <3>5. ResidueTold' BY <3>2, <3>3, <3>4 DEF ResidueTold
    <3>6. QED BY <3>2, <3>5
  <2>4. QED BY <2>2, <2>3
<1>3. Typed' BY <1>1, <1>2, NothingAsked, EmptyList DEF RInv, Typed, IdleCmd
<1>4. Counted' BY <1>1 DEF Counted, IdleCmd, Filling
<1>5. QED BY <1>2, <1>3, <1>4 DEF RInv

LEMMA BytesFit ==
  ASSUME NEW n \in Nat, NEW bs \in {1, IsoSectors}, NEW want \in 0..ByteWord - 1
  PROVE  /\ Bytes(n, bs, want) \in Nat /\ Bytes(n, bs, want) <= want
         /\ n * bs = want => Bytes(n, bs, want) = want
<1> DEFINE b == (n * bs) % ByteWord
<1>1. n * bs \in Nat /\ bs \in Nat /\ bs > 0 BY DEF IsoSectors
<1>2. b \in 0..ByteWord - 1 BY <1>1, CommandAssumption
<1>3. want % bs \in 0..bs - 1 /\ want % bs <= want BY <1>1, CommandAssumption DEF IsoSectors
<1>4. n * bs = want => b = want
  <2>1. \A x \in 0..ByteWord - 1 : x % ByteWord = x BY CommandAssumption
  <2>2. QED BY <2>1
<1> HIDE DEF b
<1>5. Bytes(n, bs, want) = IF b > want THEN want - (want % bs) ELSE b BY DEF Bytes, b
<1>6. want \in Nat BY CommandAssumption
<1>7. CASE b > want BY <1>1, <1>2, <1>3, <1>4, <1>5, <1>6, <1>7
<1>8. CASE ~(b > want) BY <1>1, <1>2, <1>4, <1>5, <1>6, <1>8
<1>9. QED BY <1>7, <1>8

LEMMA IssueKeeps ==
  ASSUME RInv, NEW l \in {"sd", "dvd", "disk"}, NEW lba \in Starts, NEW c \in CmdLens, Issue(l, lba, c[1], c[2])
  PROVE  RInv'
<1> DEFINE bs == BlockSize(l)
           h  == [NoCommand EXCEPT !.lun = l, !.first = lba * bs, !.n = c[1] * bs, !.want = c[2]]
<1>1. c[1] \in Nat /\ c[2] \in 0..ByteWord - 1 /\ c[2] \in Nat /\ bs \in {1, IsoSectors}
  BY CommandAssumption DEF BlockSize
<1>2. HostRec(h) /\ h.n = c[1] * bs /\ h.want = c[2] /\ h.got = <<>>
  <2> DEFINE v == lba * bs
             n == c[1] * bs
  <2>1. h = [NoCommand EXCEPT !.lun = l, !.first = v, !.n = n, !.want = c[2]] OBVIOUS
  <2> HIDE DEF v, n, h
  <2>2. HostRec(h) /\ h.n = n /\ h.want = c[2] /\ h.got = <<>> BY <2>1 DEF NoCommand, HostRec
  <2>3. QED BY <2>2 DEF n, h
<1>3. cmd.pc = "idle" /\ txq' = <<>> /\ moved' = FALSE /\ mem' = mem BY DEF Issue, At
<1>4. CASE /\ host' = [h EXCEPT !.status = "refused", !.residue = c[2]]
           /\ cmd' = cmd
  <2>1. HostRec(host') /\ host'.want = c[2] /\ host'.got = <<>> /\ host'.status = "refused" BY <1>2, <1>4 DEF HostRec
  <2>2. cmd' = cmd BY <1>4
  <2>3. Typed' BY <1>1, <1>3, <2>1, <2>2, ListFacts, EmptyList DEF RInv, Typed, Buffers
  <2>4. Counted' BY <1>3, <2>1, <2>2 DEF RInv, Counted
  <2>5. ResidueTold' BY <2>1 DEF ResidueTold
  <2>6. QED BY <2>3, <2>4, <2>5 DEF RInv
<1>5. CASE /\ host' = [h EXCEPT !.status = "pending"]
           /\ cmd' = [IdleCmd EXCEPT !.pc = "wait", !.lun = l, !.bytes = Bytes(c[1], bs, c[2]), !.fsec = lba * bs]
  <2>1. /\ HostRec(host') /\ host'.want = c[2] /\ host'.got = <<>> /\ host'.status = "pending"
        /\ host'.n = c[1] * bs
    BY <1>2, <1>5 DEF HostRec
  <2>2. /\ CmdRec(cmd') /\ cmd'.pc = "wait" /\ cmd'.bytes = Bytes(c[1], bs, c[2]) /\ cmd'.sent = 0
        /\ cmd'.idx \in Buf /\ cmd'.passed = TRUE
    BY <1>5, NothingAsked DEF IdleCmd, CmdRec
  <2>3. /\ cmd'.bytes \in Nat /\ cmd'.bytes <= c[2] /\ (c[1] * bs = c[2] => cmd'.bytes = c[2])
    BY <1>1, <2>2, BytesFit
  <2>4. Typed' BY <1>1, <1>3, <2>1, <2>2, <2>3, ListFacts, EmptyList DEF RInv, Typed, Buffers, Filling
  <2>5. Counted' BY <1>1, <1>3, <2>1, <2>2, <2>3, ListFacts DEF Counted, OnTheWay, Filling
  <2>6. ResidueTold' BY <2>1 DEF ResidueTold
  <2>7. QED BY <2>4, <2>5, <2>6 DEF RInv
<1>6. QED BY <1>4, <1>5 DEF Issue

LEMMA HostTakesKeeps ==
  ASSUME RInv, HostTakes
  PROVE  RInv'
<1> DEFINE s == SubSeq(mem[Head(txq).buf], 1, Head(txq).len)
<1>1. /\ txq # <<>> /\ ~moved /\ txq' = Tail(txq) /\ cmd' = cmd /\ mem' = mem /\ moved' = moved
      /\ host' = [host EXCEPT !.got = host.got \o s]
  BY DEF HostTakes, Unmoved, readVars
<1>2. /\ txq' \in Seq(Packets) /\ Len(txq') <= 2 /\ Head(txq).buf \in Buf /\ Head(txq).len \in 0..ChunkLen
      /\ OnTheWay(txq') \in Int /\ OnTheWay(txq) = Head(txq).len + OnTheWay(txq')
  BY <1>1, OnTheWayShrinks DEF RInv, Typed
<1>3. IsList(s) /\ Len(s) = Head(txq).len BY <1>2, FirstBlocks DEF RInv, Typed
<1> HIDE DEF s
<1>4. IsList(host.got \o s) /\ Len(host.got \o s) = Len(host.got) + Head(txq).len /\ Len(host.got) \in Nat
  BY <1>3, ListFacts DEF RInv, Typed
<1>5. /\ HostRec(host') /\ host'.got = host.got \o s /\ host'.want = host.want /\ host'.status = host.status
      /\ host'.n = host.n
  BY <1>1 DEF RInv, Typed, HostRec
<1>6. cmd.pc # "idle" /\ host.status = "pending" BY <1>1 DEF RInv, Counted
<1>7. Typed' BY <1>1, <1>2, <1>4, <1>5 DEF RInv, Typed, Buffers
<1>8. Counted'
  <2>1. cmd'.sent = Len(host'.got) + OnTheWay(txq')
    <3>1. cmd.sent = Len(host.got) + OnTheWay(txq) BY <1>1, <1>6 DEF RInv, Counted
    <3>2. Head(txq).len \in Int BY <1>2, ReadAssumption
    <3>3. QED BY <1>1, <1>2, <1>4, <1>5, <3>1, <3>2
  <2>2. QED BY <1>1, <1>5, <1>6, <2>1 DEF RInv, Counted
<1>9. ResidueTold' BY <1>5, <1>6 DEF ResidueTold
<1>10. QED BY <1>7, <1>8, <1>9 DEF RInv

LEMMA ResetKeeps ==
  ASSUME RInv, Reset \/ Mounts
  PROVE  RInv'
<1>1. host' = NoCommand /\ cmd' = cmd /\ mem' = mem BY DEF Reset, Mounts, readVars
<1>2. CASE Reset
  <2>1. moved' = TRUE /\ txq' = <<>> /\ cmd.pc # "idle" BY <1>2 DEF Reset
  <2>2. Typed' BY <1>1, <2>1, NothingAsked, ListFacts, EmptyList DEF RInv, Typed, NoCommand, Buffers
  <2>3. Counted' BY <1>1, <2>1 DEF RInv, Counted
  <2>4. ResidueTold' BY <1>1 DEF ResidueTold, NoCommand
  <2>5. QED BY <2>2, <2>3, <2>4 DEF RInv
<1>3. CASE Mounts
  <2>1. moved' = moved /\ txq' = txq /\ cmd.pc = "idle" BY <1>3 DEF Mounts, At
  <2>2. Typed' BY <1>1, <2>1, NothingAsked, ListFacts DEF RInv, Typed, NoCommand, Buffers
  <2>3. Counted' BY <1>1, <2>1 DEF RInv, Counted
  <2>4. ResidueTold' BY <1>1 DEF ResidueTold, NoCommand
  <2>5. QED BY <2>2, <2>3, <2>4 DEF RInv
<1>4. QED BY <1>2, <1>3

(* The invariant holds in every reachable state: for any directory, chunk   *)
(* length, number of buffers, width of the byte count and any commands.     *)
THEOREM RInvariance == Spec => []RInv
<1>1. Init => RInv
  <2>1. SUFFICES ASSUME Init PROVE RInv OBVIOUS
  <2>2. cmd = IdleCmd /\ host = NoCommand /\ txq = <<>> /\ moved = FALSE /\ Buffers(mem)
    BY <2>1 DEF Init, ReadInit, Buffers
  <2>3. Typed BY <2>2, NothingAsked, ListFacts, EmptyList DEF Typed, IdleCmd, NoCommand
  <2>4. Counted BY <2>2 DEF Counted, IdleCmd, Filling
  <2>5. ResidueTold BY <2>2 DEF ResidueTold, NoCommand
  <2>6. QED BY <2>3, <2>4, <2>5 DEF RInv
<1>2. RInv /\ [Next]_vars => RInv'
  <2>1. SUFFICES ASSUME RInv, [Next]_vars PROVE RInv' OBVIOUS
  <2>2. CASE Main
    BY <2>1, <2>2, WaitBufferKeeps, MapRunKeeps, PiecesKeep, QueueKeeps, FinishKeeps, UnderTheCommand DEF Main
  <2>3. CASE Host BY <2>1, <2>3, IssueKeeps DEF Host
  <2>4. CASE HostTakes BY <2>1, <2>4, HostTakesKeeps
  <2>5. CASE Reset \/ Mounts BY <2>1, <2>5, ResetKeeps
  <2>6. CASE Pulled BY <2>1, <2>6, UnderTheCommand
  <2>7. CASE UNCHANGED vars
    <3>1. host' = host /\ txq' = txq /\ moved' = moved /\ mem' = mem /\ cmd' = cmd BY <2>7 DEF vars, readVars
    <3>2. Onward /\ Buffers(mem)' BY <2>1, <3>1 DEF Onward, RInv, Typed, Buffers
    <3>3. QED BY <2>1, <3>1, <3>2, Continues
  <2>8. QED BY <2>1, <2>2, <2>3, <2>4, <2>5, <2>6, <2>7 DEF Next
<1>3. QED BY <1>1, <1>2, PTL DEF Spec

(* The residue in the status of a READ is what the host did not get of what *)
(* it expected; on GOOD of a command that asks for what the host expects it *)
(* is nothing: cmd_read (v5f/msc_core.c) counts what it queued, on every    *)
(* path out.                                                                *)
THEOREM ResidueIsTold == Spec => []ResidueTold
<1>1. RInv => ResidueTold BY DEF RInv
<1>2. QED BY <1>1, RInvariance, PTL

---------------------------------------------------------------------------
(* The binary search of file_map. *)
IsSearch(ext, i, search) ==
  search = [w \in Nat \X Nat |->
              IF w[1] >= w[2] THEN w[1]
              ELSE LET mid == (w[1] + w[2] + 1) \div 2
                   IN search[IF ext[mid].at <= i THEN <<mid, w[2]>> ELSE <<w[1], mid - 1>>]]

LEMMA Middle ==
  ASSUME NEW a \in Nat, NEW b \in Nat, a < b
  PROVE  LET mid == (a + b + 1) \div 2 IN mid \in Nat /\ a < mid /\ mid <= b
OBVIOUS

LEMMA SearchExists ==
  ASSUME NEW ext, NEW i
  PROVE  \E search : IsSearch(ext, i, search)
<1> DEFINE D == Nat \X Nat
           M(w) == (w[1] + w[2] + 1) \div 2
           mu == [w \in D |-> IF w[1] >= w[2] THEN 0 ELSE w[2] - w[1]]
           p  == [w \in D |-> IF w[1] >= w[2] THEN w ELSE IF ext[M(w)].at <= i THEN <<M(w), w[2]>> ELSE <<w[1], M(w) - 1>>]
           Z  == [w \in D |-> w[1]]
           G  == [x \in D \X Nat |-> x[2]]
<1>1. ASSUME NEW w \in D
      PROVE  /\ mu[w] \in Nat /\ (mu[w] = 0 <=> w[1] >= w[2]) /\ p[w] \in D
             /\ mu[w] # 0 => mu[p[w]] < mu[w]
  <2>1. w[1] \in Nat /\ w[2] \in Nat /\ w = <<w[1], w[2]>> OBVIOUS
  <2>2. CASE w[1] >= w[2] BY <2>1, <2>2
  <2>3. CASE w[1] < w[2]
    <3>1. M(w) \in Nat /\ w[1] < M(w) /\ M(w) <= w[2] BY <2>1, <2>3, Middle
    <3> HIDE DEF M
    <3>2. CASE ext[M(w)].at <= i
      <4>1. p[w] = <<M(w), w[2]>> /\ p[w] \in D BY <2>1, <2>3, <3>1, <3>2
      <4>2. mu[p[w]] = IF M(w) >= w[2] THEN 0 ELSE w[2] - M(w) BY <4>1
      <4>3. mu[w] = w[2] - w[1] BY <2>1, <2>3
      <4>4. QED BY <2>1, <2>3, <3>1, <4>1, <4>2, <4>3
    <3>3. CASE ~(ext[M(w)].at <= i)
      <4>1. p[w] = <<w[1], M(w) - 1>> /\ p[w] \in D BY <2>1, <2>3, <3>1, <3>3
      <4>2. mu[p[w]] = IF w[1] >= M(w) - 1 THEN 0 ELSE M(w) - 1 - w[1] BY <4>1
      <4>3. mu[w] = w[2] - w[1] BY <2>1, <2>3
      <4>4. QED BY <2>1, <2>3, <3>1, <4>1, <4>2, <4>3
    <3>4. QED BY <3>2, <3>3
  <2>4. QED BY <2>1, <2>2, <2>3
<1>2. mu \in [D -> Nat] /\ p \in [D -> D] /\ Z \in [D -> Nat] /\ G \in [D \X Nat -> Nat]
  <2>1. \A w \in D : mu[w] \in Nat /\ p[w] \in D BY <1>1
  <2>2. mu = [w \in D |-> mu[w]] /\ p = [w \in D |-> p[w]] OBVIOUS
  <2>3. mu \in [D -> Nat] /\ p \in [D -> D]
    <3> HIDE DEF mu, p
    <3>1. QED BY <2>1, <2>2
  <2>4. QED BY <2>3
<1>3. PICK f : Solves(f, D, Nat, mu, p, Z, G)
  <2>1. Recursion(D, Nat, mu, p, Z, G)
    <3>1. \A d \in D : mu[d] # 0 => mu[p[d]] < mu[d] BY <1>1
    <3> HIDE DEF D, mu, p, Z, G
    <3>2. QED BY <1>2, <3>1 DEF Recursion
  <2> HIDE DEF D, mu, p, Z, G
  <2>2. QED BY <2>1, RecursionExists
<1>4. ASSUME NEW w \in D
      PROVE  f[w] = IF w[1] >= w[2] THEN w[1] ELSE f[IF ext[M(w)].at <= i THEN <<M(w), w[2]>> ELSE <<w[1], M(w) - 1>>]
  <2>1. f \in [D -> Nat] /\ f[w] = IF mu[w] = 0 THEN Z[w] ELSE G[<<w, f[p[w]]>>]
    <3> HIDE DEF D, mu, p, Z, G
    <3>1. QED BY <1>3 DEF Solves
  <2>2. G[<<w, f[p[w]]>>] = f[p[w]]
    <3>1. p[w] \in D BY <1>1
    <3>2. f[p[w]] \in Nat
      <4> HIDE DEF D, p
      <4>1. QED BY <2>1, <3>1
    <3>3. \A n \in Nat : G[<<w, n>>] = n OBVIOUS
    <3> HIDE DEF p, G
    <3>4. QED BY <3>2, <3>3
  <2>3. p[w] = IF w[1] >= w[2] THEN w ELSE IF ext[M(w)].at <= i THEN <<M(w), w[2]>> ELSE <<w[1], M(w) - 1>>
    OBVIOUS
  <2>4. Z[w] = w[1] OBVIOUS
  <2> HIDE DEF mu, p, Z, G, M
  <2>5. QED BY <1>1, <2>1, <2>2, <2>3, <2>4
<1>5. IsSearch(ext, i, f)
  <2>1. f \in [D -> Nat] BY <1>3 DEF Solves
  <2>2. QED BY <1>4, <2>1 DEF IsSearch
<1>6. QED BY <1>5

(* What it finds: the last place at or below i before one above it.         *)
LEMMA SearchFinds ==
  ASSUME NEW ext, NEW i, Len(ext) \in Nat \ {0}, ext[1].at <= i
  PROVE  LET r == LastAtOrBelow(ext, i)
         IN r \in 1..Len(ext) /\ ext[r].at <= i /\ (r < Len(ext) => ~(ext[r + 1].at <= i))
<1> DEFINE search == CHOOSE s : IsSearch(ext, i, s)
           Low(w)    == w[1] >= 1 /\ w[1] <= w[2] /\ w[2] <= Len(ext) /\ ext[w[1]].at <= i
                        /\ (w[2] < Len(ext) => ~(ext[w[2] + 1].at <= i))
           Found(r)  == r \in 1..Len(ext) /\ ext[r].at <= i /\ (r < Len(ext) => ~(ext[r + 1].at <= i))
           Bad       == {w \in Nat \X Nat : Low(w) /\ ~Found(search[w])}
           T         == {w[2] - w[1] : w \in Bad}
<1>1. LastAtOrBelow(ext, i) = search[<<1, Len(ext)>>] BY Zenon DEF LastAtOrBelow, IsSearch
<1>2. IsSearch(ext, i, search) BY SearchExists
<1> HIDE DEF search
<1>3. ASSUME NEW w \in Nat \X Nat
      PROVE  search[w] = IF w[1] >= w[2] THEN w[1]
                         ELSE LET mid == (w[1] + w[2] + 1) \div 2
                              IN search[IF ext[mid].at <= i THEN <<mid, w[2]>> ELSE <<w[1], mid - 1>>]
  BY <1>2 DEF IsSearch
<1>4. T = {}
  <2>1. SUFFICES ASSUME T # {} PROVE FALSE OBVIOUS
  <2>2. T \in SUBSET Nat OBVIOUS
  <2>3. PICK m \in T : \A k \in T : m <= k
    <3> HIDE DEF T
    <3>1. QED BY <2>1, <2>2, LeastNumber
  <2>4. PICK w \in Bad : m = w[2] - w[1] BY <2>3
  <2>5. w[1] \in Nat /\ w[2] \in Nat /\ Low(w) /\ ~Found(search[w]) BY <2>4
  <2>10. w \in Nat \X Nat BY <2>4
  <2>6. ASSUME NEW v \in Nat \X Nat, Low(v), v[2] - v[1] < m PROVE Found(search[v])
    <3>1. ~Found(search[v]) => v \in Bad BY <2>6
    <3>2. ~Found(search[v]) => v[2] - v[1] \in T BY <3>1
    <3>3. m \in Nat /\ v[2] - v[1] \in Int BY <2>4, <2>5
    <3> HIDE DEF T, Bad, Found
    <3>4. QED BY <2>3, <2>6, <3>2, <3>3
  <2>7. CASE w[1] >= w[2]
    <3>1. search[w] = w[1] /\ w[1] = w[2]
      <4>1. search[w] = w[1] BY <1>3, <2>7, <2>10
      <4>2. w[1] = w[2] BY <2>5, <2>7
      <4>3. QED BY <4>1, <4>2
    <3>2. QED BY <2>5, <3>1
  <2>8. CASE w[1] < w[2]
    <3> DEFINE mid == (w[1] + w[2] + 1) \div 2
    <3>1. mid \in Nat /\ w[1] < mid /\ mid <= w[2] BY <2>5, <2>8, Middle
    <3>2. search[w] = search[IF ext[mid].at <= i THEN <<mid, w[2]>> ELSE <<w[1], mid - 1>>]
      <4>1. ~(w[1] >= w[2]) BY <2>5, <2>8
      <4>2. QED BY <1>3, <4>1, <2>10
    <3> HIDE DEF mid
    <3>3. CASE ext[mid].at <= i
      <4> DEFINE v == <<mid, w[2]>>
      <4>1. v \in Nat \X Nat /\ v[1] = mid /\ v[2] = w[2] BY <2>5, <3>1
      <4> HIDE DEF v
      <4>2. Low(v) /\ v[2] - v[1] < m BY <2>4, <2>5, <3>1, <3>3, <4>1
      <4>3. Found(search[v])
        <5> HIDE DEF Low, Found
        <5>1. QED BY <2>6, <4>1, <4>2
      <4>4. search[w] = search[v] BY <3>2, <3>3 DEF v
      <4>5. QED BY <2>5, <4>3, <4>4
    <3>4. CASE ~(ext[mid].at <= i)
      <4> DEFINE v == <<w[1], mid - 1>>
      <4>1. v \in Nat \X Nat /\ v[1] = w[1] /\ v[2] = mid - 1 BY <2>5, <3>1
      <4> HIDE DEF v
      <4>2. Low(v) /\ v[2] - v[1] < m
        <5>1. (mid - 1) + 1 = mid BY <3>1
        <5>2. QED BY <2>4, <2>5, <3>1, <3>4, <4>1, <5>1
      <4>3. Found(search[v])
        <5> HIDE DEF Low, Found
        <5>1. QED BY <2>6, <4>1, <4>2
      <4>4. search[w] = search[v] BY <3>2, <3>4 DEF v
      <4>5. QED BY <2>5, <4>3, <4>4
    <3>5. QED BY <3>3, <3>4
  <2>9. QED BY <2>5, <2>7, <2>8
<1>5. Found(search[<<1, Len(ext)>>])
  <2> DEFINE w == <<1, Len(ext)>>
  <2>1. w \in Nat \X Nat /\ w[1] = 1 /\ w[2] = Len(ext) OBVIOUS
  <2> HIDE DEF w
  <2>2. Low(w) BY <2>1
  <2>3. w \notin Bad BY <1>4
  <2>4. Found(search[w]) BY <2>1, <2>2, <2>3
  <2>5. QED BY <2>4 DEF w
<1>6. QED BY <1>1, <1>5

---------------------------------------------------------------------------
(* Folds over a sequence. *)
LEMMA GreatestNumber ==
  ASSUME NEW n \in Nat, NEW s \in SUBSET (1..n), s # {}
  PROVE  Max(s) \in s /\ \A x \in s : x <= Max(s)
<1> DEFINE T == {n - x : x \in s}
<1>1. T \in SUBSET Nat /\ T # {}
  <2>1. PICK x \in s : TRUE OBVIOUS
  <2>2. n - x \in T BY <2>1
  <2>3. QED BY <2>2
<1>2. PICK m \in T : \A k \in T : m <= k
  <2> HIDE DEF T
  <2>1. QED BY <1>1, LeastNumber
<1>3. PICK x \in s : m = n - x BY <1>2
<1>4. \A y \in s : x >= y
  <2>1. SUFFICES ASSUME NEW y \in s PROVE x >= y OBVIOUS
  <2>2. n - y \in T OBVIOUS
  <2>3. m <= n - y BY <1>2, <2>2
  <2>4. QED BY <1>3, <2>3
<1>5. Max(s) \in s /\ \A y \in s : Max(s) >= y BY <1>4 DEF Max
<1>6. QED BY <1>5

LEMMA LastOfInterval ==
  ASSUME NEW k \in Nat
  PROVE  Max(1..k + 1) = k + 1 /\ (1..k + 1) \ {k + 1} = 1..k
<1> DEFINE n == k + 1
           I == 1..n
<1>1. I \in SUBSET (1..n) /\ I # {} /\ n \in Nat OBVIOUS
<1>2. Max(1..k + 1) \in 1..k + 1 /\ \A x \in 1..k + 1 : x <= Max(1..k + 1)
  <2> HIDE DEF I, n
  <2>1. Max(I) \in I /\ \A x \in I : x <= Max(I) BY <1>1, GreatestNumber
  <2>2. QED BY <2>1 DEF I, n
<1> HIDE DEF I, n
<1>3. k + 1 <= Max(1..k + 1) BY <1>2
<1>4. Max(1..k + 1) = k + 1 BY <1>2, <1>3
<1>5. QED BY <1>4

IsFold(it, n, b, G) ==
  \A s \in SUBSET (1..n) : it[s] = IF s = {} THEN b ELSE G[<<it[s \ {Max(s)}], Max(s)>>]

LEMMA FoldExists ==
  ASSUME NEW n \in Nat, NEW V, NEW b \in V, NEW G \in [V \X (1..n) -> V]
  PROVE  \E it : it \in [SUBSET (1..n) -> V] /\ IsFold(it, n, b, G)
<1> DEFINE D  == SUBSET (1..n)
           mu == [s \in D |-> Cardinality(s)]
           p  == [s \in D |-> s \ {Max(s)}]
           Z  == [s \in D |-> b]
           H  == [x \in D \X V |-> IF x[1] = {} THEN b ELSE G[<<x[2], Max(x[1])>>]]
<1>1. ASSUME NEW s \in D
      PROVE  /\ mu[s] \in Nat /\ (mu[s] = 0 <=> s = {}) /\ p[s] \in D /\ p[s] = s \ {Max(s)}
             /\ (mu[s] # 0 => mu[p[s]] < mu[s] /\ Max(s) \in 1..n)
  <2>1. IsFiniteSet(1..n) BY FS_Interval
  <2>2. IsFiniteSet(s) BY <2>1, FS_Subset
  <2>3. mu[s] = Cardinality(s) /\ Cardinality(s) \in Nat BY <2>2, FS_CardinalityType
  <2>4. Cardinality(s) = 0 <=> s = {} BY <2>2, FS_EmptySet
  <2>5. ASSUME s # {} PROVE Cardinality(s \ {Max(s)}) = Cardinality(s) - 1 /\ Max(s) \in 1..n
    <3>1. Max(s) \in s BY <2>5, GreatestNumber
    <3>2. QED BY <2>2, <3>1, FS_RemoveElement
  <2>6. p[s] \in D /\ p[s] = s \ {Max(s)} OBVIOUS
  <2>7. mu[p[s]] = Cardinality(s \ {Max(s)}) BY <2>6
  <2> HIDE DEF mu, p
  <2>8. QED BY <2>3, <2>4, <2>5, <2>6, <2>7
<1>2. Recursion(D, V, mu, p, Z, H)
  <2>1. \A s \in D : mu[s] \in Nat /\ p[s] \in D /\ (mu[s] # 0 => mu[p[s]] < mu[s]) BY <1>1
  <2>2. mu = [s \in D |-> mu[s]] /\ p = [s \in D |-> p[s]] OBVIOUS
  <2>3. mu \in [D -> Nat] /\ p \in [D -> D]
    <3> HIDE DEF mu, p, D
    <3>1. QED BY <2>1, <2>2
  <2>4. H \in [D \X V -> V]
    <3>1. ASSUME NEW x \in D \X V PROVE (IF x[1] = {} THEN b ELSE G[<<x[2], Max(x[1])>>]) \in V
      <4>1. x[1] \in SUBSET (1..n) /\ x[2] \in V OBVIOUS
      <4>2. x[1] # {} => Max(x[1]) \in 1..n BY <4>1, GreatestNumber
      <4>3. QED BY <4>1, <4>2
    <3>2. QED BY <3>1
  <2>5. Z \in [D -> V] OBVIOUS
  <2> HIDE DEF mu, p, D, Z, H
  <2>6. QED BY <2>1, <2>3, <2>4, <2>5 DEF Recursion
<1>3. PICK it : Solves(it, D, V, mu, p, Z, H)
  <2> HIDE DEF mu, p, D, Z, H
  <2>1. QED BY <1>2, RecursionExists
<1>4. it \in [D -> V] /\ \A s \in D : it[s] = IF mu[s] = 0 THEN Z[s] ELSE H[<<s, it[p[s]]>>]
  <2> HIDE DEF mu, p, D, Z, H
  <2>1. QED BY <1>3 DEF Solves
<1>5. ASSUME NEW s \in D PROVE it[s] = IF s = {} THEN b ELSE G[<<it[s \ {Max(s)}], Max(s)>>]
  <2>1. /\ (mu[s] = 0 <=> s = {}) /\ p[s] \in D /\ p[s] = s \ {Max(s)}
        /\ it[s] = IF mu[s] = 0 THEN Z[s] ELSE H[<<s, it[p[s]]>>]
    <3> HIDE DEF mu, p, Z, H, D
    <3>1. QED BY <1>1, <1>4
  <2>2. it[p[s]] \in V
    <3> HIDE DEF mu, p, D, Z, H
    <3>1. QED BY <1>4, <2>1
  <2>3. Z[s] = b OBVIOUS
  <2>4. \A v \in V : H[<<s, v>>] = IF s = {} THEN b ELSE G[<<v, Max(s)>>] OBVIOUS
  <2> HIDE DEF mu, p, D, Z, H
  <2>5. QED BY <2>1, <2>2, <2>3, <2>4
<1>6. QED BY <1>4, <1>5 DEF IsFold

---------------------------------------------------------------------------
(* The link map: the first k clusters of a chain in runs, the j-th of which *)
(* begins at the st[j]-th.                                                  *)
RunRec == [at : Nat, n : Nat]
RunsOf(lm, st, cl, k) ==
  /\ lm \in Seq(RunRec) /\ st \in [1..Len(lm) -> Nat] /\ (Len(lm) = 0 <=> k = 0)
  /\ Len(lm) > 0 => st[1] = 0 /\ st[Len(lm)] + lm[Len(lm)].n = k
  /\ \A j \in 1..Len(lm) - 1 : st[j + 1] = st[j] + lm[j].n
  /\ \A j \in 1..Len(lm) : /\ lm[j].n >= 1 /\ st[j] + lm[j].n <= k
                           /\ \A x \in 0..lm[j].n - 1 : cl[st[j] + x + 1] = lm[j].at + x

RunStep(lm, c) ==
  IF lm # <<>> /\ Last(lm).at + Last(lm).n = c THEN [lm EXCEPT ![Len(lm)].n = @ + 1]
  ELSE Append(lm, [at |-> c, n |-> 1])

LEMMA RunFields ==
  /\ \A r \in RunRec : r.at \in Nat /\ r.n \in Nat
  /\ \A a \in Nat, m \in Nat : [at |-> a, n |-> m] \in RunRec /\ [at |-> a, n |-> m].at = a /\ [at |-> a, n |-> m].n = m
  /\ \A r \in RunRec : [r EXCEPT !.n = @ + 1] \in RunRec /\ [r EXCEPT !.n = @ + 1].n = r.n + 1
                       /\ [r EXCEPT !.n = @ + 1].at = r.at
BY DEF RunRec

(* The last element of a sequence made longer. *)
LEMMA LastLonger ==
  ASSUME NEW S, NEW q \in Seq(S), q # <<>>, NEW e \in S
  PROVE  LET r == [q EXCEPT ![Len(q)] = e]
         IN /\ r \in Seq(S) /\ Len(r) = Len(q) /\ r[Len(q)] = e
            /\ \A i \in 1..Len(q) - 1 : r[i] = q[i]
OBVIOUS

LEMMA RunStepIs ==
  ASSUME NEW lm \in Seq(RunRec), NEW c \in Nat
  PROVE  RunStep(lm, c) \in Seq(RunRec)
<1>1. CASE lm # <<>> /\ Last(lm).at + Last(lm).n = c
  <2>1. RunStep(lm, c) = [lm EXCEPT ![Len(lm)] = [lm[Len(lm)] EXCEPT !.n = @ + 1]]
    BY <1>1 DEF RunStep
  <2>2. lm[Len(lm)] \in RunRec BY <1>1, QueueFront
  <2>3. [lm[Len(lm)] EXCEPT !.n = @ + 1] \in RunRec BY <2>2, RunFields
  <2>4. QED BY <1>1, <2>1, <2>3, LastLonger
<1>2. CASE ~(lm # <<>> /\ Last(lm).at + Last(lm).n = c)
  <2>1. RunStep(lm, c) = Append(lm, [at |-> c, n |-> 1]) BY <1>2 DEF RunStep
  <2>2. [at |-> c, n |-> 1] \in RunRec BY RunFields
  <2>3. QED BY <2>1, <2>2, QueueBack
<1>3. QED BY <1>1, <1>2

LEMMA RunStepKeeps ==
  ASSUME NEW lm, NEW st, NEW cl \in Seq(Nat), NEW k \in 0..Len(cl) - 1, RunsOf(lm, st, cl, k)
  PROVE  \E t : RunsOf(RunStep(lm, cl[k + 1]), t, cl, k + 1)
<1> DEFINE c == cl[k + 1]
           L == Len(lm)
           new == RunStep(lm, c)
<1>1. /\ lm \in Seq(RunRec) /\ st \in [1..L -> Nat] /\ (L = 0 <=> k = 0) /\ L \in Nat
      /\ (L > 0 => st[1] = 0 /\ st[L] + lm[L].n = k)
      /\ \A j \in 1..L - 1 : st[j + 1] = st[j] + lm[j].n
      /\ \A j \in 1..L : /\ lm[j].n >= 1 /\ st[j] + lm[j].n <= k
                         /\ \A x \in 0..lm[j].n - 1 : cl[st[j] + x + 1] = lm[j].at + x
  BY DEF RunsOf
<1>2. c \in Nat /\ k \in Nat OBVIOUS
<1>3. \A j \in 1..L : lm[j] \in RunRec /\ lm[j].at \in Nat /\ lm[j].n \in Nat /\ st[j] \in Nat
  BY <1>1, QueueFront, RunFields
<1>4. lm = <<>> <=> L = 0 BY <1>1, QueueFront
<1>5. new \in Seq(RunRec) BY <1>1, <1>2, RunStepIs
<1>6. CASE lm # <<>> /\ lm[L].at + lm[L].n = c
  <2> DEFINE e == [lm[L] EXCEPT !.n = @ + 1]
  <2>1. L \in 1..L BY <1>1, <1>4, <1>6
  <2>2. e \in RunRec /\ e.n = lm[L].n + 1 /\ e.at = lm[L].at BY <1>3, <2>1, RunFields
  <2>3. new = [lm EXCEPT ![L] = e] BY <1>6 DEF RunStep, Last
  <2> HIDE DEF e, new, c
  <2>4. Len(new) = L /\ new[L] = e /\ \A j \in 1..L - 1 : new[j] = lm[j]
    BY <1>1, <1>6, <2>2, <2>3, LastLonger
  <2>5. ASSUME NEW j \in 1..L
        PROVE  /\ new[j].n >= 1 /\ st[j] + new[j].n <= k + 1
               /\ \A x \in 0..new[j].n - 1 : cl[st[j] + x + 1] = new[j].at + x
    <3>1. CASE j = L
      <4>1. new[j].n = lm[L].n + 1 /\ new[j].at = lm[L].at BY <2>2, <2>4, <3>1
      <4>2. ASSUME NEW x \in 0..new[j].n - 1 PROVE cl[st[j] + x + 1] = new[j].at + x
        <5>1. CASE x = lm[L].n
          <6>1. st[L] + x + 1 = k + 1 BY <1>1, <2>1, <1>3, <5>1
          <6>2. QED BY <1>6, <3>1, <4>1, <5>1, <6>1 DEF c
        <5>2. CASE x # lm[L].n
          <6>1. x \in 0..lm[L].n - 1 BY <1>3, <2>1, <4>1, <4>2, <5>2
          <6>2. QED BY <1>1, <2>1, <3>1, <4>1, <6>1
        <5>3. QED BY <5>1, <5>2
      <4>3. QED BY <1>1, <1>3, <2>1, <3>1, <4>1, <4>2
    <3>2. CASE j # L
      <4>1. new[j] = lm[j] BY <2>4, <3>2
      <4>2. QED BY <1>1, <1>2, <1>3, <4>1
    <3>3. QED BY <3>1, <3>2
  <2>6. st[L] + new[L].n = k + 1
    <3>1. st[L] + lm[L].n = k /\ st[L] \in Nat /\ lm[L].n \in Nat BY <1>1, <1>3, <2>1
    <3>2. new[L].n = lm[L].n + 1 BY <2>2, <2>4
    <3>3. \A a \in Nat, b \in Nat : a + (b + 1) = (a + b) + 1 OBVIOUS
    <3>4. QED BY <3>1, <3>2, <3>3
  <2>7. \A j \in 1..L - 1 : st[j + 1] = st[j] + new[j].n BY <1>1, <2>4
  <2>8. RunsOf(new, st, cl, k + 1) BY <1>1, <1>2, <1>5, <2>1, <2>4, <2>5, <2>6, <2>7 DEF RunsOf
  <2>9. QED BY <2>8 DEF new, c
<1>7. CASE ~(lm # <<>> /\ lm[L].at + lm[L].n = c)
  <2> DEFINE e == [at |-> c, n |-> 1]
             t == [j \in 1..L + 1 |-> IF j = L + 1 THEN k ELSE st[j]]
  <2>1. e \in RunRec /\ e.n = 1 /\ e.at = c BY <1>2, RunFields
  <2>2. new = Append(lm, e) BY <1>7 DEF RunStep, Last
  <2> HIDE DEF e, new, c
  <2>3. Len(new) = L + 1 /\ new[L + 1] = e /\ \A j \in 1..L : new[j] = lm[j]
    BY <1>1, <2>1, <2>2, QueueBack
  <2>4. t \in [1..L + 1 -> Nat] /\ t[L + 1] = k /\ \A j \in 1..L : t[j] = st[j]
    BY <1>1, <1>2, <1>3
  <2> HIDE DEF t
  <2>5. ASSUME NEW j \in 1..L + 1
        PROVE  /\ new[j].n >= 1 /\ t[j] + new[j].n <= k + 1
               /\ \A x \in 0..new[j].n - 1 : cl[t[j] + x + 1] = new[j].at + x
    <3>1. CASE j = L + 1
      <4>1. new[j].n = 1 /\ new[j].at = c /\ t[j] = k BY <2>1, <2>3, <2>4, <3>1
      <4>2. \A x \in 0..0 : cl[k + x + 1] = c + x BY <1>2 DEF c
      <4>3. QED BY <1>2, <4>1, <4>2
    <3>2. CASE j # L + 1
      <4>1. j \in 1..L /\ new[j] = lm[j] /\ t[j] = st[j] BY <1>1, <2>3, <2>4, <3>2
      <4>2. /\ lm[j].n >= 1 /\ st[j] + lm[j].n <= k /\ st[j] \in Nat /\ lm[j].n \in Nat
            /\ \A x \in 0..lm[j].n - 1 : cl[st[j] + x + 1] = lm[j].at + x
        BY <1>1, <1>3, <4>1
      <4>3. QED BY <1>2, <4>1, <4>2
    <3>3. QED BY <3>1, <3>2
  <2>6. \A j \in 1..L : t[j + 1] = t[j] + new[j].n
    <3>1. SUFFICES ASSUME NEW j \in 1..L PROVE t[j + 1] = t[j] + new[j].n OBVIOUS
    <3>2. CASE j = L BY <1>1, <2>3, <2>4, <3>2
    <3>3. CASE j # L
      <4>1. j \in 1..L - 1 /\ j + 1 \in 1..L BY <1>1, <3>3
      <4>2. QED BY <1>1, <2>3, <2>4, <4>1
    <3>4. QED BY <3>2, <3>3
  <2>7. t[1] = 0
    <3>1. CASE L = 0 BY <1>1, <2>4, <3>1
    <3>2. CASE L # 0 BY <1>1, <2>4, <3>2
    <3>3. QED BY <3>1, <3>2
  <2>8. t[L + 1] + new[L + 1].n = k + 1 BY <2>1, <2>3, <2>4
  <2>9. RunsOf(new, t, cl, k + 1)
    BY <1>1, <1>2, <1>5, <2>3, <2>4, <2>5, <2>6, <2>7, <2>8 DEF RunsOf
  <2>10. QED BY <2>9 DEF new, c
<1>8. QED BY <1>6, <1>7

LEMMA LinkMapRuns ==
  ASSUME NEW f, f.clusters \in Seq(Nat)
  PROVE  \E st : RunsOf(LinkMap(f), st, f.clusters, Len(f.clusters))
<1> DEFINE cl == f.clusters
           n  == Len(cl)
           V  == Seq(RunRec)
           G  == [x \in V \X (1..n) |-> RunStep(x[1], cl[x[2]])]
           Eq(g) == g = [s \in SUBSET (DOMAIN cl) |-> IF s = {} THEN <<>> ELSE RunStep(g[s \ {Max(s)}], cl[Max(s)])]
           it == CHOOSE g : Eq(g)
           S  == {k \in Nat : k <= n => \E st : RunsOf(it[1..k], st, cl, k)}
<1>1. LinkMap(f) = it[DOMAIN cl] BY Zenon DEF LinkMap, FoldLeft, MapThenFoldSet, RunStep
<1>2. n \in Nat /\ DOMAIN cl = 1..n /\ \A i \in 1..n : cl[i] \in Nat OBVIOUS
<1> HIDE DEF cl, n
<1>3. \A s \in SUBSET (1..n) : s # {} => Max(s) \in 1..n BY <1>2, GreatestNumber
<1>4. <<>> \in V OBVIOUS
<1>5. G \in [V \X (1..n) -> V]
  <2>1. ASSUME NEW x \in V \X (1..n) PROVE RunStep(x[1], cl[x[2]]) \in V
    <3>1. x[1] \in Seq(RunRec) /\ cl[x[2]] \in Nat BY <1>2
    <3>2. QED BY <3>1, RunStepIs
  <2>2. QED BY <2>1
<1>6. Eq(it)
  <2>1. PICK g : g \in [SUBSET (1..n) -> V] /\ IsFold(g, n, <<>>, G)
    <3> HIDE DEF V, G
    <3>1. QED BY <1>2, <1>4, <1>5, FoldExists
  <2>2. ASSUME NEW s \in SUBSET (1..n)
        PROVE  g[s] = IF s = {} THEN <<>> ELSE RunStep(g[s \ {Max(s)}], cl[Max(s)])
    <3>1. g[s] = IF s = {} THEN <<>> ELSE G[<<g[s \ {Max(s)}], Max(s)>>] BY <2>1 DEF IsFold
    <3>2. s # {} => g[s \ {Max(s)}] \in V /\ Max(s) \in 1..n BY <1>3, <2>1
    <3>3. \A v \in V, i \in 1..n : G[<<v, i>>] = RunStep(v, cl[i]) OBVIOUS
    <3> HIDE DEF V, G
    <3>4. QED BY <3>1, <3>2, <3>3
  <2>3. Eq(g) BY <1>2, <2>1, <2>2
  <2> HIDE DEF Eq
  <2>4. QED BY <2>3
<1> HIDE DEF it
<1>7. it[1..0] = <<>> /\ \A k \in 0..n - 1 : it[1..k + 1] = RunStep(it[1..k], cl[k + 1])
  <2>1. it[1..0] = <<>>
    <3>1. 1..0 = {} /\ 1..0 \in SUBSET (1..n) OBVIOUS
    <3>2. QED BY <1>2, <1>6, <3>1
  <2>2. ASSUME NEW k \in 0..n - 1 PROVE it[1..k + 1] = RunStep(it[1..k], cl[k + 1])
    <3>0. k \in Nat /\ k + 1 <= n BY <1>2
    <3>1. 1..k + 1 \in SUBSET (1..n) /\ 1..k + 1 # {}
      <4>1. 1 \in 1..k + 1 /\ \A x \in 1..k + 1 : x \in 1..n BY <1>2, <3>0
      <4>2. QED BY <4>1
    <3>2. Max(1..k + 1) = k + 1 /\ (1..k + 1) \ {k + 1} = 1..k BY <3>0, LastOfInterval
    <3>3. \A s \in SUBSET (1..n) : s # {} => it[s] = RunStep(it[s \ {Max(s)}], cl[Max(s)]) BY <1>2, <1>6
    <3>4. it[1..k + 1] = RunStep(it[(1..k + 1) \ {Max(1..k + 1)}], cl[Max(1..k + 1)]) BY <3>1, <3>3
    <3>5. QED BY <3>2, <3>4
  <2>3. QED BY <2>1, <2>2
<1>8. 0 \in S
  <2>1. RunsOf(<<>>, [j \in 1..0 |-> 0], cl, 0) BY <1>4 DEF RunsOf
  <2>2. QED BY <1>7, <2>1
<1>9. ASSUME NEW k \in Nat, k \in S PROVE k + 1 \in S
  <2>1. SUFFICES ASSUME k + 1 <= n PROVE \E st : RunsOf(it[1..k + 1], st, cl, k + 1) OBVIOUS
  <2>2. k \in 0..n - 1 /\ k <= n BY <1>2, <2>1
  <2>3. PICK st : RunsOf(it[1..k], st, cl, k) BY <1>9, <2>2
  <2>4. cl \in Seq(Nat) BY DEF cl
  <2>5. QED BY <1>7, <2>2, <2>3, <2>4, RunStepKeeps DEF n
<1>10. n \in S
  <2> HIDE DEF S
  <2>1. QED BY <1>2, <1>8, <1>9, SetInduction
<1>11. \E st : RunsOf(it[1..n], st, cl, n) BY <1>2, <1>10
<1>12. QED BY <1>1, <1>2, <1>11 DEF cl, n

---------------------------------------------------------------------------
(* The extent table: the sectors of a file before `at`, each at its place.  *)
ExtRec == [at : Nat, sd : Int, n : Nat]
AccRec == [at : Nat, ext : Seq(ExtRec)]
ExtentsOf(ext, at, f) ==
  /\ ext \in Seq(ExtRec) /\ at \in Nat /\ (Len(ext) = 0 <=> at = 0)
  /\ Len(ext) > 0 => ext[1].at = 0 /\ ext[Len(ext)].at + ext[Len(ext)].n = at
  /\ \A j \in 1..Len(ext) - 1 : ext[j + 1].at = ext[j].at + ext[j].n
  /\ \A j \in 1..Len(ext) : /\ ext[j].n >= 1
                            /\ \A x \in 0..ext[j].n - 1 : Place(f, ext[j].at + x) = ext[j].sd + x

LEMMA ExtFields ==
  /\ \A e \in ExtRec : e.at \in Nat /\ e.sd \in Int /\ e.n \in Nat
  /\ \A a \in Nat, d \in Int, m \in Nat :
       /\ [at |-> a, sd |-> d, n |-> m] \in ExtRec /\ [at |-> a, sd |-> d, n |-> m].at = a
       /\ [at |-> a, sd |-> d, n |-> m].sd = d /\ [at |-> a, sd |-> d, n |-> m].n = m
  /\ \A e \in ExtRec, m \in Nat :
       /\ [e EXCEPT !.n = @ + m] \in ExtRec /\ [e EXCEPT !.n = @ + m].n = e.n + m
       /\ [e EXCEPT !.n = @ + m].at = e.at /\ [e EXCEPT !.n = @ + m].sd = e.sd
BY DEF ExtRec

(* A run of sectors of a chain, div and mod by the cluster size undone.     *)
InOneRun(f, s, m, a) == \A y \in 0..m - 1 : f.clusters[s + y + 1] = a + y
LEMMA PlaceInRun ==
  ASSUME NEW f, NEW s \in Nat, NEW m \in Nat, NEW a \in Int, InOneRun(f, s, m, a),
         NEW x \in 0..m * Csize - 1
  PROVE  Place(f, s * Csize + x) = FirstSector(a) + x
<1> DEFINE y == x \div Csize
           r == x % Csize
<1>1. Csize \in Nat \ {0} /\ x \in Nat BY MapAssumption
<1>2. x = y * Csize + r /\ r \in 0..Csize - 1 /\ y \in Nat BY <1>1
<1> HIDE DEF y, r
<1>3. y < m
  <2>1. y * Csize <= x /\ x < m * Csize /\ y * Csize < m * Csize BY <1>1, <1>2
  <2>2. QED BY <1>1, <1>2, <2>1
<1>4. s * Csize + x = (s + y) * Csize + r BY <1>1, <1>2
<1>5. (s * Csize + x) \div Csize = s + y /\ (s * Csize + x) % Csize = r
  <2>1. \A q \in Int, d \in 0..Csize - 1 : (q * Csize + d) \div Csize = q /\ (q * Csize + d) % Csize = d
    BY <1>1
  <2>2. QED BY <1>2, <1>4, <2>1
<1>6. f.clusters[s + y + 1] = a + y BY <1>2, <1>3 DEF InOneRun
<1>7. Place(f, s * Csize + x) = (a + y - 2) * Csize + r
  <2>1. Place(f, s * Csize + x) = (f.clusters[s + y + 1] - 2) * Csize + r
    <3>1. ((s * Csize + x) \div Csize) + 1 = s + y + 1 BY <1>5
    <3>2. QED BY <1>5, <3>1, Zenon DEF Place, FirstSector
  <2>2. f.clusters[s + y + 1] - 2 = a + y - 2 BY <1>2, <1>6
  <2>3. QED BY <2>1, <2>2
<1>8. (a + y - 2) * Csize + r = (a - 2) * Csize + x BY <1>1, <1>2
<1>9. QED BY <1>7, <1>8 DEF FirstSector

LEMMA AppendedKeeps ==
  ASSUME NEW f, NEW ext, NEW at, ExtentsOf(ext, at, f), NEW sec \in Int, NEW n \in Nat \ {0},
         \A x \in 0..n - 1 : Place(f, at + x) = sec + x
  PROVE  ExtentsOf(AppendedRun(ext, at, sec, n), at + n, f)
<1> DEFINE L == Len(ext)
           new == AppendedRun(ext, at, sec, n)
<1>1. /\ ext \in Seq(ExtRec) /\ at \in Nat /\ (L = 0 <=> at = 0) /\ L \in Nat
      /\ (L > 0 => ext[1].at = 0 /\ ext[L].at + ext[L].n = at)
      /\ \A j \in 1..L - 1 : ext[j + 1].at = ext[j].at + ext[j].n
      /\ \A j \in 1..L : /\ ext[j].n >= 1
                         /\ \A x \in 0..ext[j].n - 1 : Place(f, ext[j].at + x) = ext[j].sd + x
  BY DEF ExtentsOf
<1>2. \A j \in 1..L : ext[j] \in ExtRec /\ ext[j].at \in Nat /\ ext[j].sd \in Int /\ ext[j].n \in Nat
  BY <1>1, QueueFront, ExtFields
<1>3. ext = <<>> <=> L = 0 BY <1>1, QueueFront
<1>4. CASE ext # <<>> /\ ext[L].sd + ext[L].n = sec
  <2> DEFINE e == [ext[L] EXCEPT !.n = @ + n]
  <2>1. L \in 1..L BY <1>1, <1>3, <1>4
  <2>2. e \in ExtRec /\ e.n = ext[L].n + n /\ e.at = ext[L].at /\ e.sd = ext[L].sd BY <1>2, <2>1, ExtFields
  <2>3. new = [ext EXCEPT ![L] = e] BY <1>4 DEF AppendedRun
  <2> HIDE DEF e, new
  <2>4. new \in Seq(ExtRec) /\ Len(new) = L /\ new[L] = e /\ \A j \in 1..L - 1 : new[j] = ext[j]
    BY <1>1, <1>4, <2>2, <2>3, LastLonger
  <2>5. ASSUME NEW j \in 1..L
        PROVE  new[j].n >= 1 /\ \A x \in 0..new[j].n - 1 : Place(f, new[j].at + x) = new[j].sd + x
    <3>1. CASE j = L
      <4>1. new[j].n = ext[L].n + n /\ new[j].at = ext[L].at /\ new[j].sd = ext[L].sd BY <2>2, <2>4, <3>1
      <4>2. ASSUME NEW x \in 0..new[j].n - 1 PROVE Place(f, new[j].at + x) = new[j].sd + x
        <5>1. CASE x < ext[L].n
          <6>1. x \in 0..ext[L].n - 1 BY <1>2, <2>1, <5>1, <4>1
          <6>2. QED BY <1>1, <2>1, <4>1, <6>1
        <5>2. CASE x >= ext[L].n
          <6> DEFINE y == x - ext[L].n
          <6>1. y \in 0..n - 1 /\ x = ext[L].n + y BY <1>2, <2>1, <4>1, <5>2
          <6> HIDE DEF y
          <6>0. \A p \in Int, q \in Int, w \in Int, z \in Int : p + q = w => p + (q + z) = w + z OBVIOUS
          <6>a. ext[L].at \in Int /\ ext[L].n \in Int /\ ext[L].sd \in Int /\ at \in Int /\ y \in Int
            BY <1>1, <1>2, <2>1, <6>1
          <6>b. sec \in Int BY <1>4, <6>a
          <6>2. ext[L].at + x = at + y
            <7>1. ext[L].at + ext[L].n = at BY <1>1, <2>1
            <7>2. QED BY <6>0, <6>1, <6>a, <7>1
          <6>3. ext[L].sd + x = sec + y
            <7>1. ext[L].sd + ext[L].n = sec BY <1>4
            <7> DEFINE u == ext[L].sd
                       v == ext[L].n
            <7>2. u \in Int /\ v \in Int /\ y \in Int /\ sec \in Int /\ u + v = sec /\ x = v + y BY <6>1, <6>a, <6>b, <7>1
            <7> HIDE DEF u, v
            <7>3. u + x = sec + y BY <7>2
            <7>4. QED BY <7>3 DEF u
          <6>4. Place(f, at + y) = sec + y BY <6>1
          <6>5. QED BY <4>1, <6>2, <6>3, <6>4
        <5>3. QED BY <1>2, <2>1, <5>1, <5>2
      <4>3. QED BY <1>1, <1>2, <2>1, <4>1, <4>2
    <3>2. CASE j # L
      <4>1. new[j] = ext[j] BY <2>4, <3>2
      <4>2. QED BY <1>1, <4>1
    <3>3. QED BY <3>1, <3>2
  <2>6. new[L].at + new[L].n = at + n
    <3>1. ext[L].at + ext[L].n = at /\ ext[L].at \in Nat /\ ext[L].n \in Nat BY <1>1, <1>2, <2>1
    <3>2. new[L].n = ext[L].n + n /\ new[L].at = ext[L].at BY <2>2, <2>4
    <3>3. \A a \in Nat, b \in Nat : a + (b + n) = (a + b) + n OBVIOUS
    <3>4. QED BY <3>1, <3>2, <3>3
  <2>7. new[1].at = 0
    <3>1. CASE L = 1 BY <1>1, <2>2, <2>4, <3>1
    <3>2. CASE L # 1 BY <1>1, <2>1, <2>4, <3>2
    <3>3. QED BY <3>1, <3>2
  <2>8. \A j \in 1..L - 1 : new[j + 1].at = new[j].at + new[j].n
    <3>1. SUFFICES ASSUME NEW j \in 1..L - 1 PROVE new[j + 1].at = new[j].at + new[j].n OBVIOUS
    <3>2. new[j + 1].at = ext[j + 1].at
      <4>1. CASE j + 1 = L BY <2>2, <2>4, <4>1
      <4>2. CASE j + 1 # L
        <5>1. j + 1 \in 1..L - 1 BY <1>1, <4>2
        <5>2. QED BY <2>4, <5>1
      <4>3. QED BY <4>1, <4>2
    <3>3. QED BY <1>1, <2>4, <3>2
  <2>9. at + n \in Nat /\ at + n # 0 /\ L # 0 BY <1>1, <2>1
  <2>10. ExtentsOf(new, at + n, f) BY <2>4, <2>5, <2>6, <2>7, <2>8, <2>9 DEF ExtentsOf
  <2>11. QED BY <2>10 DEF new
<1>5. CASE ~(ext # <<>> /\ ext[L].sd + ext[L].n = sec)
  <2> DEFINE e == [at |-> at, sd |-> sec, n |-> n]
  <2>1. e \in ExtRec /\ e.n = n /\ e.at = at /\ e.sd = sec BY <1>1, ExtFields
  <2>2. new = Append(ext, e) BY <1>5 DEF AppendedRun
  <2> HIDE DEF e, new
  <2>3. new \in Seq(ExtRec) /\ Len(new) = L + 1 /\ new[L + 1] = e /\ \A j \in 1..L : new[j] = ext[j]
    BY <1>1, <2>1, <2>2, QueueBack
  <2>4. ASSUME NEW j \in 1..L + 1
        PROVE  new[j].n >= 1 /\ \A x \in 0..new[j].n - 1 : Place(f, new[j].at + x) = new[j].sd + x
    <3>1. CASE j = L + 1
      <4>1. new[j].n = n /\ new[j].at = at /\ new[j].sd = sec BY <2>1, <2>3, <3>1
      <4>2. QED BY <4>1
    <3>2. CASE j # L + 1
      <4>1. j \in 1..L /\ new[j] = ext[j] BY <1>1, <2>3, <3>2
      <4>2. QED BY <1>1, <4>1
    <3>3. QED BY <3>1, <3>2
  <2>5. \A j \in 1..L : new[j + 1].at = new[j].at + new[j].n
    <3>1. SUFFICES ASSUME NEW j \in 1..L PROVE new[j + 1].at = new[j].at + new[j].n OBVIOUS
    <3>2. CASE j = L BY <1>1, <2>1, <2>3, <3>2
    <3>3. CASE j # L
      <4>1. j \in 1..L - 1 /\ j + 1 \in 1..L BY <1>1, <3>3
      <4>2. QED BY <1>1, <2>3, <4>1
    <3>4. QED BY <3>2, <3>3
  <2>6. new[1].at = 0
    <3>1. CASE L = 0 BY <1>1, <2>1, <2>3, <3>1
    <3>2. CASE L # 0 BY <1>1, <2>3, <3>2
    <3>3. QED BY <3>1, <3>2
  <2>7. new[L + 1].at + new[L + 1].n = at + n /\ at + n \in Nat /\ at + n # 0
    <3>1. new[L + 1].at = at /\ new[L + 1].n = n BY <2>1, <2>3
    <3>2. at \in Nat /\ n \in Nat /\ n >= 1 BY <1>1
    <3>3. QED BY <3>1, <3>2
  <2>8. (L + 1) - 1 = L /\ L + 1 # 0 BY <1>1
  <2>9. ExtentsOf(new, at + n, f) BY <2>3, <2>4, <2>5, <2>6, <2>7, <2>8 DEF ExtentsOf
  <2>10. QED BY <2>9 DEF new
<1>6. QED BY <1>4, <1>5

(* The fold that builds the table: after m runs it has the sectors of their *)
(* clusters, or those of the file if these are fewer.                       *)
ExtStep(f, acc, r) ==
  IF acc.at >= SectorsOf(f) THEN acc
  ELSE LET n == Lesser(r.n * Csize, SectorsOf(f) - acc.at)
       IN [at |-> acc.at + n, ext |-> AppendedRun(acc.ext, acc.at, FirstSector(r.at), n)]
Clusters(lm, st, m) == IF m = 0 THEN 0 ELSE st[m] + lm[m].n
BuiltUpto(acc, lm, st, m, f) ==
  acc \in AccRec /\ acc.at = Lesser(Clusters(lm, st, m) * Csize, SectorsOf(f)) /\ ExtentsOf(acc.ext, acc.at, f)

LEMMA AccFields ==
  /\ \A acc \in AccRec : acc.at \in Nat /\ acc.ext \in Seq(ExtRec)
  /\ \A a \in Nat, e \in Seq(ExtRec) : [at |-> a, ext |-> e] \in AccRec
BY DEF AccRec

LEMMA EmptyExt == <<>> \in Seq(ExtRec) /\ Len(<<>>) = 0
OBVIOUS

LEMMA AppendedIs ==
  ASSUME NEW ext \in Seq(ExtRec), NEW at \in Nat, NEW sec \in Int, NEW n \in Nat
  PROVE  AppendedRun(ext, at, sec, n) \in Seq(ExtRec)
<1>1. CASE ext # <<>> /\ ext[Len(ext)].sd + ext[Len(ext)].n = sec
  <2>1. AppendedRun(ext, at, sec, n) = [ext EXCEPT ![Len(ext)] = [ext[Len(ext)] EXCEPT !.n = @ + n]]
    BY <1>1 DEF AppendedRun
  <2>2. ext[Len(ext)] \in ExtRec BY <1>1, QueueFront
  <2>3. [ext[Len(ext)] EXCEPT !.n = @ + n] \in ExtRec BY <2>2, ExtFields
  <2>4. QED BY <1>1, <2>1, <2>3, LastLonger
<1>2. CASE ~(ext # <<>> /\ ext[Len(ext)].sd + ext[Len(ext)].n = sec)
  <2>1. AppendedRun(ext, at, sec, n) = Append(ext, [at |-> at, sd |-> sec, n |-> n]) BY <1>2 DEF AppendedRun
  <2>2. [at |-> at, sd |-> sec, n |-> n] \in ExtRec BY ExtFields
  <2>3. QED BY <2>1, <2>2, QueueBack
<1>3. QED BY <1>1, <1>2

LEMMA FirstSectorIs == ASSUME NEW c \in Nat PROVE FirstSector(c) \in Int
BY MapAssumption DEF FirstSector

LEMMA SectorsAre == ASSUME NEW f, f.size \in Nat PROVE SectorsOf(f) \in Nat
BY DEF SectorsOf

LEMMA ExtStepIs ==
  ASSUME NEW f, f.size \in Nat, NEW acc \in AccRec, NEW r \in RunRec
  PROVE  ExtStep(f, acc, r) \in AccRec
<1>1. CASE acc.at >= SectorsOf(f) BY <1>1 DEF ExtStep
<1>2. CASE ~(acc.at >= SectorsOf(f))
  <2> DEFINE n == Lesser(r.n * Csize, SectorsOf(f) - acc.at)
  <2>1. acc.at \in Nat /\ acc.ext \in Seq(ExtRec) /\ r.n \in Nat /\ r.at \in Nat BY AccFields, RunFields
  <2>2. r.n * Csize \in Nat BY <2>1, MapAssumption
  <2>3. n \in Nat BY <1>2, <2>1, <2>2, SectorsAre DEF Lesser
  <2>4. ExtStep(f, acc, r) = [at |-> acc.at + n, ext |-> AppendedRun(acc.ext, acc.at, FirstSector(r.at), n)]
    BY <1>2 DEF ExtStep
  <2> HIDE DEF n
  <2>5. acc.at + n \in Nat BY <2>1, <2>3
  <2>6. QED BY <2>1, <2>3, <2>4, <2>5, FirstSectorIs, AppendedIs, AccFields
<1>3. QED BY <1>1, <1>2

LEMMA ExtStepKeeps ==
  ASSUME NEW f, f.size \in Nat, NEW lm, NEW st, NEW k \in Nat, RunsOf(lm, st, f.clusters, k),
         NEW m \in Nat, m < Len(lm), NEW acc, BuiltUpto(acc, lm, st, m, f)
  PROVE  BuiltUpto(ExtStep(f, acc, lm[m + 1]), lm, st, m + 1, f)
<1> DEFINE r == lm[m + 1]
           s == st[m + 1]
           T == SectorsOf(f)
           n == Lesser(r.n * Csize, T - acc.at)
<1>1. /\ lm \in Seq(RunRec) /\ Len(lm) \in Nat /\ m + 1 \in 1..Len(lm) /\ st \in [1..Len(lm) -> Nat]
      /\ st[1] = 0 /\ \A j \in 1..Len(lm) - 1 : st[j + 1] = st[j] + lm[j].n
      /\ \A j \in 1..Len(lm) : \A x \in 0..lm[j].n - 1 : f.clusters[st[j] + x + 1] = lm[j].at + x
      /\ \A j \in 1..Len(lm) : lm[j].n >= 1
  <2>1. /\ lm \in Seq(RunRec) /\ st \in [1..Len(lm) -> Nat] /\ (Len(lm) > 0 => st[1] = 0)
        /\ \A j \in 1..Len(lm) - 1 : st[j + 1] = st[j] + lm[j].n
        /\ \A j \in 1..Len(lm) : \A x \in 0..lm[j].n - 1 : f.clusters[st[j] + x + 1] = lm[j].at + x
        /\ \A j \in 1..Len(lm) : lm[j].n >= 1
    BY DEF RunsOf
  <2>2. Len(lm) \in Nat /\ m + 1 \in 1..Len(lm) /\ Len(lm) > 0 BY <2>1
  <2>3. QED BY <2>1, <2>2
<1>2. r \in RunRec /\ r.n \in Nat /\ r.at \in Nat /\ r.n >= 1 /\ s \in Nat /\ T \in Nat
  <2>1. r \in RunRec BY <1>1, QueueFront
  <2>2. QED BY <1>1, <2>1, RunFields, SectorsAre
<1>3. Clusters(lm, st, m) = s
  <2>1. CASE m = 0 BY <1>1, <2>1 DEF Clusters
  <2>2. CASE m # 0
    <3>1. m \in 1..Len(lm) - 1 BY <1>1, <2>2
    <3>2. QED BY <1>1, <2>2, <3>1 DEF Clusters
  <2>3. QED BY <2>1, <2>2
<1>4. Clusters(lm, st, m + 1) = s + r.n BY <1>1 DEF Clusters
<1>5. acc \in AccRec /\ acc.at \in Nat /\ acc.at = Lesser(s * Csize, T) /\ ExtentsOf(acc.ext, acc.at, f)
  BY <1>3, AccFields DEF BuiltUpto
<1>6. ExtStep(f, acc, r) \in AccRec BY <1>2, <1>5, ExtStepIs
<1> DEFINE a == s * Csize
           b == r.n * Csize
<1>7. (s + r.n) * Csize = a + b /\ a \in Nat /\ b \in Nat /\ b >= 1
  <2>1. Csize \in Nat /\ Csize >= 1 BY MapAssumption
  <2>a. \A u \in Nat, v \in Nat, c \in Nat : u * c \in Nat /\ (u + v) * c = u * c + v * c OBVIOUS
  <2>b. \A v \in Nat, c \in Nat : v >= 1 /\ c >= 1 => v * c >= 1 OBVIOUS
  <2> HIDE DEF r, s, T
  <2>2. a \in Nat /\ b \in Nat /\ (s + r.n) * Csize = a + b BY <1>2, <2>1, <2>a
  <2>3. b >= 1 BY <1>2, <2>1, <2>b
  <2>4. QED BY <2>2, <2>3
<1> HIDE DEF r, s, T, a, b
<1>8. CASE acc.at >= T
  <2>1. ExtStep(f, acc, r) = acc BY <1>8 DEF ExtStep, T
  <2>2. acc.at = Lesser(a + b, T) BY <1>2, <1>5, <1>7, <1>8 DEF Lesser, a
  <2>3. QED BY <1>4, <1>5, <1>7, <2>1, <2>2 DEF BuiltUpto, r, s, T
<1>9. CASE ~(acc.at >= T)
  <2>1. acc.at = a /\ a < T BY <1>2, <1>5, <1>7, <1>9 DEF Lesser, a
  <2>2. n \in Nat \ {0} /\ acc.at + n = Lesser(a + b, T) /\ n <= b BY <1>2, <1>7, <2>1 DEF Lesser, b
  <2>3. ExtStep(f, acc, r) = [at |-> acc.at + n, ext |-> AppendedRun(acc.ext, acc.at, FirstSector(r.at), n)]
    BY <1>9 DEF ExtStep, T
  <2> HIDE DEF n
  <2>4. \A x \in 0..n - 1 : Place(f, acc.at + x) = FirstSector(r.at) + x
    <3>1. SUFFICES ASSUME NEW x \in 0..n - 1 PROVE Place(f, acc.at + x) = FirstSector(r.at) + x OBVIOUS
    <3>2. x \in 0..b - 1 BY <1>7, <2>2
    <3>3. InOneRun(f, s, r.n, r.at) BY <1>1 DEF r, s, InOneRun
    <3>4. Place(f, a + x) = FirstSector(r.at) + x
      <4>1. r.at \in Int /\ x \in 0..r.n * Csize - 1 BY <1>2, <3>2 DEF b
      <4>2. Place(f, s * Csize + x) = FirstSector(r.at) + x BY <1>2, <3>3, <4>1, PlaceInRun
      <4>3. QED BY <4>2 DEF a
    <3>5. QED BY <2>1, <3>4
  <2>5. ExtentsOf(AppendedRun(acc.ext, acc.at, FirstSector(r.at), n), acc.at + n, f)
    BY <1>2, <1>5, <2>2, <2>4, FirstSectorIs, AppendedKeeps
  <2>6. ExtStep(f, acc, r).at = acc.at + n /\ ExtentsOf(ExtStep(f, acc, r).ext, acc.at + n, f) BY <2>3, <2>5
  <2>7. ExtStep(f, acc, r).at = Lesser(Clusters(lm, st, m + 1) * Csize, SectorsOf(f))
    BY <1>4, <1>7, <2>2, <2>6 DEF T
  <2>8. QED BY <1>6, <2>6, <2>7 DEF BuiltUpto, r
<1>10. QED BY <1>8, <1>9

(* build_extents: the table has every sector of the file before Extents(f).at *)
(* at its place, and no other; those are in the chain.                      *)
LEMMA ExtentsAreTheFile ==
  ASSUME NEW f, f.clusters \in Seq(Nat), f.size \in Nat
  PROVE  /\ ExtentsOf(Extents(f).ext, Extents(f).at, f) /\ Extents(f).at <= SectorsOf(f)
         /\ Extents(f).at <= Len(f.clusters) * Csize
<1> DEFINE lm == LinkMap(f)
           n  == Len(lm)
           V  == AccRec
           B  == [at |-> 0, ext |-> <<>>]
           G  == [x \in V \X (1..n) |-> ExtStep(f, x[1], lm[x[2]])]
           Eq(g) == g = [s \in SUBSET (DOMAIN lm) |-> IF s = {} THEN B ELSE ExtStep(f, g[s \ {Max(s)}], lm[Max(s)])]
           it == CHOOSE g : Eq(g)
<1>1. Extents(f) = it[DOMAIN lm] BY Zenon DEF Extents, FoldLeft, MapThenFoldSet, ExtStep
<1>2. PICK st : RunsOf(lm, st, f.clusters, Len(f.clusters)) BY LinkMapRuns
<1>3. lm \in Seq(RunRec) /\ Len(f.clusters) \in Nat BY <1>2 DEF RunsOf
<1> DEFINE S == {k \in Nat : k <= n => BuiltUpto(it[1..k], lm, st, k, f)}
<1> HIDE DEF lm
<1>4. n \in Nat /\ DOMAIN lm = 1..n /\ \A i \in 1..n : lm[i] \in RunRec BY <1>3
<1>5. \A s \in SUBSET (1..n) : s # {} => Max(s) \in 1..n BY <1>4, GreatestNumber
<1>6. B \in V BY AccFields, EmptyExt
<1> HIDE DEF n
<1>7. G \in [V \X (1..n) -> V]
  <2>1. ASSUME NEW x \in V \X (1..n) PROVE ExtStep(f, x[1], lm[x[2]]) \in V
    <3>1. x[1] \in AccRec /\ lm[x[2]] \in RunRec BY <1>4
    <3>2. QED BY <3>1, ExtStepIs
  <2>2. QED BY <2>1
<1>8. Eq(it)
  <2>1. PICK g : g \in [SUBSET (1..n) -> V] /\ IsFold(g, n, B, G)
    <3> HIDE DEF V, G, B
    <3>1. QED BY <1>4, <1>6, <1>7, FoldExists
  <2>2. ASSUME NEW s \in SUBSET (1..n)
        PROVE  g[s] = IF s = {} THEN B ELSE ExtStep(f, g[s \ {Max(s)}], lm[Max(s)])
    <3>1. g[s] = IF s = {} THEN B ELSE G[<<g[s \ {Max(s)}], Max(s)>>] BY <2>1 DEF IsFold
    <3>2. s # {} => g[s \ {Max(s)}] \in V /\ Max(s) \in 1..n BY <1>5, <2>1
    <3>3. \A v \in V, i \in 1..n : G[<<v, i>>] = ExtStep(f, v, lm[i]) OBVIOUS
    <3> HIDE DEF V, G, B
    <3>4. QED BY <3>1, <3>2, <3>3
  <2>3. Eq(g) BY <1>4, <2>1, <2>2
  <2> HIDE DEF Eq
  <2>4. QED BY <2>3
<1> HIDE DEF it
<1>9. it[1..0] = B /\ \A k \in 0..n - 1 : it[1..k + 1] = ExtStep(f, it[1..k], lm[k + 1])
  <2>1. it[1..0] = B
    <3>1. 1..0 = {} /\ 1..0 \in SUBSET (1..n) OBVIOUS
    <3>2. QED BY <1>4, <1>8, <3>1
  <2>2. ASSUME NEW k \in 0..n - 1 PROVE it[1..k + 1] = ExtStep(f, it[1..k], lm[k + 1])
    <3>0. k \in Nat /\ k + 1 <= n BY <1>4
    <3>1. 1..k + 1 \in SUBSET (1..n) /\ 1..k + 1 # {}
      <4>1. 1 \in 1..k + 1 /\ \A x \in 1..k + 1 : x \in 1..n BY <1>4, <3>0
      <4>2. QED BY <4>1
    <3>2. Max(1..k + 1) = k + 1 /\ (1..k + 1) \ {k + 1} = 1..k BY <3>0, LastOfInterval
    <3>3. \A s \in SUBSET (1..n) : s # {} => it[s] = ExtStep(f, it[s \ {Max(s)}], lm[Max(s)]) BY <1>4, <1>8
    <3>4. it[1..k + 1] = ExtStep(f, it[(1..k + 1) \ {Max(1..k + 1)}], lm[Max(1..k + 1)]) BY <3>1, <3>3
    <3>5. QED BY <3>2, <3>4
  <2>3. QED BY <2>1, <2>2
<1>10. 0 \in S
  <2>1. ExtentsOf(<<>>, 0, f) BY EmptyExt DEF ExtentsOf
  <2>2. 0 = Lesser(0 * Csize, SectorsOf(f)) BY MapAssumption, SectorsAre DEF Lesser
  <2>3. BuiltUpto(B, lm, st, 0, f) BY <1>6, <2>1, <2>2 DEF BuiltUpto, Clusters
  <2> HIDE DEF B
  <2>4. QED BY <1>9, <2>3
<1>11. ASSUME NEW k \in Nat, k \in S PROVE k + 1 \in S
  <2>1. SUFFICES ASSUME k + 1 <= n PROVE BuiltUpto(it[1..k + 1], lm, st, k + 1, f) OBVIOUS
  <2>2. k \in 0..n - 1 /\ k <= n /\ k < Len(lm) BY <1>4, <2>1 DEF n
  <2>3. BuiltUpto(it[1..k], lm, st, k, f) BY <1>11, <2>2
  <2>4. QED BY <1>2, <1>3, <1>9, <2>2, <2>3, ExtStepKeeps
<1>12. n \in S
  <2> HIDE DEF S
  <2>1. QED BY <1>4, <1>10, <1>11, SetInduction
<1>13. BuiltUpto(it[1..n], lm, st, n, f) BY <1>4, <1>12
<1>14. Clusters(lm, st, n) = Len(f.clusters)
  <2>1. CASE n = 0
    <3>1. Len(f.clusters) = 0 BY <1>2, <2>1 DEF RunsOf, n
    <3>2. QED BY <2>1, <3>1 DEF Clusters
  <2>2. CASE n # 0
    <3>1. st[n] + lm[n].n = Len(f.clusters) BY <1>2, <1>4, <2>2 DEF RunsOf, n
    <3>2. QED BY <2>2, <3>1 DEF Clusters
  <2>3. QED BY <2>1, <2>2
<1>15. Extents(f) = it[1..n] BY <1>1, <1>4
<1>16. QED
  <2>1. Len(f.clusters) * Csize \in Nat BY <1>3, MapAssumption
  <2>2. Extents(f).at = Lesser(Len(f.clusters) * Csize, SectorsOf(f)) /\ ExtentsOf(Extents(f).ext, Extents(f).at, f)
    BY <1>13, <1>14, <1>15 DEF BuiltUpto
  <2>3. QED BY <2>1, <2>2, SectorsAre DEF Lesser

---------------------------------------------------------------------------
(* file_map: for a file whose chain was not refused, the run it answers     *)
(* from sector i on lies in the file, is no longer than asked for, is empty *)
(* only when nothing was asked or i is past the end, and each of its        *)
(* sectors is where the cluster chain has it, in every such file, whatever  *)
(* the number of its runs. FatFs's link map, build_extents and the binary   *)
(* search of file_map together.                                             *)
THEOREM FileMapExact ==
  ASSUME NEW f, f.clusters \in Seq(Nat), f.size \in Nat, ~Refused(f),
         NEW cur, cur.ext = Extents(f).ext, cur.fileSectors = SectorsOf(f),
         NEW i \in Nat, NEW n \in Nat
  PROVE  LET m == FileMap(cur, i, n)
         IN /\ m.run \in 0..n /\ m.sd \in Int /\ (m.run = 0 <=> n = 0 \/ i >= SectorsOf(f))
            /\ m.run # 0 => i + m.run <= SectorsOf(f)
            /\ \A x \in 0..m.run - 1 : m.sd + x = Place(f, i + x)
<1> DEFINE ext == Extents(f).ext
           T   == SectorsOf(f)
           m   == FileMap(cur, i, n)
<1>1. T \in Nat /\ ExtentsOf(ext, Extents(f).at, f) /\ Extents(f).at = T
  <2>1. Extents(f).at <= T /\ ExtentsOf(ext, Extents(f).at, f) BY ExtentsAreTheFile
  <2>2. ~(Extents(f).at < T) BY DEF Refused
  <2>3. Extents(f).at \in Nat BY <2>1 DEF ExtentsOf
  <2>4. T \in Nat BY SectorsAre
  <2> HIDE DEF T, ext
  <2>5. QED BY <2>1, <2>2, <2>3, <2>4
<1>2. ExtentsOf(ext, T, f) BY <1>1
<1> HIDE DEF ext, T
<1>3. /\ ext \in Seq(ExtRec) /\ (Len(ext) = 0 <=> T = 0) /\ Len(ext) \in Nat /\ (ext = <<>> <=> Len(ext) = 0)
      /\ (Len(ext) > 0 => ext[1].at = 0 /\ ext[Len(ext)].at + ext[Len(ext)].n = T)
      /\ \A j \in 1..Len(ext) - 1 : ext[j + 1].at = ext[j].at + ext[j].n
      /\ \A j \in 1..Len(ext) : \A x \in 0..ext[j].n - 1 : Place(f, ext[j].at + x) = ext[j].sd + x
  <2>1. ext \in Seq(ExtRec) BY <1>2 DEF ExtentsOf
  <2>2. Len(ext) \in Nat /\ (ext = <<>> <=> Len(ext) = 0) BY <2>1, QueueFront
  <2>3. QED BY <1>2, <2>1, <2>2 DEF ExtentsOf
<1>4. cur.ext = ext /\ cur.fileSectors = T BY DEF ext, T
<1>5. CASE n = 0 \/ i >= T
  <2>1. m = NoRun BY <1>4, <1>5 DEF FileMap
  <2>2. m.run = 0 /\ m.sd \in Int BY <2>1 DEF NoRun
  <2> HIDE DEF m
  <2>3. QED BY <1>5, <2>2 DEF T, m
<1>6. CASE ~(n = 0 \/ i >= T)
  <2> DEFINE r == LastAtOrBelow(ext, i)
             left == Lesser(n, T - i)
  <2>1. Len(ext) \in Nat \ {0} /\ ext # <<>> /\ ext[1].at <= i BY <1>1, <1>3, <1>6
  <2>2. r \in 1..Len(ext) /\ ext[r].at <= i /\ (r < Len(ext) => ~(ext[r + 1].at <= i)) BY <2>1, SearchFinds
  <2>3. ext[r].at \in Nat /\ ext[r].n \in Nat /\ ext[r].sd \in Int
    <3> HIDE DEF r
    <3>1. ext[r] \in ExtRec BY <1>3, <2>2, QueueFront
    <3>2. QED BY <3>1, ExtFields
  <2>4. m = IF i >= ext[r].at + ext[r].n THEN NoRun
            ELSE [run |-> Lesser(ext[r].at + ext[r].n - i, left), sd |-> ext[r].sd + i - ext[r].at]
    BY <1>4, <1>6, <2>1 DEF FileMap
  <2> HIDE DEF m, r
  <2> DEFINE at == ext[r].at
             len == ext[r].n
             sd == ext[r].sd
  <2>5. at \in Nat /\ len \in Nat /\ sd \in Int /\ at <= i BY <2>2, <2>3
  <2>6. i < at + len
    <3>1. CASE r = Len(ext) BY <1>1, <1>3, <1>6, <2>1, <3>1
    <3>2. CASE r # Len(ext)
      <4>1. r \in 1..Len(ext) - 1 /\ r < Len(ext) BY <1>3, <2>2, <3>2
      <4>2. ext[r + 1].at = at + len /\ ~(ext[r + 1].at <= i) BY <1>3, <2>2, <4>1
      <4>3. QED BY <2>5, <4>2
    <3>3. QED BY <3>1, <3>2
  <2>7. \A x \in 0..len - 1 : Place(f, at + x) = sd + x BY <1>3, <2>2
  <2> HIDE DEF at, len, sd
  <2>8. m = [run |-> Lesser(at + len - i, left), sd |-> sd + i - at] BY <2>4, <2>5, <2>6 DEF at, len, sd
  <2>9. m.run = Lesser(at + len - i, left) /\ m.sd = sd + i - at BY <2>8
  <2>10. left \in Nat /\ left >= 1 /\ left <= n /\ i + left <= T BY <1>1, <1>6 DEF Lesser
  <2> HIDE DEF left
  <2>11. m.run \in 1..n /\ m.run <= left /\ i + m.run <= at + len BY <2>5, <2>6, <2>9, <2>10 DEF Lesser
  <2>12. i + m.run <= T BY <1>1, <2>10, <2>11
  <2>13. \A x \in 0..m.run - 1 : m.sd + x = Place(f, i + x)
    <3>1. SUFFICES ASSUME NEW x \in 0..m.run - 1 PROVE m.sd + x = Place(f, i + x) OBVIOUS
    <3>2. PICK y \in 0..len - 1 : y = i - at + x BY <2>5, <2>11
    <3>3. Place(f, at + y) = sd + y BY <2>7
    <3>4. at + y = i + x /\ sd + y = m.sd + x BY <2>5, <2>9, <2>11, <3>2
    <3>5. QED BY <3>3, <3>4
  <2>14. m.sd \in Int BY <2>5, <2>9
  <2>15. QED BY <1>6, <2>11, <2>12, <2>13, <2>14 DEF m, T
<1>7. QED BY <1>5, <1>6

---------------------------------------------------------------------------
(* The volume: what CardAssumption says of a file of the card in the slot.  *)
LEMMA FileFacts ==
  ASSUME dir \in Cards, NEW b \in DOMAIN dir, NEW f, f = dir[b]
  PROVE  /\ f.clusters \in Seq(Nat) /\ f.size \in Nat /\ SectorsOf(f) \in Nat /\ Len(f.clusters) \in Nat
         /\ \A k \in 1..Len(f.clusters) : f.clusters[k] >= 2 /\ FirstSector(f.clusters[k]) + Csize <= NBlk
         /\ \A i \in DOMAIN f.holds : i \in 0..SectorsOf(f) - 1 /\ i \div Csize < Len(f.clusters)
         /\ (f.kind = "iso" <=> f.suffix = "iso") /\ (f.suffix # "vmdk" => f.size >= 8)
         /\ (f.suffix = "vhd" => WholeVhd(f)) /\ (f.suffix = "vmdk" => WholeVmdk(dir, f))
<1>1. Volume(dir) /\ (f.suffix = "vhd" => WholeVhd(f)) /\ (f.suffix = "vmdk" => WholeVmdk(dir, f))
  BY CardAssumption
<1>2. /\ f.clusters \in Seq(Nat) /\ f.size \in Nat
      /\ \A k \in DOMAIN f.clusters : f.clusters[k] >= 2 /\ FirstSector(f.clusters[k]) + Csize <= NBlk
      /\ \A i \in DOMAIN f.holds : i \in 0..SectorsOf(f) - 1 /\ i \div Csize < Len(f.clusters)
      /\ (f.kind = "iso" <=> f.suffix = "iso") /\ (f.suffix # "vmdk" => f.size >= 8)
  BY <1>1, Zenon DEF Volume
<1>3. DOMAIN f.clusters = 1..Len(f.clusters) /\ Len(f.clusters) \in Nat BY <1>2
<1>4. QED BY <1>1, <1>2, <1>3, SectorsAre

LEMMA NoCrossLinks ==
  ASSUME dir \in Cards, NEW a \in DOMAIN dir, NEW b \in DOMAIN dir,
         NEW k \in 1..Len(dir[a].clusters), NEW l \in 1..Len(dir[b].clusters),
         dir[a].clusters[k] = dir[b].clusters[l]
  PROVE  a = b /\ k = l
<1>1. Volume(dir) BY CardAssumption
<1>2. dir[a].clusters \in Seq(Nat) /\ dir[b].clusters \in Seq(Nat) BY FileFacts
<1>3. k \in DOMAIN dir[a].clusters /\ l \in DOMAIN dir[b].clusters BY <1>2
<1>4. \A x \in DOMAIN dir, y \in DOMAIN dir : \A i \in DOMAIN dir[x].clusters, j \in DOMAIN dir[y].clusters :
         dir[x].clusters[i] = dir[y].clusters[j] => x = y /\ i = j
  BY <1>1 DEF Volume
<1>5. QED BY <1>3, <1>4

InChain(f, i) == i \in Nat /\ i \div Csize < Len(f.clusters)

(* A sector of a chain, by its cluster and its place in it. *)
LEMMA ChainPlace ==
  ASSUME dir \in Cards, NEW b \in DOMAIN dir, NEW f, f = dir[b], NEW i, InChain(f, i)
  PROVE  \E q \in Nat, r \in 0..Csize - 1 :
           /\ i = q * Csize + r /\ q + 1 \in 1..Len(f.clusters) /\ f.clusters[q + 1] \in Nat
           /\ f.clusters[q + 1] >= 2 /\ (f.clusters[q + 1] - 2) * Csize + Csize <= NBlk
           /\ Place(f, i) = (f.clusters[q + 1] - 2) * Csize + r
<1> DEFINE q == i \div Csize
           r == i % Csize
<1>1. Csize \in Nat \ {0} /\ i \in Nat /\ q < Len(f.clusters) BY MapAssumption DEF InChain
<1>2. i = q * Csize + r /\ r \in 0..Csize - 1 /\ q \in Nat BY <1>1
<1>3. Place(f, i) = (f.clusters[q + 1] - 2) * Csize + r BY Zenon DEF Place, FirstSector
<1> HIDE DEF q, r
<1>4. Len(f.clusters) \in Nat /\ f.clusters \in Seq(Nat) BY FileFacts
<1>5. q + 1 \in 1..Len(f.clusters) BY <1>1, <1>2, <1>4
<1>6. f.clusters[q + 1] \in Nat BY <1>4, <1>5
<1>7. f.clusters[q + 1] >= 2 /\ FirstSector(f.clusters[q + 1]) + Csize <= NBlk BY <1>5, FileFacts
<1>8. QED BY <1>2, <1>3, <1>5, <1>6, <1>7 DEF FirstSector

LEMMA OnTheCard ==
  ASSUME dir \in Cards, NEW b \in DOMAIN dir, NEW f, f = dir[b], NEW i, InChain(f, i)
  PROVE  Place(f, i) \in Nat /\ Place(f, i) < NBlk
<1>1. PICK q \in Nat, r \in 0..Csize - 1 :
         /\ f.clusters[q + 1] \in Nat
         /\ f.clusters[q + 1] >= 2 /\ (f.clusters[q + 1] - 2) * Csize + Csize <= NBlk
         /\ Place(f, i) = (f.clusters[q + 1] - 2) * Csize + r
  BY ChainPlace
<1>2. Csize \in Nat /\ NBlk \in Nat BY MapAssumption, ReadAssumption
<1> DEFINE c == f.clusters[q + 1] - 2
<1>3. c \in Nat /\ c * Csize \in Nat
  <2>1. c \in Nat BY <1>1
  <2> HIDE DEF c
  <2>2. QED BY <1>2, <2>1
<1>4. c * Csize + Csize <= NBlk /\ Place(f, i) = c * Csize + r BY <1>1
<1> HIDE DEF c
<1>5. QED BY <1>2, <1>3, <1>4

LEMMA OnePlace ==
  ASSUME dir \in Cards, NEW a \in DOMAIN dir, NEW b \in DOMAIN dir, NEW i, NEW j,
         InChain(dir[a], i), InChain(dir[b], j), Place(dir[a], i) = Place(dir[b], j)
  PROVE  a = b /\ i = j
<1>0. ASSUME NEW d \in DOMAIN dir, NEW k, InChain(dir[d], k)
      PROVE  \E q \in Nat, r \in 0..Csize - 1 :
                /\ k = q * Csize + r /\ q + 1 \in 1..Len(dir[d].clusters) /\ dir[d].clusters[q + 1] \in Nat
                /\ Place(dir[d], k) = (dir[d].clusters[q + 1] - 2) * Csize + r
  BY <1>0, ChainPlace
<1>1. PICK q \in Nat, r \in 0..Csize - 1 :
         /\ i = q * Csize + r /\ q + 1 \in 1..Len(dir[a].clusters) /\ dir[a].clusters[q + 1] \in Nat
         /\ Place(dir[a], i) = (dir[a].clusters[q + 1] - 2) * Csize + r
  BY <1>0
<1>2. PICK p \in Nat, s \in 0..Csize - 1 :
         /\ j = p * Csize + s /\ p + 1 \in 1..Len(dir[b].clusters) /\ dir[b].clusters[p + 1] \in Nat
         /\ Place(dir[b], j) = (dir[b].clusters[p + 1] - 2) * Csize + s
  BY <1>0
<1>3. Csize \in Nat \ {0} BY MapAssumption
<1>4. \A x \in Int, d \in 0..Csize - 1 : (x * Csize + d) \div Csize = x /\ (x * Csize + d) % Csize = d BY <1>3
<1> DEFINE x == dir[a].clusters[q + 1] - 2
           y == dir[b].clusters[p + 1] - 2
<1>5. x \in Int /\ y \in Int /\ x * Csize + r = y * Csize + s
  <2>1. x \in Int /\ Place(dir[a], i) = x * Csize + r BY <1>1
  <2>2. y \in Int /\ Place(dir[b], j) = y * Csize + s BY <1>2
  <2> HIDE DEF x, y
  <2>3. QED BY <2>1, <2>2
<1>6. x = y /\ r = s
  <2> HIDE DEF x, y
  <2>1. QED BY <1>4, <1>5
<1>7. dir[a].clusters[q + 1] = dir[b].clusters[p + 1]
  <2>1. \A u \in Nat, w \in Nat : u - 2 = w - 2 => u = w OBVIOUS
  <2>2. x = y BY <1>6
  <2>3. QED BY <1>1, <1>2, <2>1, <2>2
<1>8. a = b /\ q + 1 = p + 1 BY <1>1, <1>2, <1>7, NoCrossLinks
<1>9. q = p BY <1>8
<1>10. QED BY <1>1, <1>2, <1>6, <1>8, <1>9

(* A sector of the card holds what its file has there. *)
Content(f, i) == IF i \in DOMAIN f.holds THEN f.holds[i] ELSE Data
LEMMA HoldsIs ==
  ASSUME dir \in Cards, NEW b \in DOMAIN dir, NEW f, f = dir[b], NEW i, InChain(f, i)
  PROVE  Holds(Place(f, i)) = Content(f, i)
<1> DEFINE sd == Place(f, i)
           owners == {name \in DOMAIN dir : \E k \in DOMAIN dir[name].holds : Place(dir[name], k) = sd}
           g == dir[CHOOSE name \in owners : TRUE]
<1>1. Holds(sd) = IF owners = {} THEN Data ELSE g.holds[CHOOSE k \in DOMAIN g.holds : Place(g, k) = sd]
  BY Zenon DEF Holds
<1>2. ASSUME NEW name \in DOMAIN dir, NEW k \in DOMAIN dir[name].holds, Place(dir[name], k) = sd
      PROVE  name = b /\ k = i
  <2>1. InChain(dir[name], k)
    <3>1. k \in 0..SectorsOf(dir[name]) - 1 /\ k \div Csize < Len(dir[name].clusters) /\ SectorsOf(dir[name]) \in Nat
      BY FileFacts
    <3>2. QED BY <3>1 DEF InChain
  <2>2. QED BY <1>2, <2>1, OnePlace
<1>3. CASE i \in DOMAIN f.holds
  <2>1. owners = {b} BY <1>2, <1>3
  <2>2. (CHOOSE name \in owners : TRUE) = b
    <3> HIDE DEF owners
    <3>1. QED BY <2>1
  <2>3. g = f BY <2>2
  <2>4. owners # {} BY <2>1
  <2> HIDE DEF g, owners
  <2>5. (CHOOSE k \in DOMAIN f.holds : Place(f, k) = sd) = i BY <1>2, <1>3
  <2>6. QED BY <1>1, <1>3, <2>3, <2>4, <2>5 DEF Content
<1>4. CASE i \notin DOMAIN f.holds
  <2>1. owners = {} BY <1>2, <1>4
  <2> HIDE DEF owners, g
  <2>2. QED BY <1>1, <1>4, <2>1 DEF Content
<1>5. QED BY <1>3, <1>4

---------------------------------------------------------------------------
(* The mounted image is what its file says; its tables are in the cache.    *)
Fresh(cache, f) ==
  /\ cache = [s \in 0..Slots - 1 |-> [tag |-> cache[s].tag, p |-> cache[s].p]]
  /\ \A s \in 0..Slots - 1 : /\ cache[s].tag \in Nat
                             /\ cache[s].tag # 0 => /\ (cache[s].tag - 1) % Slots = s /\ cache[s].tag - 1 < SectorsOf(f)
                                                    /\ cache[s].p = Holds(Place(f, cache[s].tag - 1))
Reads(cur, f) == cur.ext = Extents(f).ext /\ cur.fileSectors = SectorsOf(f) /\ ~Refused(f)

LEMMA WholeChain ==
  ASSUME dir \in Cards, NEW b \in DOMAIN dir, NEW f, f = dir[b], ~Refused(f), NEW i \in Nat, i < SectorsOf(f)
  PROVE  InChain(f, i)
<1>1. f.clusters \in Seq(Nat) /\ f.size \in Nat /\ SectorsOf(f) \in Nat /\ Len(f.clusters) \in Nat BY FileFacts
<1>2. ~(Extents(f).at < SectorsOf(f)) BY DEF Refused
<1>3. Extents(f).at <= Len(f.clusters) * Csize /\ Extents(f).at \in Nat BY <1>1, ExtentsAreTheFile DEF ExtentsOf
<1>4. Csize \in Nat \ {0} /\ Len(f.clusters) * Csize \in Nat BY <1>1, MapAssumption
<1>5. i < Len(f.clusters) * Csize BY <1>1, <1>2, <1>3, <1>4
<1>6. i \div Csize < Len(f.clusters)
  <2>1. i = (i \div Csize) * Csize + (i % Csize) /\ i % Csize \in 0..Csize - 1 /\ i \div Csize \in Nat BY <1>4
  <2>2. (i \div Csize) * Csize < Len(f.clusters) * Csize /\ (i \div Csize) * Csize \in Nat BY <1>4, <1>5, <2>1
  <2>3. \A x \in Nat, y \in Nat : x * Csize < y * Csize => x < y BY <1>4
  <2>4. QED BY <1>1, <2>1, <2>2, <2>3
<1>7. QED BY <1>6 DEF InChain

LEMMA FileRuns ==
  ASSUME dir \in Cards, NEW b \in DOMAIN dir, NEW f, f = dir[b], NEW cur, Reads(cur, f), NEW i \in Nat, NEW n \in Nat
  PROVE  LET m == FileMap(cur, i, n)
         IN /\ m.run \in 0..n /\ (m.run = 0 <=> n = 0 \/ i >= SectorsOf(f))
            /\ m.run # 0 => m.sd \in Nat /\ m.sd + m.run <= NBlk
            /\ \A x \in 0..m.run - 1 : Place(f, i + x) = m.sd + x
<1> DEFINE m == FileMap(cur, i, n)
<1>1. f.clusters \in Seq(Nat) /\ f.size \in Nat /\ SectorsOf(f) \in Nat BY FileFacts
<1>2. ~Refused(f) BY DEF Reads
<1>3. /\ m.run \in 0..n /\ m.sd \in Int /\ (m.run = 0 <=> n = 0 \/ i >= SectorsOf(f))
      /\ (m.run # 0 => i + m.run <= SectorsOf(f))
      /\ \A x \in 0..m.run - 1 : m.sd + x = Place(f, i + x)
  BY <1>1, <1>2, FileMapExact DEF Reads
<1> HIDE DEF m
<1>4. ASSUME m.run # 0 PROVE m.sd \in Nat /\ m.sd + m.run <= NBlk
  <2>1. 0 \in 0..m.run - 1 /\ m.run - 1 \in 0..m.run - 1 /\ m.run \in Nat BY <1>3, <1>4
  <2>2. m.sd + 0 = Place(f, i + 0) /\ m.sd + (m.run - 1) = Place(f, i + (m.run - 1)) BY <1>3, <2>1
  <2>3. InChain(f, i + 0) /\ InChain(f, i + (m.run - 1))
    <3>1. i + 0 \in Nat /\ i + (m.run - 1) \in Nat /\ i + 0 < SectorsOf(f) /\ i + (m.run - 1) < SectorsOf(f)
      BY <1>1, <1>3, <1>4, <2>1
    <3>2. QED BY <1>2, <3>1, WholeChain
  <2>4. Place(f, i + 0) \in Nat /\ Place(f, i + (m.run - 1)) \in Nat /\ Place(f, i + (m.run - 1)) < NBlk
    BY <2>3, OnTheCard
  <2>5. NBlk \in Nat BY ReadAssumption
  <2>6. QED BY <1>3, <2>1, <2>2, <2>4, <2>5
<1>5. QED BY <1>3, <1>4 DEF m

LEMMA SlotFilled ==
  ASSUME NEW f, NEW cache, Fresh(cache, f), NEW s \in 0..Slots - 1, NEW t \in Nat, NEW p,
         t # 0 => (t - 1) % Slots = s /\ t - 1 < SectorsOf(f) /\ p = Holds(Place(f, t - 1))
  PROVE  Fresh([cache EXCEPT ![s] = [tag |-> t, p |-> p]], f)
<1> DEFINE e  == [tag |-> t, p |-> p]
           c2 == [cache EXCEPT ![s] = e]
           D  == 0..Slots - 1
<1>1. cache = [z \in D |-> [tag |-> cache[z].tag, p |-> cache[z].p]] BY DEF Fresh
<1>2. DOMAIN cache = D BY <1>1
<1>3. c2 = [z \in D |-> IF z = s THEN e ELSE cache[z]] BY <1>2
<1>4. \A z \in D : c2[z] = IF z = s THEN e ELSE cache[z] BY <1>3
<1>5. e = [tag |-> e.tag, p |-> e.p] /\ e.tag = t /\ e.p = p OBVIOUS
<1>6. \A z \in D : cache[z] = [tag |-> cache[z].tag, p |-> cache[z].p] BY <1>1
<1> HIDE DEF e, c2
<1>7. \A z \in D : c2[z] = [tag |-> c2[z].tag, p |-> c2[z].p] BY <1>4, <1>5, <1>6
<1>8. c2 = [z \in D |-> c2[z]] BY <1>3, <1>4
<1>9. c2 = [z \in D |-> [tag |-> c2[z].tag, p |-> c2[z].p]] BY <1>7, <1>8
<1>10. ASSUME NEW z \in D
       PROVE  /\ c2[z].tag \in Nat
              /\ c2[z].tag # 0 => /\ (c2[z].tag - 1) % Slots = z /\ c2[z].tag - 1 < SectorsOf(f)
                                  /\ c2[z].p = Holds(Place(f, c2[z].tag - 1))
  <2>1. CASE z = s BY <1>4, <1>5, <2>1
  <2>2. CASE z # s
    <3>1. c2[z] = cache[z] BY <1>4, <2>2
    <3>2. QED BY <3>1 DEF Fresh
  <2>3. QED BY <2>1, <2>2
<1>11. Fresh(c2, f) BY <1>9, <1>10 DEF Fresh
<1>12. QED BY <1>11 DEF c2, e

(* tcache_get: the cache stays that of the file, and a sector it has is     *)
(* what the file holds there; without a fault it has every sector.          *)
LEMMA FetchedIs ==
  ASSUME dir \in Cards, NEW b \in DOMAIN dir, NEW f, f = dir[b], NEW cur, Reads(cur, f),
         NEW cache, Fresh(cache, f), NEW i \in Nat, NEW bad
  PROVE  LET r == Fetched(cur, cache, i, bad)
         IN /\ Fresh(r.cache, f)
            /\ r.ok => i < SectorsOf(f) /\ r.p = Content(f, i)
            /\ bad = {} /\ i < SectorsOf(f) => r.ok
<1> DEFINE r == Fetched(cur, cache, i, bad)
           s == Slot(i)
           m == FileMap(cur, i, 1)
<1>1. Slots \in Nat \ {0} /\ s \in 0..Slots - 1 /\ s = i % Slots BY MapAssumption DEF Slot
<1>2. SectorsOf(f) \in Nat BY FileFacts
<1>3. /\ m.run \in 0..1 /\ (m.run = 0 <=> 1 = 0 \/ i >= SectorsOf(f))
      /\ \A x \in 0..m.run - 1 : Place(f, i + x) = m.sd + x
      /\ (m.run # 0 => m.sd \in Nat)
  BY FileRuns
<1>4. i < SectorsOf(f) => Holds(Place(f, i)) = Content(f, i)
  <2>1. i < SectorsOf(f) => InChain(f, i) BY WholeChain DEF Reads
  <2>2. QED BY <2>1, HoldsIs
<1> HIDE DEF s, m
<1>5. CASE Cached(cache, i)
  <2>1. r = [ok |-> TRUE, p |-> cache[s].p, cache |-> cache] BY <1>5 DEF Fetched, s
  <2>2. cache[s].tag = i + 1 BY <1>5 DEF Cached, s
  <2>3. i < SectorsOf(f) /\ cache[s].p = Holds(Place(f, i))
    <3>1. cache[s].tag # 0 /\ cache[s].tag - 1 = i BY <2>2
    <3>2. cache[s].tag - 1 < SectorsOf(f) /\ cache[s].p = Holds(Place(f, cache[s].tag - 1))
      BY <1>1, <3>1 DEF Fresh
    <3>3. QED BY <3>1, <3>2
  <2>4. QED BY <1>4, <2>1, <2>3
<1>6. CASE ~Cached(cache, i) /\ (m.run # 1 \/ i \in bad)
  <2>1. r = [ok |-> FALSE, p |-> Data, cache |-> Emptied(cache, i)] BY <1>6 DEF Fetched, m
  <2>2. Fresh(Emptied(cache, i), f)
    <3>1. Emptied(cache, i) = [cache EXCEPT ![s] = [tag |-> 0, p |-> Data]] BY DEF Emptied, s
    <3>2. 0 \in Nat OBVIOUS
    <3>3. Fresh([cache EXCEPT ![s] = [tag |-> 0, p |-> Data]], f) BY <1>1, <3>2, SlotFilled
    <3>4. QED BY <3>1, <3>3
  <2>3. bad = {} => ~(i < SectorsOf(f)) BY <1>2, <1>3, <1>6
  <2>4. QED BY <2>1, <2>2, <2>3
<1>7. CASE ~Cached(cache, i) /\ ~(m.run # 1 \/ i \in bad)
  <2>1. r = [ok |-> TRUE, p |-> Holds(m.sd), cache |-> [cache EXCEPT ![s] = [tag |-> i + 1, p |-> Holds(m.sd)]]]
    BY <1>7 DEF Fetched, m, s
  <2>2. i < SectorsOf(f) /\ m.sd = Place(f, i)
    <3>1. 0 \in 0..m.run - 1 /\ m.sd \in Nat BY <1>3, <1>7
    <3>2. Place(f, i + 0) = m.sd + 0 BY <1>3, <3>1
    <3>3. QED BY <1>2, <1>3, <1>7, <3>1, <3>2
  <2>3. Fresh([cache EXCEPT ![s] = [tag |-> i + 1, p |-> Holds(m.sd)]], f)
    <3>1. i + 1 - 1 = i /\ i + 1 \in Nat OBVIOUS
    <3>2. QED BY <1>1, <2>2, <3>1, SlotFilled
  <2>4. QED BY <1>4, <2>1, <2>2, <2>3
<1>8. QED BY <1>5, <1>6, <1>7

---------------------------------------------------------------------------
(* img_map: a run of the virtual disk is the zeros, or the sectors of the   *)
(* card, that the format has there.                                         *)
LEMMA FileRunIs ==
  ASSUME NEW cur, NEW i, NEW n, NEW c
  PROVE  LET q == FileRun(cur, i, n, c)
             m == FileMap(cur, i, n)
         IN q.run = m.run /\ q.sd = m.sd /\ q.cache = c
BY DEF FileRun, Answer

LEMMA AnswersWithout ==
  /\ \A c : NoAnswer(c).run = 0 /\ NoAnswer(c).cache = c
  /\ \A n, c : ZeroRun(n, c).run = n /\ ZeroRun(n, c).sd = -1 /\ ZeroRun(n, c).cache = c
BY DEF NoAnswer, NoRun, ZeroRun, Answer

Tells(m, name, v, n) ==
  /\ m.run \in 0..n
  /\ m.run # 0 =>
       \/ m.sd = -1 /\ \A x \in 0..m.run - 1 : Virtual(name, v + x) = Zero
       \/ m.sd \in Nat /\ m.sd + m.run <= NBlk /\ \A x \in 0..m.run - 1 : Virtual(name, v + x) = Block(m.sd + x)

(* A run of a unit, a block of a VHD or a grain of a VMDK. *)
LEMMA WithinTheUnit ==
  ASSUME NEW unit \in Nat \ {0}, NEW v \in Nat, NEW x \in Nat, x < unit - (v % unit)
  PROVE  (v + x) \div unit = v \div unit /\ (v + x) % unit = (v % unit) + x
<1>1. v = (v \div unit) * unit + (v % unit) /\ v % unit \in 0..unit - 1 /\ v \div unit \in Nat OBVIOUS
<1> DEFINE q == v \div unit
           r == v % unit
<1>2. v + x = q * unit + (r + x) /\ r + x \in 0..unit - 1 /\ q \in Nat BY <1>1
<1>3. \A a \in Int, d \in 0..unit - 1 : (a * unit + d) \div unit = a /\ (a * unit + d) % unit = d OBVIOUS
<1> HIDE DEF q, r
<1>4. PICK d \in 0..unit - 1 : d = r + x BY <1>2
<1>5. q \in Int /\ v + x = q * unit + d BY <1>2, <1>4
<1>6. (q * unit + d) \div unit = q /\ (q * unit + d) % unit = d BY <1>3, <1>5
<1>7. (v + x) \div unit = q /\ (v + x) % unit = r + x BY <1>4, <1>5, <1>6
<1>8. QED BY <1>7 DEF q, r

LEMMA UnitRun ==
  ASSUME NEW cur, cur.unit \in Nat \ {0}, NEW v \in Nat, NEW n \in Nat
  PROVE  LET k == WithinUnit(cur, v, n)
         IN k \in 0..n /\ k <= cur.unit - (v % cur.unit) /\ (n # 0 => k # 0) /\ v \div cur.unit \in Nat /\ v % cur.unit \in Nat
<1>1. v % cur.unit \in 0..cur.unit - 1 /\ v \div cur.unit \in Nat OBVIOUS
<1>2. QED BY <1>1 DEF WithinUnit, Lesser

(* A run of the data file at i that stands for the virtual sectors from v on. *)
StandsFor(name, v, f, i, k) == \A x \in 0..k - 1 : i + x < SectorsOf(f) => Virtual(name, v + x) = Sector(f, i + x)
LEMMA RunTells ==
  ASSUME dir \in Cards, NEW b \in DOMAIN dir, NEW f, f = dir[b], NEW cur, Reads(cur, f),
         NEW i \in Nat, NEW v \in Nat, NEW k \in Nat, NEW n \in Nat, k <= n, NEW cache,
         NEW name, StandsFor(name, v, f, i, k)
  PROVE  LET m == FileRun(cur, i, k, cache)
         IN Tells(m, name, v, n) /\ m.cache = cache /\ (k # 0 /\ i < SectorsOf(f) => m.run # 0)
<1> DEFINE m == FileMap(cur, i, k)
<1>1. /\ m.run \in 0..k /\ (m.run = 0 <=> k = 0 \/ i >= SectorsOf(f))
      /\ m.run # 0 => m.sd \in Nat /\ m.sd + m.run <= NBlk
      /\ \A x \in 0..m.run - 1 : Place(f, i + x) = m.sd + x
  BY FileRuns
<1>2. m.run # 0 => i + m.run <= SectorsOf(f)
  <2>1. f.clusters \in Seq(Nat) /\ f.size \in Nat BY FileFacts
  <2>2. QED BY <2>1, FileMapExact DEF Reads
<1>3. SectorsOf(f) \in Nat BY FileFacts
<1> HIDE DEF m
<1>4. ASSUME NEW x \in 0..m.run - 1 PROVE Virtual(name, v + x) = Block(m.sd + x)
  <2>1. x \in 0..k - 1 /\ i + x < SectorsOf(f) BY <1>1, <1>2, <1>3
  <2>2. Virtual(name, v + x) = Sector(f, i + x) BY <2>1 DEF StandsFor
  <2>3. QED BY <1>1, <2>2 DEF Sector, Block
<1>5. m.run \in 0..n BY <1>1
<1> DEFINE q == FileRun(cur, i, k, cache)
<1>6. q.run = m.run /\ q.sd = m.sd /\ q.cache = cache BY FileRunIs DEF m
<1> HIDE DEF q
<1>7. Tells(q, name, v, n) BY <1>1, <1>4, <1>5, <1>6 DEF Tells
<1>8. k # 0 /\ i < SectorsOf(f) => q.run # 0 BY <1>1, <1>3, <1>6
<1>9. QED BY <1>6, <1>7, <1>8 DEF q

IsPlain(cur, f) ==
  \A v \in 0..VirtualSectors(cur) - 1 :
    cur.offset + v < SectorsOf(f) /\ Virtual(cur.name, v) = Sector(f, cur.offset + v)
IsDynamic(cur, f) ==
  LET last == f.holds[SectorsOf(f) - 1]
      head == f.holds[last.header]
  IN /\ f = dir[cur.name] /\ f.suffix = "vhd" /\ last.type = "dynamic"
     /\ cur.table = head.table /\ cur.entries = head.entries /\ cur.unit = head.unit
     /\ cur.bitmap = BitmapOf(head.unit) /\ head.table \in Nat /\ head.entries \in Nat /\ head.unit \in Nat \ {0}
     /\ \A v \in 0..VirtualSectors(cur) - 1 : BlockOfVhd(f, head, v)
IsSparse(cur, f) ==
  LET head == f.holds[0]
  IN /\ f = dir[cur.name] /\ f.suffix = "vmdk" /\ head.t = "sparse"
     /\ cur.table = head.table /\ cur.entries = head.entries /\ cur.unit = head.unit
     /\ head.table \in Nat /\ head.unit \in Nat \ {0} /\ head.entries \in Nat \ {0}
     /\ \A v \in 0..VirtualSectors(cur) - 1 : GrainOfVmdk(f, head, v)

(* What Virtual says of a dynamic VHD and of a sparse VMDK. *)
VhdEntry(f, head, v) == EntryAt(f.holds[head.table + ((v \div head.unit) \div PerSector)], v \div head.unit)
LEMMA VirtualOfDynamic ==
  ASSUME NEW cur, NEW f, IsDynamic(cur, f), NEW v
  PROVE  LET head == f.holds[f.holds[SectorsOf(f) - 1].header]
         IN Virtual(cur.name, v) = IF VhdEntry(f, head, v) = Unallocated THEN Zero
                                   ELSE Sector(f, VhdEntry(f, head, v) + BitmapOf(head.unit) + (v % head.unit))
BY DEF IsDynamic, Virtual, VhdEntry

GrainTable(f, head, v) ==
  EntryAt(f.holds[head.table + (((v \div head.unit) \div head.entries) \div PerSector)], (v \div head.unit) \div head.entries)
GrainEntry(f, head, v) ==
  EntryAt(f.holds[GrainTable(f, head, v) + (((v \div head.unit) % head.entries) \div PerSector)], (v \div head.unit) % head.entries)
LEMMA VirtualOfSparse ==
  ASSUME NEW cur, NEW f, IsSparse(cur, f), NEW v
  PROVE  LET head == f.holds[0]
         IN Virtual(cur.name, v) = IF GrainTable(f, head, v) = 0 \/ GrainEntry(f, head, v) <= 1 THEN Zero
                                   ELSE Sector(f, GrainEntry(f, head, v) + (v % head.unit))
BY DEF IsSparse, Virtual, GrainTable, GrainEntry

LEMMA VhdTells ==
  ASSUME dir \in Cards, NEW b \in DOMAIN dir, NEW f, f = dir[b], NEW cur, Reads(cur, f), IsDynamic(cur, f),
         NEW cache, Fresh(cache, f), NEW v \in Nat, NEW n \in Nat, v + n <= VirtualSectors(cur),
         VirtualSectors(cur) \in Nat, NEW bad
  PROVE  LET m == MapVhd(cur, cache, v, n, bad)
         IN Tells(m, cur.name, v, n) /\ Fresh(m.cache, f) /\ (bad = {} /\ n # 0 => m.run # 0)
<1> DEFINE head == f.holds[f.holds[SectorsOf(f) - 1].header]
           m    == MapVhd(cur, cache, v, n, bad)
           blk  == v \div cur.unit
           t    == Fetched(cur, cache, cur.table + (blk \div PerSector), bad)
           ent  == EntryAt(t.p, blk)
           k    == WithinUnit(cur, v, n)
<1>1. /\ cur.table = head.table /\ cur.entries = head.entries /\ cur.unit = head.unit
      /\ cur.bitmap = BitmapOf(head.unit) /\ head.table \in Nat /\ head.entries \in Nat /\ head.unit \in Nat \ {0}
      /\ \A w \in 0..VirtualSectors(cur) - 1 : BlockOfVhd(f, head, w)
  BY DEF IsDynamic
<1>2. \A w : Virtual(cur.name, w) = IF VhdEntry(f, head, w) = Unallocated THEN Zero
                                    ELSE Sector(f, VhdEntry(f, head, w) + BitmapOf(head.unit) + (w % head.unit))
  BY VirtualOfDynamic
<1> HIDE DEF head
<1>3. /\ k \in 0..n /\ k <= cur.unit - (v % cur.unit) /\ (n # 0 => k # 0) /\ blk \in Nat
      /\ v % cur.unit \in Nat
  BY <1>1, UnitRun
<1>4. PerSector \in Nat \ {0} /\ blk \div PerSector \in Nat BY <1>3, MapAssumption
<1> DEFINE i == cur.table + (blk \div PerSector)
<1>5. i \in Nat BY <1>1, <1>4
<1>6. /\ Fresh(t.cache, f) /\ (t.ok => i < SectorsOf(f) /\ t.p = Content(f, i))
      /\ (bad = {} /\ i < SectorsOf(f) => t.ok)
  BY <1>5, FetchedIs
<1>7. SectorsOf(f) \in Nat BY FileFacts
<1> DEFINE Good == Tells(m, cur.name, v, n) /\ Fresh(m.cache, f) /\ (bad = {} /\ n # 0 => m.run # 0)
<1> HIDE DEF k
<1>8. ASSUME n = 0 PROVE Good
  <2>1. k = 0 BY <1>3, <1>8
  <2>2. m.run = 0 /\ Fresh(m.cache, f)
    <3>1. m = NoAnswer(cache) \/ m = NoAnswer(t.cache) \/ m = ZeroRun(k, t.cache)
          \/ m = FileRun(cur, ent + cur.bitmap + (v % cur.unit), k, t.cache)
      BY DEF MapVhd, k
    <3>2. \A j, c : FileRun(cur, j, 0, c).run = 0 /\ FileRun(cur, j, 0, c).cache = c
      BY DEF FileRun, FileMap, NoRun, Answer
    <3> HIDE DEF m, t, ent
    <3>3. QED BY <1>6, <2>1, <3>1, <3>2, AnswersWithout
  <2>3. QED BY <1>8, <2>2 DEF Tells
<1>9. ASSUME n # 0 PROVE Good
  <2>1. v \in 0..VirtualSectors(cur) - 1 BY <1>9
  <2>2. /\ blk < cur.entries /\ i \in DOMAIN f.holds
        /\ VhdEntry(f, head, v) # Unallocated =>
             /\ VhdEntry(f, head, v) \in Nat
             /\ VhdEntry(f, head, v) + BitmapOf(head.unit) + (v % head.unit) < SectorsOf(f)
    <3>1. BlockOfVhd(f, head, v) BY <1>1, <2>1
    <3>2. QED BY <1>1, <3>1 DEF BlockOfVhd, VhdEntry
  <2>3. ~(blk >= cur.entries) BY <1>1, <1>3, <2>2
  <2>4. i < SectorsOf(f) BY <2>2, FileFacts
  <2>5. t.ok => ent = VhdEntry(f, head, v)
    <3>1. t.ok => t.p = f.holds[i] BY <1>6, <2>2 DEF Content
    <3> HIDE DEF t
    <3>2. QED BY <1>1, <3>1 DEF VhdEntry
  <2>6. \A x \in 0..k - 1 : (v + x) \div head.unit = v \div head.unit /\ (v + x) % head.unit = (v % head.unit) + x
    <3>1. SUFFICES ASSUME NEW x \in 0..k - 1
                   PROVE  (v + x) \div head.unit = v \div head.unit /\ (v + x) % head.unit = (v % head.unit) + x
      OBVIOUS
    <3>2. x \in Nat /\ x < head.unit - (v % head.unit) BY <1>1, <1>3
    <3>3. QED BY <1>1, <3>2, WithinTheUnit
  <2>7. \A x \in 0..k - 1 : VhdEntry(f, head, v + x) = VhdEntry(f, head, v) BY <2>6 DEF VhdEntry
  <2>8. CASE ~t.ok
    <3>1. m = NoAnswer(t.cache) BY <2>3, <2>8 DEF MapVhd
    <3>2. m.run = 0 /\ m.cache = t.cache BY <3>1, AnswersWithout
    <3> HIDE DEF m, t
    <3>3. QED BY <1>6, <2>4, <2>8, <3>2 DEF Tells
  <2>9. CASE t.ok /\ ent = Unallocated
    <3>1. m = ZeroRun(k, t.cache) BY <2>3, <2>9 DEF MapVhd, k
    <3>2. m.run = k /\ m.sd = -1 /\ m.cache = t.cache BY <3>1, AnswersWithout
    <3>3. \A x \in 0..k - 1 : Virtual(cur.name, v + x) = Zero
      <4>1. VhdEntry(f, head, v) = Unallocated BY <2>5, <2>9
      <4>2. QED BY <1>2, <2>7, <4>1
    <3> HIDE DEF m, t
    <3>4. QED BY <1>3, <1>6, <1>9, <3>2, <3>3 DEF Tells
  <2>10. CASE t.ok /\ ent # Unallocated
    <3> DEFINE j == ent + cur.bitmap + (v % cur.unit)
    <3>1. m = FileRun(cur, j, k, t.cache) BY <2>3, <2>10 DEF MapVhd, k
    <3>2. ent = VhdEntry(f, head, v) /\ ent \in Nat /\ j < SectorsOf(f) BY <1>1, <2>2, <2>5, <2>10
    <3>3. cur.bitmap \in Nat BY <1>1 DEF BitmapOf
    <3>4. j \in Nat BY <1>3, <3>2, <3>3
    <3>5. StandsFor(cur.name, v, f, j, k)
      <4>0. SUFFICES \A x \in 0..k - 1 : Virtual(cur.name, v + x) = Sector(f, j + x) BY DEF StandsFor
      <4>1. SUFFICES ASSUME NEW x \in 0..k - 1 PROVE Virtual(cur.name, v + x) = Sector(f, j + x) OBVIOUS
      <4>2. VhdEntry(f, head, v + x) = ent /\ ent # Unallocated BY <2>7, <2>10, <3>2
      <4>3. Virtual(cur.name, v + x) = Sector(f, ent + BitmapOf(head.unit) + ((v + x) % head.unit)) BY <1>2, <4>2
      <4>4. ent + BitmapOf(head.unit) + ((v + x) % head.unit) = j + x
        <5>1. (v + x) % head.unit = (v % cur.unit) + x BY <1>1, <2>6
        <5>2. \A p \in Nat, q \in Nat, r \in Nat, s \in Nat : p + q + (r + s) = (p + q + r) + s OBVIOUS
        <5>3. x \in Nat BY <1>3
        <5> HIDE DEF ent
        <5>4. QED BY <1>1, <1>3, <3>2, <3>3, <5>1, <5>2, <5>3
      <4>5. QED BY <4>3, <4>4
    <3> HIDE DEF m, t, j, ent
    <3>6. Tells(m, cur.name, v, n) /\ m.cache = t.cache /\ (k # 0 /\ j < SectorsOf(f) => m.run # 0)
      BY <1>3, <3>1, <3>4, <3>5, RunTells
    <3>7. QED BY <1>3, <1>6, <1>9, <3>2, <3>6
  <2>11. QED BY <2>8, <2>9, <2>10
<1>10. Good
  <2> HIDE DEF Good
  <2>1. QED BY <1>8, <1>9
<1>11. QED BY <1>10

LEMMA VmdkSteps ==
  ASSUME NEW cur, NEW cache, NEW v, NEW n, NEW bad
  PROVE  LET g   == v \div cur.unit
             k   == WithinUnit(cur, v, n)
             dr  == Fetched(cur, cache, cur.table + ((g \div cur.entries) \div PerSector), bad)
             gt  == EntryAt(dr.p, g \div cur.entries)
             t   == Fetched(cur, dr.cache, gt + ((g % cur.entries) \div PerSector), bad)
             ent == EntryAt(t.p, g % cur.entries)
         IN MapVmdk(cur, cache, v, n, bad) =
              IF ~dr.ok THEN NoAnswer(dr.cache)
              ELSE IF gt = 0 THEN ZeroRun(k, dr.cache)
              ELSE IF ~t.ok THEN NoAnswer(t.cache)
              ELSE IF ent <= 1 THEN ZeroRun(k, t.cache)
              ELSE FileRun(cur, ent + (v % cur.unit), k, t.cache)
<1> DEFINE g == v \div cur.unit
           InGrain(t) ==
             LET ent == EntryAt(t.p, g % cur.entries)
             IN IF ~t.ok THEN NoAnswer(t.cache)
                ELSE IF ent <= 1 THEN ZeroRun(WithinUnit(cur, v, n), t.cache)
                ELSE FileRun(cur, ent + (v % cur.unit), WithinUnit(cur, v, n), t.cache)
           InDirectory(dr) ==
             LET gt == EntryAt(dr.p, g \div cur.entries)
             IN IF ~dr.ok THEN NoAnswer(dr.cache)
                ELSE IF gt = 0 THEN ZeroRun(WithinUnit(cur, v, n), dr.cache)
                ELSE With(Fetched(cur, dr.cache, gt + ((g % cur.entries) \div PerSector), bad), InGrain)
           first == Fetched(cur, cache, cur.table + ((g \div cur.entries) \div PerSector), bad)
           second == Fetched(cur, first.cache, EntryAt(first.p, g \div cur.entries) + ((g % cur.entries) \div PerSector), bad)
<1>1. MapVmdk(cur, cache, v, n, bad) = With(first, InDirectory) BY Zenon DEF MapVmdk
<1>2. \A a : (CHOOSE y \in {a} : TRUE) = a OBVIOUS
<1>3. With(first, InDirectory) = InDirectory(first)
  <2> HIDE DEF first, InDirectory
  <2>1. With(first, InDirectory) = CHOOSE y \in {InDirectory(u) : u \in {first}} : TRUE BY Zenon DEF With
  <2>2. {InDirectory(u) : u \in {first}} = {InDirectory(first)} OBVIOUS
  <2>3. QED BY <1>2, <2>1, <2>2
<1>4. With(second, InGrain) = InGrain(second)
  <2> HIDE DEF second, InGrain
  <2>1. With(second, InGrain) = CHOOSE y \in {InGrain(u) : u \in {second}} : TRUE BY Zenon DEF With
  <2>2. {InGrain(u) : u \in {second}} = {InGrain(second)} OBVIOUS
  <2>3. QED BY <1>2, <2>1, <2>2
<1>5. QED BY <1>1, <1>3, <1>4, Zenon

LEMMA SparseTells ==
  ASSUME dir \in Cards, NEW b \in DOMAIN dir, NEW f, f = dir[b], NEW cur, Reads(cur, f), IsSparse(cur, f),
         NEW cache, Fresh(cache, f), NEW v \in Nat, NEW n \in Nat \ {0}, v + n <= VirtualSectors(cur),
         VirtualSectors(cur) \in Nat, NEW bad
  PROVE  LET m == MapVmdk(cur, cache, v, n, bad)
         IN Tells(m, cur.name, v, n) /\ Fresh(m.cache, f) /\ (bad = {} /\ n # 0 => m.run # 0)
<1> DEFINE head == f.holds[0]
           m    == MapVmdk(cur, cache, v, n, bad)
           g    == v \div cur.unit
           k    == WithinUnit(cur, v, n)
           i    == cur.table + ((g \div cur.entries) \div PerSector)
           dr   == Fetched(cur, cache, i, bad)
           gt   == EntryAt(dr.p, g \div cur.entries)
           j    == gt + ((g % cur.entries) \div PerSector)
           t    == Fetched(cur, dr.cache, j, bad)
           ent  == EntryAt(t.p, g % cur.entries)
           Good == Tells(m, cur.name, v, n) /\ Fresh(m.cache, f) /\ (bad = {} /\ n # 0 => m.run # 0)
           GT   == GrainTable(f, head, v)
           GE   == GrainEntry(f, head, v)
<1>1. /\ cur.table = head.table /\ cur.entries = head.entries /\ cur.unit = head.unit
      /\ head.table \in Nat /\ head.unit \in Nat \ {0} /\ head.entries \in Nat \ {0}
      /\ \A w \in 0..VirtualSectors(cur) - 1 : GrainOfVmdk(f, head, w)
  BY DEF IsSparse
<1>2. \A w : Virtual(cur.name, w) = IF GrainTable(f, head, w) = 0 \/ GrainEntry(f, head, w) <= 1 THEN Zero
                                    ELSE Sector(f, GrainEntry(f, head, w) + (w % head.unit))
  BY VirtualOfSparse
<1>3. m = IF ~dr.ok THEN NoAnswer(dr.cache)
          ELSE IF gt = 0 THEN ZeroRun(k, dr.cache)
          ELSE IF ~t.ok THEN NoAnswer(t.cache)
          ELSE IF ent <= 1 THEN ZeroRun(k, t.cache)
          ELSE FileRun(cur, ent + (v % cur.unit), k, t.cache)
  BY VmdkSteps
<1> HIDE DEF head
<1>4. /\ k \in 0..n /\ k <= cur.unit - (v % cur.unit) /\ k # 0 /\ g \in Nat /\ v % cur.unit \in Nat
  BY <1>1, UnitRun
<1> HIDE DEF m, k
<1>5. /\ g \div cur.entries \in Nat /\ (g \div cur.entries) \div PerSector \in Nat
      /\ g % cur.entries \in Nat /\ (g % cur.entries) \div PerSector \in Nat
  <2> HIDE DEF g
  <2>1. PerSector \in Nat \ {0} BY MapAssumption
  <2>2. g \div cur.entries \in Nat /\ g % cur.entries \in Nat BY <1>1, <1>4
  <2>3. QED BY <2>1, <2>2
<1>6. v \in 0..VirtualSectors(cur) - 1 OBVIOUS
<1>7. /\ i \in DOMAIN f.holds /\ GT \in Nat
      /\ GT # 0 => /\ GT + ((g % cur.entries) \div PerSector) \in DOMAIN f.holds /\ GE \in Nat
                   /\ GE > 1 => GE + (v % cur.unit) < SectorsOf(f)
  <2>1. GrainOfVmdk(f, head, v) BY <1>1, <1>6
  <2>2. QED BY <1>1, <2>1, Zenon DEF GrainOfVmdk, GrainTable, GrainEntry
<1>8. i \in Nat /\ i < SectorsOf(f) /\ SectorsOf(f) \in Nat BY <1>1, <1>5, <1>7, FileFacts
<1>9. Fresh(dr.cache, f) /\ (dr.ok => dr.p = f.holds[i]) /\ (bad = {} => dr.ok)
  <2>1. Fresh(dr.cache, f) /\ (dr.ok => dr.p = Content(f, i)) /\ (bad = {} => dr.ok) BY <1>8, FetchedIs
  <2>2. QED BY <1>7, <2>1 DEF Content
<1>10. dr.ok => gt = GT
  <2> HIDE DEF dr
  <2>1. QED BY <1>1, <1>9, Zenon DEF GrainTable
<1>11. ASSUME ~dr.ok PROVE Good
  <2>1. m = NoAnswer(dr.cache) BY <1>3, <1>11
  <2>2. m.run = 0 /\ m.cache = dr.cache BY <2>1, AnswersWithout
  <2> HIDE DEF dr
  <2>3. QED BY <1>9, <1>11, <2>2 DEF Tells
<1>12. \A x \in 0..k - 1 : /\ (v + x) \div head.unit = v \div head.unit /\ (v + x) % head.unit = (v % head.unit) + x
                           /\ GrainTable(f, head, v + x) = GT /\ GrainEntry(f, head, v + x) = GE
  <2>1. SUFFICES ASSUME NEW x \in 0..k - 1
                 PROVE  /\ (v + x) \div head.unit = v \div head.unit /\ (v + x) % head.unit = (v % head.unit) + x
                        /\ GrainTable(f, head, v + x) = GT /\ GrainEntry(f, head, v + x) = GE
    OBVIOUS
  <2>2. x \in Nat /\ x < head.unit - (v % head.unit) BY <1>1, <1>4
  <2>3. (v + x) \div head.unit = v \div head.unit /\ (v + x) % head.unit = (v % head.unit) + x
    BY <1>1, <2>2, WithinTheUnit
  <2>4. GrainTable(f, head, v + x) = GT BY <2>3, Zenon DEF GrainTable
  <2>5. GrainEntry(f, head, v + x) = GE BY <2>3, <2>4, Zenon DEF GrainEntry
  <2>6. QED BY <2>3, <2>4, <2>5
<1>13. ASSUME NEW c, m = ZeroRun(k, c), Fresh(c, f), GT = 0 \/ GE <= 1 PROVE Good
  <2>1. m.run = k /\ m.sd = -1 /\ m.cache = c BY <1>13, AnswersWithout
  <2>2. \A x \in 0..k - 1 : Virtual(cur.name, v + x) = Zero
    <3>1. SUFFICES ASSUME NEW x \in 0..k - 1 PROVE Virtual(cur.name, v + x) = Zero OBVIOUS
    <3>2. GrainTable(f, head, v + x) = 0 \/ GrainEntry(f, head, v + x) <= 1 BY <1>12, <1>13
    <3>3. QED BY <1>2, <3>2
  <2>3. QED BY <1>4, <1>13, <2>1, <2>2 DEF Tells
<1>14. ASSUME dr.ok, gt = 0 PROVE Good
  <2>1. m = ZeroRun(k, dr.cache) BY <1>3, <1>14
  <2>2. GT = 0 BY <1>10, <1>14
  <2> HIDE DEF Good, dr
  <2>3. QED BY <1>9, <1>13, <2>1, <2>2
<1>15. ASSUME dr.ok, gt # 0 PROVE Good
  <2>1. gt = GT /\ gt \in Nat BY <1>7, <1>10, <1>15
  <2>2. j \in DOMAIN f.holds /\ j = GT + ((g % cur.entries) \div PerSector) BY <1>7, <1>15, <2>1
  <2>3. j \in Nat /\ j < SectorsOf(f) BY <1>5, <2>1, <2>2, FileFacts
  <2> HIDE DEF dr, gt
  <2>4. Fresh(t.cache, f) /\ (t.ok => t.p = f.holds[j]) /\ (bad = {} => t.ok)
    <3>1. Fresh(t.cache, f) /\ (t.ok => t.p = Content(f, j)) /\ (bad = {} => t.ok) BY <1>9, <2>3, FetchedIs
    <3>2. QED BY <2>2, <3>1 DEF Content
  <2>5. t.ok => ent = GE
    <3>1. GE = EntryAt(f.holds[j], g % cur.entries) BY <1>1, <2>2, Zenon DEF GrainEntry
    <3> HIDE DEF t, GE
    <3>2. QED BY <2>4, <3>1
  <2>6. GE \in Nat /\ (GE > 1 => GE + (v % cur.unit) < SectorsOf(f)) BY <1>7, <1>15, <2>1
  <2> HIDE DEF GE, GT
  <2>7. ASSUME ~t.ok PROVE Good
    <3>1. m = NoAnswer(t.cache) BY <1>3, <1>15, <2>7
    <3>2. m.run = 0 /\ m.cache = t.cache BY <3>1, AnswersWithout
    <3> HIDE DEF t
    <3>3. QED BY <2>4, <2>7, <3>2 DEF Tells
  <2>8. ASSUME t.ok, ent <= 1 PROVE Good
    <3>1. m = ZeroRun(k, t.cache) /\ GE <= 1 BY <1>3, <1>15, <2>5, <2>8
    <3> HIDE DEF Good, t
    <3>2. QED BY <1>13, <2>4, <3>1
  <2>9. ASSUME t.ok, ~(ent <= 1) PROVE Good
    <3> DEFINE at == ent + (v % cur.unit)
    <3>1. m = FileRun(cur, at, k, t.cache) BY <1>3, <1>15, <2>9
    <3>2. ent = GE /\ ent \in Nat /\ at \in Nat /\ at < SectorsOf(f) /\ ~(GE <= 1) BY <1>4, <2>5, <2>6, <2>9
    <3>3. StandsFor(cur.name, v, f, at, k)
      <4>0. SUFFICES \A x \in 0..k - 1 : Virtual(cur.name, v + x) = Sector(f, at + x) BY DEF StandsFor
      <4>1. SUFFICES ASSUME NEW x \in 0..k - 1 PROVE Virtual(cur.name, v + x) = Sector(f, at + x) OBVIOUS
      <4>2. GrainTable(f, head, v + x) # 0 /\ GrainEntry(f, head, v + x) = ent /\ ~(ent <= 1)
            /\ (v + x) % head.unit = (v % cur.unit) + x
        BY <1>1, <1>12, <1>15, <2>1, <3>2 DEF GE, GT
      <4>3. Virtual(cur.name, v + x) = Sector(f, ent + ((v + x) % head.unit)) BY <1>2, <4>2
      <4>4. ent + ((v + x) % head.unit) = at + x
        <5>1. \A p \in Nat, q \in Nat, r \in Nat : p + (q + r) = (p + q) + r OBVIOUS
        <5>2. x \in Nat BY <1>4
        <5> HIDE DEF ent
        <5>3. QED BY <1>4, <3>2, <4>2, <5>1, <5>2
      <4>5. QED BY <4>3, <4>4
    <3> HIDE DEF t, at, ent
    <3>4. Tells(m, cur.name, v, n) /\ m.cache = t.cache /\ (k # 0 /\ at < SectorsOf(f) => m.run # 0)
      BY <1>4, <3>1, <3>2, <3>3, RunTells
    <3>5. QED BY <1>4, <2>4, <3>2, <3>4
  <2> HIDE DEF Good
  <2>10. QED BY <2>7, <2>8, <2>9
<1>16. Good
  <2> HIDE DEF Good, dr, gt
  <2>1. QED BY <1>11, <1>14, <1>15
<1>17. QED BY <1>16 DEF m

Described(cur, f) ==
  /\ cur.name \in DOMAIN dir /\ cur.kind = dir[cur.name].kind
  /\ cur.blocks \in Nat /\ cur.offset \in Nat /\ cur.blockSectors = IF cur.kind = "iso" THEN IsoSectors ELSE 1
  /\ \E b \in DOMAIN dir : f = dir[b]
  /\ CASE cur.fmt = "vhd_dyn" -> IsDynamic(cur, f)
       [] cur.fmt = "vmdk_sparse" -> IsSparse(cur, f)
       [] OTHER -> IsPlain(cur, f)

LEMMA DescribedFacts ==
  ASSUME NEW cur, NEW f, Described(cur, f)
  PROVE  /\ VirtualSectors(cur) \in Nat /\ cur.offset \in Nat
         /\ (cur.fmt = "vhd_dyn" => IsDynamic(cur, f))
         /\ (cur.fmt = "vmdk_sparse" => IsSparse(cur, f))
         /\ (cur.fmt \notin {"vhd_dyn", "vmdk_sparse"} => IsPlain(cur, f))
<1>1. cur.blocks \in Nat /\ cur.blockSectors \in Nat BY DEF Described, IsoSectors
<1>2. VirtualSectors(cur) \in Nat BY <1>1 DEF VirtualSectors
<1>3. QED BY <1>2 DEF Described

LEMMA ExtNotEmpty ==
  ASSUME dir \in Cards, NEW b \in DOMAIN dir, NEW f, f = dir[b], NEW cur, Reads(cur, f), SectorsOf(f) # 0
  PROVE  cur.ext # <<>>
<1>1. f.clusters \in Seq(Nat) /\ f.size \in Nat /\ SectorsOf(f) \in Nat BY FileFacts
<1>2. ExtentsOf(Extents(f).ext, Extents(f).at, f) /\ Extents(f).at <= SectorsOf(f) BY <1>1, ExtentsAreTheFile
<1>3. ~(Extents(f).at < SectorsOf(f)) BY DEF Reads, Refused
<1>4. Extents(f).at # 0 BY <1>1, <1>2, <1>3 DEF ExtentsOf
<1>5. Len(Extents(f).ext) # 0 BY <1>2, <1>4 DEF ExtentsOf
<1>6. QED BY <1>5, EmptyExt DEF Reads

LEMMA NotEmptyFile ==
  ASSUME dir \in Cards, NEW b \in DOMAIN dir, NEW f, f = dir[b], NEW cur, Described(cur, f),
         NEW v \in Nat, v < VirtualSectors(cur)
  PROVE  SectorsOf(f) # 0
<1>1. SectorsOf(f) \in Nat /\ \A i \in DOMAIN f.holds : i \in 0..SectorsOf(f) - 1 BY FileFacts
<1>2. v \in 0..VirtualSectors(cur) - 1 BY DescribedFacts
<1>3. CASE cur.fmt = "vhd_dyn"
  <2>1. \E i : i \in DOMAIN f.holds BY <1>2, <1>3, DescribedFacts DEF IsDynamic, BlockOfVhd
  <2>2. QED BY <1>1, <2>1
<1>4. CASE cur.fmt = "vmdk_sparse"
  <2>1. \E i : i \in DOMAIN f.holds BY <1>2, <1>4, DescribedFacts DEF IsSparse, GrainOfVmdk
  <2>2. QED BY <1>1, <2>1
<1>5. CASE cur.fmt \notin {"vhd_dyn", "vmdk_sparse"}
  <2>1. cur.offset + v < SectorsOf(f) /\ cur.offset \in Nat BY <1>2, <1>5, DescribedFacts DEF IsPlain
  <2>2. QED BY <1>1, <2>1
<1>6. QED BY <1>3, <1>4, <1>5

LEMMA ImgMapTells ==
  ASSUME dir \in Cards, NEW b \in DOMAIN dir, NEW f, f = dir[b], NEW cur, Reads(cur, f), Described(cur, f), cur.mounted,
         NEW cache, Fresh(cache, f), NEW v \in Nat, NEW n \in Nat \ {0}, v + n <= VirtualSectors(cur), NEW bad
  PROVE  LET m == ImgMap(cur, cache, v, n, bad)
         IN Tells(m, cur.name, v, n) /\ Fresh(m.cache, f) /\ (bad = {} => m.run # 0)
<1> DEFINE m == ImgMap(cur, cache, v, n, bad)
           Good == Tells(m, cur.name, v, n) /\ Fresh(m.cache, f) /\ (bad = {} => m.run # 0)
<1>1. VirtualSectors(cur) \in Nat /\ v < VirtualSectors(cur) BY DescribedFacts
<1>2. Lesser(n, VirtualSectors(cur) - v) = n BY <1>1 DEF Lesser
<1>3. cur.ext # <<>> BY <1>1, NotEmptyFile, ExtNotEmpty
<1>4. m = IF cur.fmt = "vhd_dyn" THEN MapVhd(cur, cache, v, n, bad)
          ELSE IF cur.fmt = "vmdk_sparse" THEN MapVmdk(cur, cache, v, n, bad)
          ELSE FileRun(cur, cur.offset + v, n, cache)
  BY <1>1, <1>2, <1>3 DEF ImgMap
<1> HIDE DEF m
<1>5. CASE cur.fmt = "vhd_dyn"
  <2>1. IsDynamic(cur, f) /\ m = MapVhd(cur, cache, v, n, bad) BY <1>4, <1>5, DescribedFacts
  <2>2. Good BY <1>1, <2>1, VhdTells
  <2>3. QED BY <2>2 DEF m
<1>6. CASE cur.fmt = "vmdk_sparse"
  <2>1. IsSparse(cur, f) /\ m = MapVmdk(cur, cache, v, n, bad) BY <1>4, <1>6, DescribedFacts
  <2>2. Good BY <1>1, <2>1, SparseTells
  <2>3. QED BY <2>2 DEF m
<1>7. CASE cur.fmt \notin {"vhd_dyn", "vmdk_sparse"}
  <2> DEFINE i == cur.offset + v
  <2>1. IsPlain(cur, f) /\ m = FileRun(cur, i, n, cache) /\ cur.offset \in Nat BY <1>4, <1>7, DescribedFacts
  <2>2. \A x \in 0..n - 1 : i + x < SectorsOf(f) /\ Virtual(cur.name, v + x) = Sector(f, i + x)
    <3>1. SUFFICES ASSUME NEW x \in 0..n - 1 PROVE i + x < SectorsOf(f) /\ Virtual(cur.name, v + x) = Sector(f, i + x)
      OBVIOUS
    <3>2. v + x \in 0..VirtualSectors(cur) - 1 BY <1>1
    <3>3. cur.offset + (v + x) < SectorsOf(f) /\ Virtual(cur.name, v + x) = Sector(f, cur.offset + (v + x))
      BY <2>1, <3>2 DEF IsPlain
    <3>4. cur.offset + (v + x) = i + x BY <2>1
    <3> HIDE DEF i
    <3>5. QED BY <3>3, <3>4
  <2>3. i \in Nat BY <2>1
  <2> HIDE DEF i
  <2>4. i < SectorsOf(f)
    <3>1. 0 \in 0..n - 1 /\ i + 0 = i BY <2>3
    <3>2. QED BY <2>2, <3>1
  <2>5. StandsFor(cur.name, v, f, i, n) BY <2>2 DEF StandsFor
  <2>6. Tells(m, cur.name, v, n) /\ m.cache = cache /\ (n # 0 /\ i < SectorsOf(f) => m.run # 0)
    BY <2>1, <2>3, <2>5, RunTells
  <2>7. Good BY <2>4, <2>6
  <2>8. QED BY <2>7 DEF m
<1>8. QED BY <1>5, <1>6, <1>7

---------------------------------------------------------------------------
(* lun_map, in a state of the program. *)
MapInv ==
  /\ dir \in Cards
  /\ img_cur.mounted => Reads(img_cur, DataFile) /\ Described(img_cur, DataFile) /\ Fresh(tcache, DataFile)

Extent(l) == IF l = "sd" THEN NBlk ELSE VirtualSectors(img_cur)
LunTells(m, l, v, n) ==
  /\ m.run \in 0..n
  /\ m.run # 0 =>
       \/ m.sd = -1 /\ \A x \in 0..m.run - 1 : Expected(l, v + x) = Zero
       \/ m.sd \in Nat /\ m.sd + m.run <= NBlk /\ \A x \in 0..m.run - 1 : Expected(l, v + x) = Block(m.sd + x)

LEMMA LunMapTells ==
  ASSUME MapInv, NEW l, l = "sd" \/ (img_cur.mounted /\ l = ImageLun),
         NEW v \in Nat, NEW n \in Nat \ {0}, v + n <= Extent(l), NEW bad
  PROVE  LET m == LunMap(l, v, n, bad)
         IN /\ LunTells(m, l, v, n) /\ (img_cur.mounted => Fresh(m.cache, DataFile))
            /\ present /\ bad = {} => m.run # 0
<1> DEFINE m == LunMap(l, v, n, bad)
           Good == /\ LunTells(m, l, v, n) /\ (img_cur.mounted => Fresh(m.cache, DataFile))
                   /\ present /\ bad = {} => m.run # 0
<1>1. CASE l = "sd"
  <2>1. NBlk \in Nat /\ v + n <= NBlk BY <1>1, ReadAssumption DEF Extent
  <2>2. m = [run |-> n, sd |-> v, cache |-> tcache] BY <1>1, <2>1 DEF LunMap, Lesser
  <2>3. m.run = n /\ m.sd = v /\ m.cache = tcache BY <2>2
  <2>4. \A x : Expected(l, v + x) = Block(v + x) BY <1>1 DEF Expected
  <2> HIDE DEF m
  <2>5. LunTells(m, l, v, n)
    <3>1. m.run \in 0..n /\ m.sd \in Nat /\ m.sd + m.run <= NBlk BY <2>1, <2>3
    <3>2. \A x \in 0..m.run - 1 : Expected(l, v + x) = Block(m.sd + x) BY <2>3, <2>4
    <3>3. QED BY <3>1, <3>2 DEF LunTells
  <2>6. Good BY <2>3, <2>5 DEF MapInv
  <2>7. QED BY <2>6 DEF m
<1>2. CASE l # "sd"
  <2>1. img_cur.mounted /\ Extent(l) = VirtualSectors(img_cur) BY <1>2 DEF Extent
  <2>2. dir \in Cards /\ Reads(img_cur, DataFile) /\ Described(img_cur, DataFile) /\ Fresh(tcache, DataFile)
    BY <2>1 DEF MapInv
  <2>3. PICK b \in DOMAIN dir : DataFile = dir[b] BY <2>2 DEF Described
  <2>4. CASE present
    <3>1. m = ImgMap(img_cur, tcache, v, n, bad) BY <1>2, <2>4 DEF LunMap
    <3> HIDE DEF m
    <3>2. Tells(m, img_cur.name, v, n) /\ Fresh(m.cache, DataFile) /\ (bad = {} => m.run # 0)
      BY <2>1, <2>2, <2>3, <3>1, ImgMapTells
    <3>3. \A w : Expected(l, w) = Virtual(img_cur.name, w) BY <1>2 DEF Expected
    <3>4. LunTells(m, l, v, n) BY <3>2, <3>3 DEF Tells, LunTells
    <3>5. Good BY <3>2, <3>4
    <3>6. QED BY <3>5 DEF m
  <2>5. CASE ~present
    <3>1. m = NoAnswer(tcache) BY <1>2, <2>5 DEF LunMap
    <3>2. m.run = 0 /\ m.cache = tcache BY <3>1, AnswersWithout
    <3> HIDE DEF m
    <3>3. LunTells(m, l, v, n) BY <3>2 DEF LunTells
    <3>4. Good BY <2>2, <2>5, <3>2, <3>3
    <3>5. QED BY <3>4 DEF m
  <2>6. QED BY <2>4, <2>5
<1>3. QED BY <1>1, <1>2

---------------------------------------------------------------------------
(* The same card says the same. *)
LEMMA SameCard ==
  ASSUME UNCHANGED dir
  PROVE  /\ \A sd : Holds(sd)' = Holds(sd)
         /\ \A name, v : Virtual(name, v)' = Virtual(name, v)
         /\ \A name, fmt : DataFileOf(name, fmt)' = DataFileOf(name, fmt)
         /\ \A cur, f : Described(cur, f)' = Described(cur, f)
         /\ \A cache, f : Fresh(cache, f)' = Fresh(cache, f)
<1>1. ASSUME NEW sd PROVE Holds(sd)' = Holds(sd) BY DEF Holds
<1>2. ASSUME NEW name, NEW v PROVE Virtual(name, v)' = Virtual(name, v) BY DEF Virtual
<1>3. ASSUME NEW name, NEW fmt PROVE DataFileOf(name, fmt)' = DataFileOf(name, fmt) BY DEF DataFileOf
<1>4. ASSUME NEW cur, NEW f PROVE Described(cur, f)' = Described(cur, f)
  <2>1. IsPlain(cur, f)' = IsPlain(cur, f) BY <1>2 DEF IsPlain
  <2>2. IsDynamic(cur, f)' = IsDynamic(cur, f) BY DEF IsDynamic
  <2>3. IsSparse(cur, f)' = IsSparse(cur, f) BY DEF IsSparse
  <2>4. QED BY <2>1, <2>2, <2>3 DEF Described
<1>5. ASSUME NEW cache, NEW f PROVE Fresh(cache, f)' = Fresh(cache, f) BY <1>1 DEF Fresh
<1>6. QED BY <1>1, <1>2, <1>3, <1>4, <1>5

---------------------------------------------------------------------------
(* mount_entry: what detect_format accepts is described by its headers.     *)
CurRec(c) == c = [mounted |-> c.mounted, name |-> c.name, kind |-> c.kind, fmt |-> c.fmt, ext |-> c.ext,
                  fileSectors |-> c.fileSectors, offset |-> c.offset, table |-> c.table, entries |-> c.entries,
                  unit |-> c.unit, bitmap |-> c.bitmap, blocks |-> c.blocks, blockSectors |-> c.blockSectors]
BlankFor(name, f) == [Nothing EXCEPT !.name = name, !.ext = Extents(f).ext, !.fileSectors = SectorsOf(f)]
OfKind(c, f) == [c EXCEPT !.mounted = TRUE, !.kind = f.kind, !.blockSectors = IF f.kind = "iso" THEN IsoSectors ELSE 1]

LEMMA BlankFields ==
  ASSUME NEW name, NEW f
  PROVE  LET c == BlankFor(name, f)
         IN /\ CurRec(c) /\ c.name = name /\ c.ext = Extents(f).ext /\ c.fileSectors = SectorsOf(f)
            /\ c.fmt = "raw" /\ c.offset = 0
<1>1. CurRec(Nothing) /\ Nothing.fmt = "raw" /\ Nothing.offset = 0
  <2>1. ASSUME NEW c, c = Nothing PROVE CurRec(c) /\ c.fmt = "raw" /\ c.offset = 0
    <3>1. /\ c.mounted = FALSE /\ c.name = "" /\ c.kind = "none" /\ c.fmt = "raw" /\ c.ext = <<>> /\ c.fileSectors = 0
          /\ c.offset = 0 /\ c.table = 0 /\ c.entries = 0 /\ c.unit = 1 /\ c.bitmap = 0 /\ c.blocks = 0
          /\ c.blockSectors = 1
      BY <2>1 DEF Nothing
    <3>2. QED BY <2>1, <3>1 DEF CurRec, Nothing
  <2>2. QED BY <2>1
<1> HIDE DEF Nothing
<1> DEFINE c1 == [Nothing EXCEPT !.name = name]
           c2 == [c1 EXCEPT !.ext = Extents(f).ext]
           c3 == [c2 EXCEPT !.fileSectors = SectorsOf(f)]
<1>2. CurRec(c1) /\ c1.name = name /\ c1.fmt = "raw" /\ c1.offset = 0 BY <1>1 DEF CurRec
<1> HIDE DEF c1
<1>3. CurRec(c2) /\ c2.name = name /\ c2.ext = Extents(f).ext /\ c2.fmt = "raw" /\ c2.offset = 0 BY <1>2 DEF CurRec
<1> HIDE DEF c2
<1>4. /\ CurRec(c3) /\ c3.name = name /\ c3.ext = Extents(f).ext /\ c3.fileSectors = SectorsOf(f)
      /\ c3.fmt = "raw" /\ c3.offset = 0
  BY <1>3 DEF CurRec
<1> HIDE DEF c3
<1>5. BlankFor(name, f) = c3 BY Zenon DEF BlankFor, c1, c2, c3
<1>6. QED BY <1>4, <1>5

LEMMA KindFields ==
  ASSUME NEW c, CurRec(c), NEW n, NEW f, NEW cache
  PROVE  LET u == Usable(c, n, cache)
             k == OfKind(u.cur, f)
         IN /\ u.ok /\ u.cache = cache /\ k.name = c.name /\ k.fmt = c.fmt /\ k.ext = c.ext /\ k.fileSectors = c.fileSectors
            /\ k.offset = c.offset /\ k.table = c.table /\ k.entries = c.entries /\ k.unit = c.unit /\ k.bitmap = c.bitmap
            /\ k.blocks = n /\ k.kind = f.kind /\ k.blockSectors = (IF f.kind = "iso" THEN IsoSectors ELSE 1) /\ k.mounted
<1> DEFINE u == Usable(c, n, cache)
           d == [c EXCEPT !.blocks = n]
<1>1. u.ok /\ u.cache = cache /\ u.cur = d BY DEF Usable
<1>2. CurRec(d) /\ d.name = c.name /\ d.fmt = c.fmt /\ d.ext = c.ext /\ d.fileSectors = c.fileSectors
      /\ d.offset = c.offset /\ d.table = c.table /\ d.entries = c.entries /\ d.unit = c.unit /\ d.bitmap = c.bitmap
      /\ d.blocks = n
  BY DEF CurRec
<1> HIDE DEF u, d
<1>3. LET k == OfKind(d, f)
      IN /\ k.name = d.name /\ k.fmt = d.fmt /\ k.ext = d.ext /\ k.fileSectors = d.fileSectors
         /\ k.offset = d.offset /\ k.table = d.table /\ k.entries = d.entries /\ k.unit = d.unit /\ k.bitmap = d.bitmap
         /\ k.blocks = d.blocks /\ k.kind = f.kind /\ k.blockSectors = (IF f.kind = "iso" THEN IsoSectors ELSE 1) /\ k.mounted
  BY <1>2 DEF CurRec, OfKind
<1>4. OfKind(u.cur, f) = OfKind(d, f) BY <1>1
<1>5. QED BY <1>1, <1>2, <1>3, <1>4 DEF u

LEMMA NothingCached == ASSUME NEW f PROVE Fresh(NoCache, f)
BY DEF Fresh, NoCache

(* What is shown of the image that is mounted. *)
Right(u, name, f) ==
  LET c == OfKind(u.cur, f)
      g == DataFileOf(c.name, c.fmt)
  IN u.ok => Reads(c, g) /\ Described(c, g) /\ Fresh(u.cache, g) /\ c.mounted

LEMMA UnusableRight == ASSUME NEW cache, NEW name, NEW f PROVE Right(Unusable(cache), name, f)
BY DEF Right, Unusable

(* An image whose sectors are those of its file, from the first on. *)
LEMMA PlainRight ==
  ASSUME dir \in Cards, NEW name \in DOMAIN dir, NEW f, f = dir[name], ~Refused(f),
         NEW c, CurRec(c), c.name = name, c.ext = Extents(f).ext, c.fileSectors = SectorsOf(f), c.offset = 0,
         c.fmt \in {"raw", "vhd_fixed"}, NEW n \in Nat, NEW cache, Fresh(cache, f),
         n * (IF f.kind = "iso" THEN IsoSectors ELSE 1) <= SectorsOf(f),
         \A v : Virtual(name, v) = Sector(f, v)
  PROVE  Right(Usable(c, n, cache), name, f)
<1> DEFINE u == Usable(c, n, cache)
           k == OfKind(u.cur, f)
           bs == IF f.kind = "iso" THEN IsoSectors ELSE 1
<1>1. /\ u.cache = cache /\ k.name = name /\ k.fmt = c.fmt /\ k.ext = Extents(f).ext /\ k.fileSectors = SectorsOf(f)
      /\ k.offset = 0 /\ k.blocks = n /\ k.kind = f.kind /\ k.blockSectors = bs /\ k.mounted
  BY KindFields
<1> HIDE DEF u, k
<1>2. DataFileOf(k.name, k.fmt) = f BY <1>1 DEF DataFileOf
<1>3. SectorsOf(f) \in Nat /\ bs \in Nat BY FileFacts DEF IsoSectors
<1>4. VirtualSectors(k) = n * bs /\ n * bs \in Nat /\ n * bs <= SectorsOf(f) BY <1>1, <1>3 DEF VirtualSectors
<1> HIDE DEF bs
<1>5. IsPlain(k, f)
  <2>1. SUFFICES ASSUME NEW v \in 0..VirtualSectors(k) - 1
                 PROVE  k.offset + v < SectorsOf(f) /\ Virtual(k.name, v) = Sector(f, k.offset + v)
    BY DEF IsPlain
  <2>2. v \in Nat /\ v < SectorsOf(f) BY <1>3, <1>4
  <2>3. k.offset + v = v BY <1>1, <2>2
  <2>4. QED BY <1>1, <2>2, <2>3
<1>6. Described(k, f) BY <1>1, <1>5 DEF Described, bs
<1>7. Reads(k, f) BY <1>1 DEF Reads
<1>8. QED BY <1>1, <1>2, <1>6, <1>7 DEF Right, u, k

(* An ISO image, and a disk image without a container.                      *)
LEMMA RawRight ==
  ASSUME dir \in Cards, NEW name \in DOMAIN dir, NEW f, f = dir[name], ~Refused(f), f.suffix # "vhd", f.suffix # "vmdk",
         NEW bad
  PROVE  Right(Detected(BlankFor(name, f), f, NoCache, bad), name, f)
<1> DEFINE c == BlankFor(name, f)
<1>1. /\ CurRec(c) /\ c.name = name /\ c.ext = Extents(f).ext /\ c.fileSectors = SectorsOf(f) /\ c.offset = 0
      /\ c.fmt \in {"raw", "vhd_fixed"}
  BY BlankFields
<1> HIDE DEF c
<1>2. \A v : Virtual(name, v) = Sector(f, v) BY DEF Virtual
<1>3. Fresh(NoCache, f) BY NothingCached
<1>4. f.size \in Nat /\ SectorsOf(f) \in Nat /\ SectorsOf(f) = (f.size + 1) \div 2 BY FileFacts DEF SectorsOf
<1>5. CASE f.kind = "iso"
  <2> DEFINE n == f.size \div (2 * IsoSectors)
  <2>1. n \in Nat /\ n * 4 <= SectorsOf(f) BY <1>4 DEF IsoSectors
  <2>2. n * (IF f.kind = "iso" THEN IsoSectors ELSE 1) <= SectorsOf(f) BY <1>5, <2>1 DEF IsoSectors
  <2>3. Detected(c, f, NoCache, bad) = Usable(c, n, NoCache) BY <1>5 DEF Detected
  <2> HIDE DEF n
  <2>4. Right(Usable(c, n, NoCache), name, f) BY <1>1, <1>2, <1>3, <2>1, <2>2, PlainRight
  <2>5. QED BY <2>3, <2>4 DEF c
<1>6. CASE f.kind # "iso"
  <2> DEFINE n == SectorsOf(f)
  <2>1. n \in Nat /\ n * (IF f.kind = "iso" THEN IsoSectors ELSE 1) <= SectorsOf(f) BY <1>4, <1>6
  <2>2. Detected(c, f, NoCache, bad) = Usable(c, n, NoCache) BY <1>1, <1>6 DEF Detected
  <2> HIDE DEF n
  <2>3. Right(Usable(c, n, NoCache), name, f) BY <1>1, <1>2, <1>3, <2>1, PlainRight
  <2>4. QED BY <2>2, <2>3 DEF c
<1>7. QED BY <1>5, <1>6

(* sectors of the bitmap, as the code computes them *)
LEMMA BitmapIs == ASSUME NEW u \in Nat PROVE (((u + 7) \div 8) + 511) \div 512 = BitmapOf(u)
<1>1. PICK q \in Nat : q = (u + 7) \div 8 /\ 8 * q <= u + 7 /\ u + 7 < 8 * q + 8 OBVIOUS
<1>2. PICK p \in Nat : p = (q + 511) \div 512 /\ 512 * p <= q + 511 /\ q + 511 < 512 * p + 512 OBVIOUS
<1>3. PICK w \in Nat : w = (u + 4095) \div 4096 /\ 4096 * w <= u + 4095 /\ u + 4095 < 4096 * w + 4096 OBVIOUS
<1>4. 4096 * p <= u + 4095 /\ u + 4095 < 4096 * p + 4096 BY <1>1, <1>2
<1>5. p = w BY <1>3, <1>4
<1>6. QED BY <1>1, <1>2, <1>3, <1>5 DEF BitmapOf

(* A sector that is not a plain one lies among what the file holds.         *)
LEMMA NotPlain ==
  ASSUME NEW f, NEW i, Content(f, i).t # "data"
  PROVE  i \in DOMAIN f.holds /\ Content(f, i) = f.holds[i]
BY DEF Content, Data

DynamicOf(c, t, e, u, b) == [c EXCEPT !.fmt = "vhd_dyn", !.table = t, !.entries = e, !.unit = u, !.bitmap = b]
LEMMA DynamicFields ==
  ASSUME NEW c, CurRec(c), NEW t, NEW e, NEW u, NEW b
  PROVE  LET d == DynamicOf(c, t, e, u, b)
         IN /\ CurRec(d) /\ d.fmt = "vhd_dyn" /\ d.table = t /\ d.entries = e /\ d.unit = u /\ d.bitmap = b
            /\ d.name = c.name /\ d.ext = c.ext /\ d.fileSectors = c.fileSectors /\ d.offset = c.offset
<1> DEFINE c1 == [c EXCEPT !.fmt = "vhd_dyn"]
           c2 == [c1 EXCEPT !.table = t]
           c3 == [c2 EXCEPT !.entries = e]
           c4 == [c3 EXCEPT !.unit = u]
           c5 == [c4 EXCEPT !.bitmap = b]
           Kept(d) == d.name = c.name /\ d.ext = c.ext /\ d.fileSectors = c.fileSectors /\ d.offset = c.offset
<1>1. CurRec(c1) /\ c1.fmt = "vhd_dyn" /\ Kept(c1) BY DEF CurRec
<1> HIDE DEF c1
<1>2. CurRec(c2) /\ c2.fmt = "vhd_dyn" /\ c2.table = t /\ Kept(c2) BY <1>1 DEF CurRec
<1> HIDE DEF c2
<1>3. CurRec(c3) /\ c3.fmt = "vhd_dyn" /\ c3.table = t /\ c3.entries = e /\ Kept(c3) BY <1>2 DEF CurRec
<1> HIDE DEF c3
<1>4. CurRec(c4) /\ c4.fmt = "vhd_dyn" /\ c4.table = t /\ c4.entries = e /\ c4.unit = u /\ Kept(c4) BY <1>3 DEF CurRec
<1> HIDE DEF c4
<1>5. /\ CurRec(c5) /\ c5.fmt = "vhd_dyn" /\ c5.table = t /\ c5.entries = e /\ c5.unit = u /\ c5.bitmap = b /\ Kept(c5)
  BY <1>4 DEF CurRec
<1> HIDE DEF c5
<1>6. DynamicOf(c, t, e, u, b) = c5 BY Zenon DEF DynamicOf, c1, c2, c3, c4, c5
<1>7. QED BY <1>5, <1>6

(* A VHD, fixed or dynamic, whose footer and header are in order.           *)
LEMMA VhdRight ==
  ASSUME dir \in Cards, NEW name \in DOMAIN dir, NEW f, f = dir[name], ~Refused(f), f.suffix = "vhd", NEW bad
  PROVE  Right(Detected(BlankFor(name, f), f, NoCache, bad), name, f)
<1> DEFINE c    == BlankFor(name, f)
           foot == Fetched(c, NoCache, c.fileSectors - 1, bad)
           head == Fetched(c, foot.cache, foot.p.header, bad)
           u    == Detected(c, f, NoCache, bad)
           N    == SectorsOf(f) - 1
           Good == Right(u, name, f)
<1>1. /\ CurRec(c) /\ c.name = name /\ c.ext = Extents(f).ext /\ c.fileSectors = SectorsOf(f) /\ c.offset = 0
      /\ c.fmt = "raw"
  BY BlankFields
<1> HIDE DEF c
<1>2. Reads(c, f) BY <1>1 DEF Reads
<1>3. /\ f.size \in Nat /\ f.size >= 8 /\ SectorsOf(f) \in Nat /\ WholeVhd(f) /\ (f.kind = "iso" <=> f.suffix = "iso")
  BY FileFacts
<1>4. f.kind # "iso" BY <1>3
<1>5. N \in Nat /\ c.fileSectors - 1 = N
  <2>1. SectorsOf(f) >= 4 BY <1>3 DEF SectorsOf
  <2>2. QED BY <1>1, <1>3, <2>1
<1>6. u = DetectVhd(c, NoCache, bad) BY <1>4 DEF Detected
<1>7. Fresh(NoCache, f) BY NothingCached
<1>8. Fresh(foot.cache, f) /\ (foot.ok => foot.p = Content(f, N))
  BY <1>2, <1>5, <1>7, FetchedIs
<1> DEFINE dyn == [c EXCEPT !.fmt = "vhd_dyn", !.table = head.p.table, !.entries = head.p.entries,
                            !.unit = head.p.unit, !.bitmap = (((head.p.unit + 7) \div 8) + 511) \div 512]
           fixed == [c EXCEPT !.fmt = "vhd_fixed"]
<1>9. u = (IF ~foot.ok \/ foot.p.t # "footer" THEN Unusable(foot.cache)
           ELSE IF foot.p.type = "fixed" THEN Usable(fixed, Lesser(foot.p.size, c.fileSectors - 1), foot.cache)
           ELSE IF foot.p.type # "dynamic" THEN Unusable(foot.cache)
           ELSE IF ~head.ok \/ head.p.t # "dynhead" THEN Unusable(head.cache)
           ELSE IF head.p.unit \notin PowersOfTwo THEN Unusable(head.cache)
           ELSE Usable(dyn, foot.p.size, head.cache))
  BY <1>6, Zenon DEF DetectVhd
<1> HIDE DEF foot
<1>10. \A cache : Right(Unusable(cache), name, f) BY UnusableRight
<1>11. ASSUME foot.ok, foot.p.t = "footer"
       PROVE  /\ N \in DOMAIN f.holds /\ foot.p = f.holds[N] /\ foot.p.size \in Nat
  <2>1. foot.p = Content(f, N) /\ Content(f, N).t # "data" BY <1>8, <1>11
  <2>2. N \in DOMAIN f.holds /\ foot.p = f.holds[N] BY <2>1, NotPlain
  <2>3. f.holds[N].t = "footer" BY <1>11, <2>2
  <2>4. QED BY <1>3, <2>2, <2>3 DEF WholeVhd
<1>12. ASSUME foot.ok, foot.p.t = "footer", foot.p.type = "fixed" PROVE Good
  <2> DEFINE n == Lesser(foot.p.size, c.fileSectors - 1)
  <2>1. u = Usable(fixed, n, foot.cache) BY <1>9, <1>12
  <2>2. CurRec(fixed) /\ fixed.name = name /\ fixed.ext = Extents(f).ext /\ fixed.fileSectors = SectorsOf(f)
        /\ fixed.offset = 0 /\ fixed.fmt \in {"raw", "vhd_fixed"}
    BY <1>1 DEF CurRec
  <2>3. n \in Nat /\ n <= SectorsOf(f) BY <1>3, <1>5, <1>11, <1>12 DEF Lesser
  <2>4. n * (IF f.kind = "iso" THEN IsoSectors ELSE 1) <= SectorsOf(f) BY <1>4, <2>3
  <2>5. \A v : Virtual(name, v) = Sector(f, v)
    <3>1. f.holds[N].type # "dynamic" BY <1>11, <1>12
    <3>2. QED BY <3>1 DEF Virtual
  <2> HIDE DEF n, fixed, u
  <2>6. Right(Usable(fixed, n, foot.cache), name, f) BY <1>8, <2>2, <2>3, <2>4, <2>5, PlainRight
  <2>7. QED BY <2>1, <2>6
<1>13. ASSUME foot.ok, foot.p.t = "footer", foot.p.type = "dynamic",
              head.ok, head.p.t = "dynhead", head.p.unit \in PowersOfTwo
       PROVE  Good
  <2> DEFINE H == f.holds[f.holds[N].header]
  <2>1. u = Usable(dyn, foot.p.size, head.cache) BY <1>9, <1>13
  <2>2. foot.p.header = f.holds[N].header /\ f.holds[N].t = "footer" /\ f.holds[N].type = "dynamic"
        /\ N \in DOMAIN f.holds /\ foot.p.size = f.holds[N].size /\ foot.p.size \in Nat
    BY <1>11, <1>13
  <2>3. /\ f.holds[N].header \in Nat
        /\ f.holds[N].header \in DOMAIN f.holds /\ H.t = "dynhead" /\ H.unit \in PowersOfTwo =>
             /\ H.table \in Nat /\ H.entries \in Nat /\ H.unit \in Nat \ {0}
             /\ \A v \in 0..f.holds[N].size - 1 : BlockOfVhd(f, H, v)
    BY <1>3, <2>2 DEF WholeVhd
  <2>4. Fresh(head.cache, f) /\ head.p = Content(f, f.holds[N].header) /\ Content(f, f.holds[N].header).t # "data"
    BY <1>2, <1>8, <1>13, <2>2, <2>3, FetchedIs
  <2>5. f.holds[N].header \in DOMAIN f.holds /\ head.p = H BY <2>4, NotPlain
  <2>6. /\ H.table \in Nat /\ H.entries \in Nat /\ H.unit \in Nat \ {0}
        /\ \A v \in 0..f.holds[N].size - 1 : BlockOfVhd(f, H, v)
    BY <1>13, <2>3, <2>5
  <2>7. /\ CurRec(dyn) /\ dyn.fmt = "vhd_dyn" /\ dyn.table = H.table /\ dyn.entries = H.entries /\ dyn.unit = H.unit
        /\ dyn.bitmap = BitmapOf(H.unit) /\ dyn.name = name /\ dyn.ext = Extents(f).ext
        /\ dyn.fileSectors = SectorsOf(f) /\ dyn.offset = 0
    <3> DEFINE e == DynamicOf(c, H.table, H.entries, H.unit, BitmapOf(H.unit))
    <3>1. /\ head.p.table = H.table /\ head.p.entries = H.entries /\ head.p.unit = H.unit
          /\ (((head.p.unit + 7) \div 8) + 511) \div 512 = BitmapOf(H.unit)
      BY <2>5, <2>6, BitmapIs
    <3> HIDE DEF H, head
    <3>2. dyn = e BY <3>1 DEF DynamicOf
    <3>3. /\ CurRec(e) /\ e.fmt = "vhd_dyn" /\ e.table = H.table /\ e.entries = H.entries /\ e.unit = H.unit
          /\ e.bitmap = BitmapOf(H.unit) /\ e.name = c.name /\ e.ext = c.ext /\ e.fileSectors = c.fileSectors
          /\ e.offset = c.offset
      BY <1>1, DynamicFields
    <3> HIDE DEF dyn, e
    <3>4. QED BY <1>1, <3>2, <3>3
  <2> DEFINE n == foot.p.size
             hc == head.cache
             k == OfKind(u.cur, f)
  <2>8. Fresh(hc, f) BY <2>4
  <2> HIDE DEF dyn, u, head, n, hc
  <2>9. u = Usable(dyn, n, hc) /\ n = f.holds[N].size /\ n \in Nat BY <2>1, <2>2 DEF n, hc
  <2>10. /\ u.cache = hc /\ k.name = name /\ k.fmt = "vhd_dyn" /\ k.ext = Extents(f).ext
         /\ k.fileSectors = SectorsOf(f) /\ k.offset = 0 /\ k.table = H.table /\ k.entries = H.entries
         /\ k.unit = H.unit /\ k.bitmap = BitmapOf(H.unit) /\ k.blocks = n /\ k.kind = f.kind
         /\ k.blockSectors = (IF f.kind = "iso" THEN IsoSectors ELSE 1) /\ k.mounted
    BY <2>7, <2>9, KindFields
  <2> HIDE DEF k
  <2>11. DataFileOf(k.name, k.fmt) = f BY <2>10 DEF DataFileOf
  <2>12. VirtualSectors(k) = f.holds[N].size BY <1>4, <2>9, <2>10 DEF VirtualSectors
  <2>13. IsDynamic(k, f) BY <2>2, <2>6, <2>10, <2>12 DEF IsDynamic
  <2>14. Described(k, f) BY <1>4, <2>9, <2>10, <2>13 DEF Described
  <2>15. Reads(k, f) BY <2>10 DEF Reads
  <2>16. QED BY <2>8, <2>10, <2>11, <2>14, <2>15 DEF Right, k
<1>14. Good
  <2>1. CASE ~foot.ok \/ foot.p.t # "footer" BY <1>9, <1>10, <2>1
  <2>2. CASE foot.ok /\ foot.p.t = "footer" /\ foot.p.type # "fixed" /\ foot.p.type # "dynamic" BY <1>9, <1>10, <2>2
  <2>3. CASE foot.ok /\ foot.p.t = "footer" /\ foot.p.type = "dynamic" /\ (~head.ok \/ head.p.t # "dynhead")
    BY <1>9, <1>10, <2>3
  <2>4. CASE foot.ok /\ foot.p.t = "footer" /\ foot.p.type = "dynamic" /\ head.ok /\ head.p.t = "dynhead"
             /\ head.p.unit \notin PowersOfTwo
    BY <1>9, <1>10, <2>4
  <2>5. QED BY <1>12, <1>13, <2>1, <2>2, <2>3, <2>4
<1>15. QED BY <1>14 DEF c

SparseOf(c, t, e, u) == [c EXCEPT !.fmt = "vmdk_sparse", !.table = t, !.entries = e, !.unit = u]
FlatOf(c, x, s, o)   == [c EXCEPT !.fmt = "vmdk_flat", !.ext = x, !.fileSectors = s, !.offset = o]
LEMMA SparseFields ==
  ASSUME NEW c, CurRec(c), NEW t, NEW e, NEW u
  PROVE  LET d == SparseOf(c, t, e, u)
         IN /\ CurRec(d) /\ d.fmt = "vmdk_sparse" /\ d.table = t /\ d.entries = e /\ d.unit = u
            /\ d.name = c.name /\ d.ext = c.ext /\ d.fileSectors = c.fileSectors /\ d.offset = c.offset
<1> DEFINE c1 == [c EXCEPT !.fmt = "vmdk_sparse"]
           c2 == [c1 EXCEPT !.table = t]
           c3 == [c2 EXCEPT !.entries = e]
           c4 == [c3 EXCEPT !.unit = u]
           Kept(d) == d.name = c.name /\ d.ext = c.ext /\ d.fileSectors = c.fileSectors /\ d.offset = c.offset
<1>1. CurRec(c1) /\ c1.fmt = "vmdk_sparse" /\ Kept(c1) BY DEF CurRec
<1> HIDE DEF c1
<1>2. CurRec(c2) /\ c2.fmt = "vmdk_sparse" /\ c2.table = t /\ Kept(c2) BY <1>1 DEF CurRec
<1> HIDE DEF c2
<1>3. CurRec(c3) /\ c3.fmt = "vmdk_sparse" /\ c3.table = t /\ c3.entries = e /\ Kept(c3) BY <1>2 DEF CurRec
<1> HIDE DEF c3
<1>4. CurRec(c4) /\ c4.fmt = "vmdk_sparse" /\ c4.table = t /\ c4.entries = e /\ c4.unit = u /\ Kept(c4) BY <1>3 DEF CurRec
<1> HIDE DEF c4
<1>5. SparseOf(c, t, e, u) = c4 BY Zenon DEF SparseOf, c1, c2, c3, c4
<1>6. QED BY <1>4, <1>5

LEMMA FlatFields ==
  ASSUME NEW c, CurRec(c), NEW x, NEW s, NEW o
  PROVE  LET d == FlatOf(c, x, s, o)
         IN /\ CurRec(d) /\ d.fmt = "vmdk_flat" /\ d.ext = x /\ d.fileSectors = s /\ d.offset = o /\ d.name = c.name
<1> DEFINE c1 == [c EXCEPT !.fmt = "vmdk_flat"]
           c2 == [c1 EXCEPT !.ext = x]
           c3 == [c2 EXCEPT !.fileSectors = s]
           c4 == [c3 EXCEPT !.offset = o]
<1>1. CurRec(c1) /\ c1.fmt = "vmdk_flat" /\ c1.name = c.name BY DEF CurRec
<1> HIDE DEF c1
<1>2. CurRec(c2) /\ c2.fmt = "vmdk_flat" /\ c2.ext = x /\ c2.name = c.name BY <1>1 DEF CurRec
<1> HIDE DEF c2
<1>3. CurRec(c3) /\ c3.fmt = "vmdk_flat" /\ c3.ext = x /\ c3.fileSectors = s /\ c3.name = c.name BY <1>2 DEF CurRec
<1> HIDE DEF c3
<1>4. CurRec(c4) /\ c4.fmt = "vmdk_flat" /\ c4.ext = x /\ c4.fileSectors = s /\ c4.offset = o /\ c4.name = c.name
  BY <1>3 DEF CurRec
<1> HIDE DEF c4
<1>5. FlatOf(c, x, s, o) = c4 BY Zenon DEF FlatOf, c1, c2, c3, c4
<1>6. QED BY <1>4, <1>5

(* A VMDK: sparse, or a descriptor for a flat companion file.               *)
LEMMA VmdkRight ==
  ASSUME dir \in Cards, NEW name \in DOMAIN dir, NEW f, f = dir[name], ~Refused(f), f.suffix = "vmdk", NEW bad
  PROVE  Right(Detected(BlankFor(name, f), f, NoCache, bad), name, f)
<1> DEFINE c    == BlankFor(name, f)
           head == Fetched(c, NoCache, 0, bad)
           more == Fetched(c, head.cache, 1, bad)
           flat == dir[head.p.file]
           kept == Cleared(more.cache)
           u    == Detected(c, f, NoCache, bad)
           H    == f.holds[0]
           Good == Right(u, name, f)
           N    == IF head.p.size + head.p.offset > SectorsOf(flat)
                     THEN (SectorsOf(flat) - head.p.offset) % Word ELSE head.p.size
           sp   == SparseOf(c, head.p.table, head.p.entries, head.p.unit)
           fl   == FlatOf(c, Extents(flat).ext, SectorsOf(flat), head.p.offset)
<1>1. /\ CurRec(c) /\ c.name = name /\ c.ext = Extents(f).ext /\ c.fileSectors = SectorsOf(f) /\ c.offset = 0
      /\ c.fmt = "raw"
  BY BlankFields
<1> HIDE DEF c
<1>2. Reads(c, f) BY <1>1 DEF Reads
<1>3. f.size \in Nat /\ SectorsOf(f) \in Nat /\ WholeVmdk(dir, f) /\ (f.kind = "iso" <=> f.suffix = "iso") BY FileFacts
<1>4. f.kind # "iso" /\ f.suffix # "vhd" BY <1>3
<1>5. u = DetectVmdk(c, NoCache, bad) BY <1>4 DEF Detected
<1>6. Fresh(NoCache, f) BY NothingCached
<1>7. 0 \in Nat OBVIOUS
<1>8. Fresh(head.cache, f) /\ (head.ok => head.p = Content(f, 0)) BY <1>2, <1>6, <1>7, FetchedIs
<1>9. u = (IF ~head.ok THEN Unusable(head.cache)
           ELSE IF head.p.t = "sparse"
             THEN IF ~head.p.usable THEN Unusable(head.cache) ELSE Usable(sp, head.p.size, head.cache)
           ELSE IF head.p.t # "descriptor" THEN Unusable(more.cache)
           ELSE IF head.p.file \notin DOMAIN dir \/ Refused(flat) THEN Unusable(kept)
           ELSE Usable(fl, N, kept))
  BY <1>5, Zenon DEF DetectVmdk, SparseOf, FlatOf
<1>10. \A cache : Right(Unusable(cache), name, f) BY UnusableRight
<1>11. kept = NoCache BY DEF Cleared
<1> HIDE DEF head, kept, more
<1>12. ASSUME head.ok, head.p.t \in {"sparse", "descriptor"} PROVE 0 \in DOMAIN f.holds /\ head.p = H
  <2>1. Content(f, 0).t # "data" BY <1>8, <1>12
  <2>2. QED BY <1>8, <1>12, <2>1, NotPlain
<1>13. ASSUME head.ok, head.p.t = "sparse", head.p.usable PROVE Good
  <2>1. u = Usable(sp, head.p.size, head.cache) BY <1>9, <1>13
  <2>2. 0 \in DOMAIN f.holds /\ head.p = H BY <1>12, <1>13
  <2>3. /\ H.t = "sparse" /\ H.table \in Nat /\ H.entries \in Nat \ {0} /\ H.unit \in Nat \ {0} /\ H.size \in Nat
        /\ \A v \in 0..H.size - 1 : GrainOfVmdk(f, H, v)
    BY <1>3, <1>13, <2>2 DEF WholeVmdk
  <2>4. /\ CurRec(sp) /\ sp.fmt = "vmdk_sparse" /\ sp.table = H.table /\ sp.entries = H.entries /\ sp.unit = H.unit
        /\ sp.name = name /\ sp.ext = Extents(f).ext /\ sp.fileSectors = SectorsOf(f) /\ sp.offset = 0
    BY <1>1, <2>2, SparseFields
  <2> DEFINE n == head.p.size
             hc == head.cache
             k == OfKind(u.cur, f)
  <2> HIDE DEF sp, u, n, hc
  <2>5. u = Usable(sp, n, hc) /\ n = H.size /\ n \in Nat /\ Fresh(hc, f) BY <1>8, <2>1, <2>2, <2>3 DEF n, hc
  <2>6. /\ u.cache = hc /\ k.name = name /\ k.fmt = "vmdk_sparse" /\ k.ext = Extents(f).ext
        /\ k.fileSectors = SectorsOf(f) /\ k.offset = 0 /\ k.table = H.table /\ k.entries = H.entries
        /\ k.unit = H.unit /\ k.blocks = n /\ k.kind = f.kind
        /\ k.blockSectors = (IF f.kind = "iso" THEN IsoSectors ELSE 1) /\ k.mounted
    BY <2>4, <2>5, KindFields
  <2> HIDE DEF k
  <2>7. DataFileOf(k.name, k.fmt) = f BY <2>6 DEF DataFileOf
  <2>8. VirtualSectors(k) = H.size BY <1>4, <2>5, <2>6 DEF VirtualSectors
  <2>9. IsSparse(k, f) BY <2>3, <2>6, <2>8 DEF IsSparse
  <2>10. Described(k, f) BY <1>4, <2>5, <2>6, <2>9 DEF Described
  <2>11. Reads(k, f) BY <2>6 DEF Reads
  <2>12. QED BY <2>5, <2>6, <2>7, <2>10, <2>11 DEF Right, k
<1>14. ASSUME head.ok, head.p.t = "descriptor", head.p.file \in DOMAIN dir, ~Refused(flat) PROVE Good
  <2>1. u = Usable(fl, N, kept) BY <1>9, <1>14
  <2>2. 0 \in DOMAIN f.holds /\ head.p = H BY <1>12, <1>14
  <2> DEFINE g == dir[H.file]
             k == OfKind(u.cur, f)
  <2>3. H.t = "descriptor" /\ H.file \in DOMAIN dir /\ flat = g /\ ~Refused(g) BY <1>14, <2>2
  <2>4. H.offset \in Nat /\ H.size \in Nat /\ H.offset <= SectorsOf(g) BY <1>3, <2>2, <2>3 DEF WholeVmdk
  <2>5. SectorsOf(g) \in Nat BY <2>3, FileFacts
  <2>6. N \in Nat /\ N + H.offset <= SectorsOf(g)
    <3> DEFINE d == SectorsOf(g) - H.offset
    <3>1. d \in Nat BY <2>4, <2>5
    <3>2. Word \in Nat \ {0} BY MapAssumption
    <3>3. d % Word \in Nat /\ d % Word <= d
      <4>1. \A a \in Nat, b \in Nat \ {0} : a % b \in Nat /\ a % b <= a OBVIOUS
      <4> HIDE DEF d
      <4>2. QED BY <3>1, <3>2, <4>1
    <3>4. N = IF H.size + H.offset > SectorsOf(g) THEN d % Word ELSE H.size BY <2>2
    <3>5. (d % Word) + H.offset <= SectorsOf(g)
      <4>1. d + H.offset = SectorsOf(g) BY <2>4, <2>5
      <4> HIDE DEF d
      <4>2. QED BY <2>4, <2>5, <3>1, <3>3, <4>1
    <3> HIDE DEF d, N
    <3>6. QED BY <2>4, <2>5, <3>3, <3>4, <3>5
  <2>7. /\ CurRec(fl) /\ fl.fmt = "vmdk_flat" /\ fl.ext = Extents(g).ext /\ fl.fileSectors = SectorsOf(g)
        /\ fl.offset = H.offset /\ fl.name = name
    BY <1>1, <2>2, <2>3, FlatFields
  <2> HIDE DEF fl, u, N
  <2>8. /\ u.cache = kept /\ k.name = name /\ k.fmt = "vmdk_flat" /\ k.ext = Extents(g).ext
        /\ k.fileSectors = SectorsOf(g) /\ k.offset = H.offset /\ k.blocks = N /\ k.kind = f.kind
        /\ k.blockSectors = (IF f.kind = "iso" THEN IsoSectors ELSE 1) /\ k.mounted
    BY <2>1, <2>7, KindFields
  <2> HIDE DEF k
  <2>9. DataFileOf(k.name, k.fmt) = g BY <2>8 DEF DataFileOf
  <2>10. VirtualSectors(k) = N BY <1>4, <2>6, <2>8 DEF VirtualSectors
  <2>11. \A v : Virtual(name, v) = Sector(g, H.offset + v) BY <1>4, <2>3 DEF Virtual
  <2>12. IsPlain(k, g)
    <3>1. SUFFICES ASSUME NEW v \in 0..VirtualSectors(k) - 1
                   PROVE  k.offset + v < SectorsOf(g) /\ Virtual(k.name, v) = Sector(g, k.offset + v)
      BY DEF IsPlain
    <3>2. v \in Nat /\ v < N BY <2>6, <2>10
    <3>3. k.offset + v < SectorsOf(g) BY <2>4, <2>5, <2>6, <2>8, <3>2
    <3>4. QED BY <2>8, <2>11, <3>3
  <2>13. Described(k, g) BY <1>4, <2>3, <2>4, <2>6, <2>8, <2>12 DEF Described
  <2>14. Reads(k, g) BY <2>3, <2>8 DEF Reads
  <2>15. Fresh(kept, g) BY <1>11, NothingCached
  <2>16. QED BY <2>8, <2>9, <2>13, <2>14, <2>15 DEF Right, k
<1>15. Good
  <2>1. CASE ~head.ok BY <1>9, <1>10, <2>1
  <2>2. CASE head.ok /\ head.p.t = "sparse" /\ ~head.p.usable BY <1>9, <1>10, <2>2
  <2>3. CASE head.ok /\ head.p.t # "sparse" /\ head.p.t # "descriptor" BY <1>9, <1>10, <2>3
  <2>4. CASE head.ok /\ head.p.t = "descriptor" /\ (head.p.file \notin DOMAIN dir \/ Refused(flat)) BY <1>9, <1>10, <2>4
  <2>5. QED BY <1>13, <1>14, <2>1, <2>2, <2>3, <2>4
<1>16. QED BY <1>15 DEF c

(* detect_format: whatever it accepts is what its headers say.              *)
LEMMA DetectedRight ==
  ASSUME dir \in Cards, NEW name \in DOMAIN dir, NEW f, f = dir[name], ~Refused(f), NEW bad
  PROVE  Right(Detected(BlankFor(name, f), f, NoCache, bad), name, f)
<1>1. CASE f.suffix = "vhd" BY <1>1, VhdRight
<1>2. CASE f.suffix = "vmdk" BY <1>2, VmdkRight
<1>3. CASE f.suffix # "vhd" /\ f.suffix # "vmdk" BY <1>3, RawRight
<1>4. QED BY <1>1, <1>2, <1>3

LEMMA MapInvFrom ==
  ASSUME dir \in Cards, UNCHANGED dir,
         img_cur'.mounted => LET g == DataFileOf(img_cur'.name, img_cur'.fmt)
                             IN Reads(img_cur', g) /\ Described(img_cur', g) /\ Fresh(tcache', g)
  PROVE  MapInv'
<1> DEFINE g == DataFileOf(img_cur'.name, img_cur'.fmt)
<1>1. DataFile' = g BY DEF DataFile, DataFileOf
<1>2. /\ \A cur, f : Described(cur, f)' = Described(cur, f)
      /\ \A cache, f : Fresh(cache, f)' = Fresh(cache, f)
  BY SameCard
<1>3. Reads(img_cur, DataFile)' = Reads(img_cur', g) BY <1>1 DEF Reads
<1> HIDE DEF g
<1>4. Described(img_cur, DataFile)' = Described(img_cur', g) BY <1>1, <1>2
<1>5. Fresh(tcache, DataFile)' = Fresh(tcache', g) BY <1>1, <1>2
<1>6. QED BY <1>3, <1>4, <1>5 DEF MapInv, g

LEMMA UnmountKeeps == ASSUME MapInv, Unmount PROVE MapInv'
<1>1. dir \in Cards /\ UNCHANGED dir /\ ~img_cur'.mounted BY DEF MapInv, Unmount, Nothing
<1>2. QED BY <1>1, MapInvFrom

LEMMA MountKeeps ==
  ASSUME MapInv, NEW name \in DOMAIN dir, NEW opens, NEW bad, MountEntry(name, opens, bad)
  PROVE  MapInv'
<1> DEFINE f == dir[name]
           cur == [Nothing EXCEPT !.name = name, !.ext = Extents(f).ext, !.fileSectors = SectorsOf(f)]
           d == Detected(cur, f, Cleared(tcache), bad)
<1>1. dir \in Cards /\ UNCHANGED dir BY DEF MapInv, MountEntry
<1>2. d = Detected(BlankFor(name, f), f, NoCache, bad) BY Zenon DEF BlankFor, Cleared
<1>3. CASE ~img_cur'.mounted BY <1>1, <1>3, MapInvFrom
<1>4. CASE img_cur'.mounted
  <2>1. ~Nothing.mounted BY DEF Nothing
  <2>2. /\ ~Refused(f) /\ d.ok /\ img_cur' = OfKind(d.cur, f) /\ tcache' = d.cache
    BY <1>4, <2>1 DEF MountEntry, Unmount, OfKind
  <2>3. Right(d, name, f) BY <1>1, <1>2, <2>2, DetectedRight
  <2> HIDE DEF d
  <2>4. LET g == DataFileOf(img_cur'.name, img_cur'.fmt)
        IN Reads(img_cur', g) /\ Described(img_cur', g) /\ Fresh(tcache', g)
    BY <2>2, <2>3, Zenon DEF Right
  <2>5. QED BY <1>1, <2>4, MapInvFrom
<1>5. QED BY <1>3, <1>4

LEMMA SameMap == ASSUME MapInv, UNCHANGED mapVars PROVE MapInv'
<1>1. dir' = dir /\ img_cur' = img_cur /\ tcache' = tcache BY DEF mapVars
<1>2. DataFile = DataFileOf(img_cur'.name, img_cur'.fmt) BY <1>1 DEF DataFile
<1>3. QED BY <1>1, <1>2, MapInvFrom DEF MapInv

---------------------------------------------------------------------------
(* The fields of the driver's records. *)
RsRec(s)   == s = [open |-> s.open, started |-> s.started, multi |-> s.multi, lba |-> s.lba, total |-> s.total,
                   pushed |-> s.pushed, verified |-> s.verified, attempts |-> s.attempts]
IoRec(p)   == p = [pc |-> p.pc, buf |-> p.buf, at |-> p.at, cnt |-> p.cnt, before |-> p.before, e |-> p.e]
LineRec(l) == l = [mode |-> l.mode, at |-> l.at]

(* What is in the buffer of the command, and what it has still to fetch.    *)
Filled  == IF cmd.pc = "wait" THEN 0 ELSE cmd.filled
Rest    == cmd.bytes - cmd.sent - Filled
InChunk == {"fill", "read", "end"}
PieceIn == cmd.pc = "read" /\ io.pc = "idle" /\ rret = "OK"   \* the push came back with its blocks

StreamTyped ==
  /\ RsRec(rs) /\ rs.lba \in Nat /\ rs.total \in Nat /\ rs.pushed \in Nat /\ rs.verified \in Nat
  /\ rs.open \in BOOLEAN /\ rs.started \in BOOLEAN /\ rs.multi \in BOOLEAN
  /\ IoRec(io) /\ io.pc \in {"idle", "loop", "dma", "recover"} /\ LineRec(line) /\ line.at \in Nat
CommandTyped ==
  /\ cmd.filled \in Nat /\ cmd.fsec \in Nat /\ cmd.seg \in Nat /\ cmd.segDone \in Nat /\ cmd.open \in BOOLEAN
  /\ cmd.pc \in InChunk => cmd.filled <= Chunk

(* No command of the card outlives the stream that sent it.                 *)
ToldToStop ==
  /\ ~rs.open => ~rs.started
  /\ line.mode = "data" => rs.started /\ rs.multi

(* A push is that of the piece the command asks for, from its first block on. *)
Pushing ==
  /\ io.pc # "idle" => /\ cmd.pc = "read" /\ rs.open /\ io.buf = cmd.idx /\ io.at = cmd.filled /\ io.cnt = Piece
                       /\ io.before = cmd.segDone /\ rs.verified = io.before
  /\ io.pc = "loop"    => rs.pushed = io.before
  /\ io.pc = "dma"     => rs.started /\ rs.pushed = io.before + io.cnt
  /\ io.pc = "recover" => io.e # "OK"

(* The card is at the block the stream wants next.                          *)
CardAt ==
  /\ io.pc \in {"idle", "loop"} /\ rs.started =>
       line.mode # "one" /\ (line.mode = "data" => line.at = rs.lba + rs.pushed)
  /\ io.pc = "dma" /\ line.mode \in {"data", "one"} => line.at = rs.lba + io.before

(* The stream is that of the run under way, which is not longer than what   *)
(* is left of the command.                                                  *)
Segment ==
  /\ cmd.open => cmd.pc \in {"wait", "fill", "read"} /\ cmd.segDone < cmd.seg /\ cmd.seg - cmd.segDone <= Rest
  /\ rs.open => cmd.open
  /\ cmd.pc = "read" => cmd.open /\ cmd.filled < Chunk
  /\ cmd.open /\ (cmd.pc # "read" \/ io.pc # "idle" \/ rret = "OK") => rs.open /\ rs.total = cmd.seg
  /\ cmd.open /\ cmd.pc # "read" => rs.pushed = cmd.segDone /\ rs.verified = cmd.segDone
  /\ PieceIn => rs.pushed = cmd.segDone + Piece /\ rs.verified = rs.pushed
  /\ cmd.pc = "read" /\ io.pc = "idle" /\ rret # "OK" => ~rs.open

SInv == StreamTyped /\ CommandTyped /\ ToldToStop /\ Pushing /\ CardAt /\ Segment

(* Whatever fails has a fault behind it.                                    *)
Faults ==
  /\ cmd.pc # "idle" /\ ~present => faulty
  /\ ~cmd.passed => faulty
  /\ io.pc = "recover" => faulty
  /\ cmd.pc = "read" /\ io.pc = "idle" /\ rret # "OK" => faulty
  /\ cmd.pc = "end" /\ rret # "OK" => faulty
  /\ FailsOnlyOnFault

(* The sectors of the command are among those of the LUN.                   *)
InRange ==
  cmd.pc \in Filling =>
    (cmd.lun = "sd" \/ (img_cur.mounted /\ cmd.lun = ImageLun)) /\ cmd.fsec + Rest <= Extent(cmd.lun)

(* The stream, the buffer being filled, the buffers on their way and what   *)
(* the host has hold the blocks asked for.                                  *)
StreamTrue ==
  cmd.open => \A y \in cmd.segDone..cmd.seg - 1 : Expected(cmd.lun, cmd.fsec - cmd.segDone + y) = Block(rs.lba + y)
FilledTrue ==
  cmd.pc \in InChunk => \A x \in 1..cmd.filled : mem[cmd.idx][x] = Expected(cmd.lun, cmd.fsec - cmd.filled + x - 1)
PieceTrue ==
  PieceIn => \A x \in 1..Piece : mem[cmd.idx][cmd.filled + x] = Block(rs.lba + cmd.segDone + x - 1)
Before(k) == IF k = 1 THEN 0 ELSE txq[1].len
QueueTrue ==
  ~moved => \A k \in 1..Len(txq) : \A x \in 1..txq[k].len :
    mem[txq[k].buf][x] = Expected(host.lun, host.first + Len(host.got) + Before(k) + x - 1)
Truth == StreamTrue /\ FilledTrue /\ PieceTrue /\ QueueTrue /\ ReadTruly

(* The buffers take turns; at most one is on its way while one is filled.   *)
InTurn ==
  /\ txq # <<>> => cmd.idx = (txq[Len(txq)].buf + 1) % NBuf
  /\ cmd.pc \in InChunk => Len(txq) <= 1
Same ==
  /\ host.first \in Nat
  /\ cmd.pc \in Filling /\ ~moved => host.lun = cmd.lun /\ cmd.fsec = host.first + cmd.sent + Filled


---------------------------------------------------------------------------
LEMMA CommandCounts ==
  ASSUME RInv, CommandTyped
  PROVE  /\ cmd.bytes \in Nat /\ cmd.sent \in Nat /\ cmd.sent <= cmd.bytes /\ cmd.filled \in Nat /\ cmd.seg \in Nat
         /\ cmd.segDone \in Nat /\ Chunk \in 0..ChunkLen /\ Chunk \in Nat /\ cmd.sent + Chunk <= cmd.bytes
         /\ Filled \in Nat /\ Rest \in Int /\ ChunkLen \in Nat \ {0}
         /\ Piece \in Int /\ Piece <= Chunk - cmd.filled /\ Piece <= cmd.seg - cmd.segDone
         /\ (Piece = Chunk - cmd.filled \/ Piece = cmd.seg - cmd.segDone)
<1>1. /\ cmd.bytes \in Nat /\ cmd.sent \in Nat /\ cmd.sent <= cmd.bytes /\ cmd.filled \in Nat /\ cmd.seg \in Nat
      /\ cmd.segDone \in Nat
  BY DEF RInv, Typed, Counted, CommandTyped
<1>2. Chunk \in 0..ChunkLen /\ cmd.sent + Chunk <= cmd.bytes BY ChunkCounts DEF RInv, Counted
<1>3. ChunkLen \in Nat \ {0} BY ReadAssumption
<1>4. Chunk \in Nat BY <1>2, <1>3
<1>5. Filled \in Nat /\ Rest \in Int BY <1>1 DEF Filled, Rest
<1>6. /\ Piece \in Int /\ Piece <= Chunk - cmd.filled /\ Piece <= cmd.seg - cmd.segDone
      /\ (Piece = Chunk - cmd.filled \/ Piece = cmd.seg - cmd.segDone)
  <2>1. Chunk - cmd.filled \in Int /\ cmd.seg - cmd.segDone \in Int BY <1>1, <1>4
  <2>2. QED BY <2>1, Counts DEF Piece
<1>7. QED BY <1>1, <1>2, <1>3, <1>4, <1>5, <1>6

(* The driver and the card under a command.                                 *)
Stream(s, open, started, pushed, verified) ==
  /\ RsRec(s) /\ s.open = open /\ s.started = started /\ s.pushed = pushed /\ s.verified = verified
  /\ s.lba = rs.lba /\ s.total = rs.total
Push(p, pc) == IoRec(p) /\ p.pc = pc /\ p.buf = io.buf /\ p.at = io.at /\ p.cnt = io.cnt /\ p.before = io.before

LEMMA StartChunkIs ==
  ASSUME StreamTyped, StartChunk
  PROVE  /\ io.pc = "loop" /\ rret' = rret /\ slow' = slow /\ LineRec(line') /\ rs'.multi = rs.multi
         /\ \/ /\ rs.started /\ Stream(rs', rs.open, TRUE, rs.pushed + io.cnt, rs.verified) /\ Push(io', "dma")
               /\ io'.e = io.e /\ line' = line /\ present' = present /\ faulty' = faulty
            \/ /\ ~rs.started /\ Stream(rs', rs.open, TRUE, rs.pushed + io.cnt, rs.verified) /\ Push(io', "dma")
               /\ io'.e = io.e /\ present' = present /\ faulty' = faulty
               /\ line'.mode = (IF rs.multi THEN "data" ELSE "one") /\ line'.at = rs.lba + rs.pushed
            \/ /\ ~rs.started /\ Stream(rs', rs.open, TRUE, rs.pushed, rs.verified) /\ Push(io', "recover")
               /\ io'.e # "OK" /\ faulty' = TRUE
               /\ line' = line \/ (line'.mode = (IF rs.multi THEN "data" ELSE "one") /\ line'.at = rs.lba + rs.pushed)
<1>1. io.pc = "loop" /\ rret' = rret /\ slow' = slow BY DEF StartChunk
<1>2. RsRec(rs) /\ IoRec(io) /\ LineRec(line) BY DEF StreamTyped
<1>3. CASE /\ rs.started
           /\ rs' = [rs EXCEPT !.pushed = @ + io.cnt] /\ io' = [io EXCEPT !.pc = "dma"]
           /\ UNCHANGED <<present, line, faulty>>
  <2>1. Stream(rs', rs.open, TRUE, rs.pushed + io.cnt, rs.verified) /\ rs'.multi = rs.multi
    BY <1>2, <1>3 DEF Stream, RsRec, StreamTyped
  <2>2. Push(io', "dma") /\ io'.e = io.e BY <1>2, <1>3 DEF Push, IoRec
  <2>3. QED BY <1>1, <1>2, <1>3, <2>1, <2>2
<1>4. CASE /\ ~rs.started /\ line.mode = "tran"
           /\ rs' = [rs EXCEPT !.pushed = @ + io.cnt, !.started = TRUE] /\ io' = [io EXCEPT !.pc = "dma"]
           /\ line' = Sending(rs)
           /\ UNCHANGED <<present, faulty>>
  <2>1. Stream(rs', rs.open, TRUE, rs.pushed + io.cnt, rs.verified) /\ rs'.multi = rs.multi
    BY <1>2, <1>4 DEF Stream, RsRec
  <2>2. Push(io', "dma") /\ io'.e = io.e BY <1>2, <1>4 DEF Push, IoRec
  <2>3. LineRec(line') /\ line'.mode = (IF rs.multi THEN "data" ELSE "one") /\ line'.at = rs.lba + rs.pushed
    BY <1>4 DEF Sending, LineRec
  <2>4. QED BY <1>1, <1>4, <2>1, <2>2, <2>3
<1>5. CASE /\ ~rs.started
           /\ \E e \in {"CRC", "TIMEOUT"} : io' = [io EXCEPT !.pc = "recover", !.e = e]
           /\ rs' = [rs EXCEPT !.started = TRUE] /\ faulty' = TRUE
           /\ line' \in IF line.mode = "tran" THEN {line, Sending(rs)} ELSE {line}
  <2>1. Stream(rs', rs.open, TRUE, rs.pushed, rs.verified) /\ rs'.multi = rs.multi BY <1>2, <1>5 DEF Stream, RsRec
  <2>2. Push(io', "recover") /\ io'.e # "OK"
    <3>1. PICK e \in {"CRC", "TIMEOUT"} : io' = [io EXCEPT !.pc = "recover", !.e = e] BY <1>5
    <3>2. QED BY <1>2, <3>1 DEF Push, IoRec
  <2>3. line' = line \/ line' = Sending(rs) BY <1>5
  <2>4. LineRec(Sending(rs)) /\ Sending(rs).mode = (IF rs.multi THEN "data" ELSE "one")
        /\ Sending(rs).at = rs.lba + rs.pushed
    BY DEF Sending, LineRec
  <2>5. QED BY <1>1, <1>2, <1>5, <2>1, <2>2, <2>3, <2>4
<1>6. QED BY <1>3, <1>4, <1>5 DEF StartChunk

LEMMA ChunkReadIs ==
  ASSUME StreamTyped, ChunkRead
  PROVE  /\ io.pc = "dma" /\ line.mode \in {"data", "one"} /\ io' = NoPush /\ rret' = "OK"
         /\ present' = present /\ faulty' = faulty /\ rs'.multi = rs.multi /\ LineRec(line')
         /\ Stream(rs', rs.open, rs.started, rs.pushed, io.before + io.cnt)
         /\ \/ line.mode = "one" /\ line' = Quiet
            \/ line.mode = "data" /\ line'.mode = "data" /\ line'.at = line.at + io.cnt
<1>1. RsRec(rs) /\ LineRec(line) BY DEF StreamTyped
<1>2. /\ io.pc = "dma" /\ line.mode \in {"data", "one"} /\ io' = NoPush /\ rret' = "OK"
      /\ present' = present /\ faulty' = faulty
      /\ rs' = [rs EXCEPT !.verified = io.before + io.cnt]
      /\ line' = IF line.mode = "one" THEN Quiet ELSE [line EXCEPT !.at = line.at + io.cnt]
  BY DEF ChunkRead, PushDone
<1>3. Stream(rs', rs.open, rs.started, rs.pushed, io.before + io.cnt) /\ rs'.multi = rs.multi
  BY <1>1, <1>2 DEF Stream, RsRec
<1>4. LineRec(Quiet) BY DEF Quiet, LineRec
<1>5. line.mode = "data" => LineRec(line') /\ line'.mode = "data" /\ line'.at = line.at + io.cnt
  BY <1>1, <1>2 DEF LineRec
<1>6. QED BY <1>2, <1>3, <1>4, <1>5

LEMMA ChunkFailsIs ==
  ASSUME StreamTyped, ChunkFails
  PROVE  /\ io.pc = "dma" /\ rs' = rs /\ rret' = rret /\ present' = present /\ faulty' = TRUE
         /\ Push(io', "recover") /\ io'.e # "OK" /\ LineRec(line') /\ line'.at \in Nat
         /\ line'.mode = "data" => line.mode = "data"
<1>1. IoRec(io) /\ LineRec(line) /\ line.at \in Nat BY DEF StreamTyped
<1>2. PICK e \in {"CRC", "TIMEOUT"}, k \in 0..io.cnt - 1 :
        /\ line' = CASE line.mode = "one" -> Quiet
                     [] line.mode = "data" -> [line EXCEPT !.at = @ + k]
                     [] OTHER -> line
        /\ io' = [io EXCEPT !.pc = "recover", !.e = e]
  BY DEF ChunkFails
<1>3. Push(io', "recover") /\ io'.e # "OK" BY <1>1, <1>2 DEF Push, IoRec
<1>4. LineRec(Quiet) /\ Quiet.mode = "tran" /\ Quiet.at = 0 BY DEF Quiet, LineRec
<1>5. line.mode = "data" => LineRec(line') /\ line'.at = line.at + k BY <1>1, <1>2 DEF LineRec
<1>6. line'.at \in Nat BY <1>1, <1>2, <1>4, <1>5
<1>7. LineRec(line') /\ (line'.mode = "data" => line.mode = "data") BY <1>1, <1>2, <1>4, <1>5
<1>8. QED BY <1>3, <1>6, <1>7 DEF ChunkFails

(* CMD12: the card that was sending is not any more.                        *)
LEMMA Stopped ==
  ASSUME StreamTyped, NEW w, StopReading(w)
  PROVE  /\ LineRec(line') /\ line'.at \in Nat
         /\ (w => line'.mode # "data") /\ (line'.mode = "data" => line.mode = "data") /\ (line'.mode = "one" => line.mode = "one")
<1>1. LineRec(line) /\ line.at \in Nat BY DEF StreamTyped
<1>2. LineRec(Quiet) /\ Quiet.mode = "tran" /\ Quiet.at = 0 BY DEF Quiet, LineRec
<1>3. LET s == [mode |-> "stuck", at |-> 0] IN LineRec(s) /\ s.mode = "stuck" /\ s.at = 0 BY DEF LineRec
<1>4. \/ line' \in {Quiet, [mode |-> "stuck", at |-> 0]}
      \/ line' = line /\ ~(w /\ line.mode \in {"data", "stuck"})
  BY DEF StopReading
<1>5. QED BY <1>1, <1>2, <1>3, <1>4

LEMMA AbortedIs ==
  ASSUME StreamTyped
  PROVE  Stream(AbortedRead, FALSE, FALSE, rs.verified, rs.verified) /\ AbortedRead.multi = rs.multi
<1> DEFINE a == AbortedRead
<1>1. RsRec(rs) BY DEF StreamTyped
<1>2. ASSUME NEW x, x = [rs EXCEPT !.open = FALSE],
             NEW y, y = [x EXCEPT !.started = FALSE],
             NEW z, z = [y EXCEPT !.pushed = rs.verified]
      PROVE  Stream(z, FALSE, FALSE, rs.verified, rs.verified) /\ z.multi = rs.multi
  <2>1. Stream(x, FALSE, rs.started, rs.pushed, rs.verified) /\ x.multi = rs.multi BY <1>1, <1>2 DEF RsRec, Stream
  <2>2. Stream(y, FALSE, FALSE, rs.pushed, rs.verified) /\ y.multi = rs.multi BY <1>2, <2>1 DEF RsRec, Stream
  <2>3. QED BY <1>2, <2>2 DEF RsRec, Stream
<1> DEFINE p == [rs EXCEPT !.open = FALSE]
           q == [p EXCEPT !.started = FALSE]
           r == [q EXCEPT !.pushed = rs.verified]
<1>3. a = r BY Zenon DEF AbortedRead
<1>4. p = [rs EXCEPT !.open = FALSE] /\ q = [p EXCEPT !.started = FALSE] /\ r = [q EXCEPT !.pushed = rs.verified]
  OBVIOUS
<1> HIDE DEF p, q, r
<1>5. Stream(r, FALSE, FALSE, rs.verified, rs.verified) /\ r.multi = rs.multi BY <1>2, <1>4
<1> HIDE DEF a
<1>6. QED BY <1>3, <1>5 DEF a

LEMMA RecoverReadIs ==
  ASSUME StreamTyped, RecoverRead
  PROVE  /\ io.pc = "recover" /\ faulty' = faulty /\ mem' = mem /\ LineRec(line') /\ line'.at \in Nat
         /\ (rs.started => line'.mode # "data") /\ (line'.mode = "data" => line.mode = "data")
         /\ (line'.mode = "one" => line.mode = "one") /\ rs'.multi \in BOOLEAN
         /\ \/ Stream(rs', FALSE, FALSE, rs.verified, rs.verified) /\ io' = NoPush /\ rret' = io.e
            \/ Stream(rs', TRUE, FALSE, rs.verified, rs.verified) /\ Push(io', "loop") /\ rret' = rret
<1>1. RsRec(rs) /\ IoRec(io) /\ rs.multi \in BOOLEAN BY DEF StreamTyped
<1>2. io.pc = "recover" /\ faulty' = faulty /\ mem' = mem /\ StopReading(rs.started) BY DEF RecoverRead
<1>3. /\ LineRec(line') /\ line'.at \in Nat
      /\ (rs.started => line'.mode # "data") /\ (line'.mode = "data" => line.mode = "data")
      /\ (line'.mode = "one" => line.mode = "one")
  BY <1>2, Stopped
<1> DEFINE a == AbortedRead
<1>4. RsRec(a) /\ Stream(a, FALSE, FALSE, rs.verified, rs.verified) /\ a.multi = rs.multi BY AbortedIs DEF Stream
<1>5. \/ io' = NoPush /\ rret' = io.e /\ (rs' = a \/ rs' = [a EXCEPT !.attempts = @ + 1])
      \/ rs' = [Reopened(a) EXCEPT !.attempts = @ + 1] /\ io' = [io EXCEPT !.pc = "loop"] /\ rret' = rret
  BY DEF RecoverRead, PushDone
<1> HIDE DEF a
<1> DEFINE b == [a EXCEPT !.attempts = @ + 1]
           r == Reopened(a)
           c == [r EXCEPT !.attempts = @ + 1]
<1>6. Stream(b, FALSE, FALSE, rs.verified, rs.verified) /\ b.multi = rs.multi BY <1>4 DEF RsRec, Stream
<1>7. RsRec(r) /\ Stream(r, TRUE, FALSE, rs.verified, rs.verified) /\ r.multi \in BOOLEAN
  <2> DEFINE x == a.total - a.verified > 1
  <2>1. x \in BOOLEAN OBVIOUS
  <2>2. r = [a EXCEPT !.pushed = a.verified, !.started = FALSE, !.open = TRUE, !.multi = x] BY Zenon DEF Reopened
  <2> HIDE DEF x, r
  <2>3. QED BY <1>4, <2>1, <2>2 DEF RsRec, Stream
<1> HIDE DEF r
<1>8. Stream(c, TRUE, FALSE, rs.verified, rs.verified) /\ c.multi \in BOOLEAN BY <1>7 DEF RsRec, Stream
<1>9. rs' = c /\ io' = [io EXCEPT !.pc = "loop"] => Push(io', "loop") BY <1>1 DEF Push, IoRec
<1> HIDE DEF b
<1>10. QED BY <1>1, <1>2, <1>3, <1>4, <1>5, <1>6, <1>8, <1>9 DEF b, r

LEMMA SameCommand ==
  ASSUME cmd' = cmd
  PROVE  Piece' = Piece /\ Chunk' = Chunk /\ Rest' = Rest /\ Filled' = Filled
BY DEF Piece, Chunk, Rest, Filled

LEMMA DriverKeepsStream ==
  ASSUME RInv, SInv, StreamStep, cmd' = cmd
  PROVE  SInv'
<1>1. Piece' = Piece /\ Chunk' = Chunk /\ Rest' = Rest BY SameCommand
<1>2. CommandTyped' BY <1>1 DEF SInv, CommandTyped
<1>3. StreamTyped BY DEF SInv
<1>4. io.pc # "idle" => /\ cmd.pc = "read" /\ cmd.open /\ rs.open /\ io.cnt = Piece /\ io.before = cmd.segDone
                        /\ rs.verified = io.before /\ rs.total = cmd.seg /\ cmd.filled < Chunk /\ cmd.segDone < cmd.seg
  BY DEF SInv, Pushing, Segment
<1>5. /\ Piece \in Nat /\ io.pc # "idle" => Piece > 0
      /\ io.pc # "idle" => io.cnt \in Nat /\ io.before \in Nat
  <2>1. Piece \in Int /\ (Piece = Chunk - cmd.filled \/ Piece = cmd.seg - cmd.segDone) /\ Chunk \in Nat
        /\ cmd.filled \in Nat /\ cmd.seg \in Nat /\ cmd.segDone \in Nat
    BY CommandCounts DEF SInv
  <2>2. QED BY <1>4, <2>1
<1>6. /\ rs.lba \in Nat /\ rs.pushed \in Nat /\ rs.verified \in Nat /\ line.at \in Nat BY <1>3 DEF StreamTyped
<1>7. CASE StartChunk
  <2>1. StreamTyped'
    <3>1. RsRec(rs') /\ rs'.lba \in Nat /\ rs'.total \in Nat /\ rs'.verified \in Nat /\ rs'.open \in BOOLEAN
          /\ rs'.started \in BOOLEAN /\ rs'.multi \in BOOLEAN
      BY <1>3, <1>7, StartChunkIs DEF StreamTyped, Stream
    <3>2. IoRec(io') /\ io'.pc \in {"idle", "loop", "dma", "recover"} BY <1>3, <1>7, StartChunkIs DEF Push
    <3>3. rs.pushed + io.cnt \in Nat /\ rs.lba + rs.pushed \in Nat BY <1>3, <1>5, <1>6, <1>7, StartChunkIs
    <3>4. rs'.pushed \in Nat BY <1>3, <1>6, <1>7, <3>3, StartChunkIs DEF Stream
    <3>5. LineRec(line') /\ line'.at \in Nat BY <1>3, <1>6, <1>7, <3>3, StartChunkIs
    <3>6. QED BY <3>1, <3>2, <3>4, <3>5 DEF StreamTyped
  <2>2. ToldToStop' BY <1>3, <1>4, <1>7, StartChunkIs DEF SInv, ToldToStop, Stream
  <2>3. Pushing' BY <1>1, <1>3, <1>4, <1>7, StartChunkIs DEF SInv, Pushing, Stream, Push
  <2>4. CardAt' BY <1>3, <1>4, <1>7, StartChunkIs DEF SInv, Pushing, CardAt, Stream, Push
  <2>5. Segment' BY <1>1, <1>3, <1>4, <1>7, StartChunkIs DEF SInv, Segment, PieceIn, Stream, Push
  <2>6. QED BY <1>2, <2>1, <2>2, <2>3, <2>4, <2>5 DEF SInv
<1>8. CASE ChunkRead
  <2>1. NoPush.pc = "idle" /\ IoRec(NoPush) /\ Quiet.mode = "tran" /\ Quiet.at = 0 BY DEF NoPush, IoRec, Quiet
  <2>2. StreamTyped' BY <1>3, <1>4, <1>5, <1>6, <1>8, <2>1, ChunkReadIs DEF StreamTyped, Stream
  <2>3. ToldToStop' BY <1>3, <1>4, <1>8, <2>1, ChunkReadIs DEF SInv, ToldToStop, Stream
  <2>4. Pushing' BY <1>3, <1>8, <2>1, ChunkReadIs DEF SInv, Pushing
  <2>5. CardAt' BY <1>3, <1>4, <1>5, <1>6, <1>8, <2>1, ChunkReadIs DEF SInv, Pushing, CardAt, Stream
  <2>6. Segment' BY <1>1, <1>3, <1>4, <1>5, <1>6, <1>8, <2>1, ChunkReadIs DEF SInv, Segment, Pushing, PieceIn, Stream
  <2>7. QED BY <1>2, <2>2, <2>3, <2>4, <2>5, <2>6 DEF SInv
<1>9. CASE ChunkFails
  <2>1. StreamTyped' BY <1>3, <1>9, ChunkFailsIs DEF StreamTyped, Push
  <2>2. ToldToStop' BY <1>3, <1>9, ChunkFailsIs DEF SInv, ToldToStop
  <2>3. Pushing' BY <1>1, <1>3, <1>4, <1>9, ChunkFailsIs DEF SInv, Pushing, Push
  <2>4. CardAt' BY <1>3, <1>9, ChunkFailsIs DEF CardAt, Push
  <2>5. Segment' BY <1>1, <1>3, <1>4, <1>9, ChunkFailsIs DEF SInv, Segment, PieceIn, Push
  <2>6. QED BY <1>2, <2>1, <2>2, <2>3, <2>4, <2>5 DEF SInv
<1>10. CASE RecoverRead
  <2>1. NoPush.pc = "idle" /\ IoRec(NoPush) BY DEF NoPush, IoRec
  <2>2. io.e # "OK" BY <1>3, <1>10, RecoverReadIs DEF SInv, Pushing
  <2>3. StreamTyped' BY <1>3, <1>4, <1>6, <1>10, <2>1, RecoverReadIs DEF StreamTyped, Stream, Push
  <2>4. ToldToStop' BY <1>3, <1>10, RecoverReadIs DEF SInv, ToldToStop, Stream
  <2>5. Pushing' BY <1>1, <1>3, <1>4, <1>10, <2>1, RecoverReadIs DEF SInv, Pushing, Stream, Push
  <2>6. CardAt' BY <1>3, <1>10, <2>1, RecoverReadIs DEF CardAt, Stream, Push
  <2>7. Segment' BY <1>1, <1>3, <1>4, <1>10, <2>1, <2>2, RecoverReadIs DEF SInv, Segment, PieceIn, Stream, Push
  <2>8. QED BY <1>2, <2>3, <2>4, <2>5, <2>6, <2>7 DEF SInv
<1>11. QED BY <1>7, <1>8, <1>9, <1>10 DEF StreamStep

LEMMA PulledKeepsStream == ASSUME SInv, PullCard, cmd' = cmd PROVE SInv'
<1>1. Piece' = Piece /\ Chunk' = Chunk /\ Rest' = Rest BY SameCommand
<1>2. rs' = rs /\ io' = io /\ rret' = rret /\ LineRec(line') /\ line'.mode = "gone" /\ line'.at = 0
  BY DEF PullCard, LineRec
<1>3. StreamTyped' /\ CommandTyped' BY <1>1, <1>2 DEF SInv, StreamTyped, CommandTyped
<1>4. ToldToStop' /\ CardAt' BY <1>2 DEF SInv, ToldToStop, CardAt
<1>5. Pushing' /\ Segment' BY <1>1, <1>2 DEF SInv, Pushing, Segment, PieceIn
<1>6. QED BY <1>3, <1>4, <1>5 DEF SInv

---------------------------------------------------------------------------
(* The steps of the command. *)
Goes(pc, filled, fsec, seg, segDone, open) ==
  /\ CmdRec(cmd') /\ cmd'.pc = pc /\ cmd'.filled = filled /\ cmd'.fsec = fsec /\ cmd'.seg = seg
  /\ cmd'.segDone = segDone /\ cmd'.open = open
  /\ cmd'.lun = cmd.lun /\ cmd'.bytes = cmd.bytes /\ cmd'.sent = cmd.sent /\ cmd'.idx = cmd.idx
Stays(pc) == Goes(pc, cmd.filled, cmd.fsec, cmd.seg, cmd.segDone, cmd.open)

LEMMA FailsIs == ASSUME CmdRec(cmd), Fails PROVE Stays("fail") /\ cmd'.passed = FALSE
BY DEF Fails, CmdRec, Stays, Goes

LEMMA WaitBufferIs ==
  ASSUME RInv, WaitBuffer
  PROVE  /\ cmd.pc = "wait" /\ io.pc = "idle" /\ UNCHANGED <<mapVars, moved, readVars, txq, host>>
         /\ cmd'.passed = cmd.passed
         /\ \/ cmd.sent = cmd.bytes /\ Stays("drain")
            \/ cmd.sent < cmd.bytes /\ Len(txq) <= 1 /\ Goes("fill", 0, cmd.fsec, cmd.seg, cmd.segDone, cmd.open)
<1>1. CmdRec(cmd) BY DEF RInv, Typed
<1>2. cmd.pc = "wait" /\ io.pc = "idle" /\ UNCHANGED <<mapVars, moved, readVars, txq, host>>
  BY DEF WaitBuffer, At, Unmoved
<1>3. CASE cmd.sent = cmd.bytes /\ cmd' = [cmd EXCEPT !.pc = "drain"]
  BY <1>1, <1>2, <1>3 DEF CmdRec, Stays, Goes
<1>4. CASE /\ cmd.sent < cmd.bytes /\ MayFill(1) /\ cmd' = [cmd EXCEPT !.pc = "fill", !.filled = 0]
  <2>1. Len(txq) <= 1 BY <1>4 DEF MayFill, Drained
  <2>2. Goes("fill", 0, cmd.fsec, cmd.seg, cmd.segDone, cmd.open) /\ cmd'.passed = cmd.passed
    BY <1>1, <1>4 DEF CmdRec, Goes
  <2>3. QED BY <1>2, <1>4, <2>1, <2>2
<1>5. QED BY <1>3, <1>4 DEF WaitBuffer

LEMMA ReadPieceIs ==
  ASSUME RInv, SInv, ReadPiece
  PROVE  /\ cmd.pc = "fill" /\ io.pc = "idle" /\ cmd.filled < Chunk /\ cmd.open /\ Stays("read") /\ cmd'.passed = cmd.passed
         /\ UNCHANGED <<mapVars, moved, txq, host, rs, present, slow, line, faulty, mem, rret>>
         /\ IoRec(io') /\ io'.pc = "loop" /\ io'.buf = cmd.idx /\ io'.at = cmd.filled /\ io'.cnt = Piece
         /\ io'.before = rs.pushed
<1>1. CmdRec(cmd) BY DEF RInv, Typed
<1>2. /\ cmd.pc = "fill" /\ io.pc = "idle" /\ cmd.filled < Chunk /\ cmd.open /\ cmd' = [cmd EXCEPT !.pc = "read"]
      /\ UNCHANGED <<mapVars, moved, txq, host, rs, present, slow, line, faulty, mem>>
  BY DEF ReadPiece, At, Unmoved, PushRead
<1>3. Stays("read") /\ cmd'.passed = cmd.passed BY <1>1, <1>2 DEF CmdRec, Stays, Goes
<1>4. rs.open /\ rs.total = cmd.seg /\ rs.pushed = cmd.segDone BY <1>2 DEF SInv, Segment
<1>5. ~(rs.pushed + Piece > rs.total)
  <2>1. Piece <= cmd.seg - cmd.segDone /\ Piece \in Int /\ cmd.seg \in Nat /\ cmd.segDone \in Nat BY CommandCounts DEF SInv
  <2>2. QED BY <1>4, <2>1
<1>6. /\ io' = [pc |-> "loop", buf |-> cmd.idx, at |-> cmd.filled, cnt |-> Piece, before |-> rs.pushed, e |-> "OK"]
      /\ rret' = rret
  <2>1. /\ IF ~rs.open \/ rs.pushed + Piece > rs.total
             THEN PushDone(IF rs.open THEN "PARAM" ELSE "DATA")
             ELSE /\ io' = [pc |-> "loop", buf |-> cmd.idx, at |-> cmd.filled, cnt |-> Piece, before |-> rs.pushed, e |-> "OK"]
                  /\ UNCHANGED rret
    BY DEF ReadPiece, PushRead
  <2>2. QED BY <1>4, <1>5, <2>1
<1>7. IoRec(io') /\ io'.pc = "loop" /\ io'.buf = cmd.idx /\ io'.at = cmd.filled /\ io'.cnt = Piece /\ io'.before = rs.pushed
  BY <1>6 DEF IoRec
<1>8. QED BY <1>2, <1>3, <1>6, <1>7

LEMMA PieceReadIs ==
  ASSUME RInv, SInv, PieceRead
  PROVE  /\ cmd.pc = "read" /\ io.pc = "idle" /\ UNCHANGED <<mapVars, moved, txq, host, io, present, mem>>
         /\ \/ /\ rret # "OK" /\ Goes("fail", cmd.filled, cmd.fsec, cmd.seg, cmd.segDone, FALSE) /\ cmd'.passed = FALSE
               /\ UNCHANGED readVars
            \/ /\ rret = "OK" /\ cmd.segDone + Piece < cmd.seg /\ cmd'.passed = cmd.passed
               /\ Goes("fill", cmd.filled + Piece, cmd.fsec + Piece, cmd.seg, cmd.segDone + Piece, cmd.open)
               /\ UNCHANGED readVars
            \/ /\ rret = "OK" /\ ~(cmd.segDone + Piece < cmd.seg) /\ cmd'.passed = cmd.passed
               /\ Goes("end", cmd.filled + Piece, cmd.fsec + Piece, cmd.seg, cmd.segDone + Piece, FALSE)
               /\ EndRead
<1>1. CmdRec(cmd) BY DEF RInv, Typed
<1>2. cmd.pc = "read" /\ io.pc = "idle" /\ UNCHANGED <<mapVars, moved, txq, host, io, present, mem>>
  BY DEF PieceRead, At, Unmoved, EndRead, readVars
<1> DEFINE c == [cmd EXCEPT !.pc = "fill", !.filled = cmd.filled + Piece, !.segDone = cmd.segDone + Piece,
                            !.fsec = cmd.fsec + Piece]
<1>3. IF rret # "OK" THEN cmd' = [cmd EXCEPT !.pc = "fail", !.passed = FALSE, !.open = FALSE] /\ UNCHANGED readVars
      ELSE IF c.segDone < c.seg THEN cmd' = c /\ UNCHANGED readVars
      ELSE cmd' = [c EXCEPT !.pc = "end", !.open = FALSE] /\ EndRead
  BY DEF PieceRead
<1>4. /\ CmdRec(c) /\ c.pc = "fill" /\ c.filled = cmd.filled + Piece /\ c.fsec = cmd.fsec + Piece /\ c.seg = cmd.seg
      /\ c.segDone = cmd.segDone + Piece /\ c.open = cmd.open /\ c.passed = cmd.passed /\ c.lun = cmd.lun
      /\ c.bytes = cmd.bytes /\ c.sent = cmd.sent /\ c.idx = cmd.idx
  <2> DEFINE Kept(d) == /\ CmdRec(d) /\ d.seg = cmd.seg /\ d.open = cmd.open /\ d.passed = cmd.passed /\ d.lun = cmd.lun
                        /\ d.bytes = cmd.bytes /\ d.sent = cmd.sent /\ d.idx = cmd.idx /\ d.pc = "fill"
             a == cmd.filled + Piece
             b == cmd.segDone + Piece
             e == cmd.fsec + Piece
             c1 == [cmd EXCEPT !.pc = "fill"]
             c2 == [c1 EXCEPT !.filled = a]
             c3 == [c2 EXCEPT !.segDone = b]
             c4 == [c3 EXCEPT !.fsec = e]
  <2>1. c = c4 BY Zenon DEF c, c1, c2, c3, c4, a, b, e
  <2> HIDE DEF a, b, e, c
  <2>2. Kept(c1) BY <1>1 DEF CmdRec
  <2> HIDE DEF c1
  <2>3. Kept(c2) /\ c2.filled = a BY <2>2 DEF CmdRec
  <2> HIDE DEF c2
  <2>4. Kept(c3) /\ c3.filled = a /\ c3.segDone = b BY <2>3 DEF CmdRec
  <2> HIDE DEF c3
  <2>5. Kept(c4) /\ c4.filled = a /\ c4.segDone = b /\ c4.fsec = e BY <2>4 DEF CmdRec
  <2> HIDE DEF c4
  <2>6. QED BY <2>1, <2>5 DEF a, b, e
<1> HIDE DEF c
<1>5. CASE rret # "OK" /\ cmd' = [cmd EXCEPT !.pc = "fail", !.passed = FALSE, !.open = FALSE] /\ UNCHANGED readVars
  <2>1. Goes("fail", cmd.filled, cmd.fsec, cmd.seg, cmd.segDone, FALSE) /\ cmd'.passed = FALSE
    BY <1>1, <1>5 DEF CmdRec, Goes
  <2>2. QED BY <1>2, <1>5, <2>1
<1>6. CASE rret = "OK" /\ c.segDone < c.seg /\ cmd' = c /\ UNCHANGED readVars
  <2>1. Goes("fill", cmd.filled + Piece, cmd.fsec + Piece, cmd.seg, cmd.segDone + Piece, cmd.open) /\ cmd'.passed = cmd.passed
    BY <1>4, <1>6 DEF Goes
  <2>2. QED BY <1>2, <1>4, <1>6, <2>1
<1>7. CASE rret = "OK" /\ ~(c.segDone < c.seg) /\ cmd' = [c EXCEPT !.pc = "end", !.open = FALSE] /\ EndRead
  <2>1. Goes("end", cmd.filled + Piece, cmd.fsec + Piece, cmd.seg, cmd.segDone + Piece, FALSE) /\ cmd'.passed = cmd.passed
    BY <1>4, <1>7 DEF Goes, CmdRec
  <2>2. QED BY <1>2, <1>4, <1>7, <2>1
<1>8. QED BY <1>3, <1>5, <1>6, <1>7

LEMMA RunEndedIs ==
  ASSUME RInv, RunEnded
  PROVE  /\ cmd.pc = "end" /\ io.pc = "idle" /\ UNCHANGED <<mapVars, moved, readVars, txq, host>>
         /\ \/ rret = "OK" /\ Stays("fill") /\ cmd'.passed = cmd.passed
            \/ rret # "OK" /\ Stays("fail") /\ cmd'.passed = FALSE
<1>1. CmdRec(cmd) BY DEF RInv, Typed
<1>2. /\ cmd.pc = "end" /\ io.pc = "idle" /\ UNCHANGED <<mapVars, moved, readVars, txq, host>>
      /\ IF rret = "OK" THEN cmd' = [cmd EXCEPT !.pc = "fill"] ELSE Fails
  BY DEF RunEnded, At, Unmoved
<1>3. CASE rret = "OK" /\ cmd' = [cmd EXCEPT !.pc = "fill"] BY <1>1, <1>2, <1>3 DEF CmdRec, Stays, Goes
<1>4. CASE rret # "OK" /\ Fails BY <1>1, <1>2, <1>4, FailsIs
<1>5. QED BY <1>2, <1>3, <1>4

LEMMA QueueIs ==
  ASSUME RInv, Queue
  PROVE  LET p == [buf |-> cmd.idx, len |-> Chunk]
         IN /\ cmd.pc = "fill" /\ io.pc = "idle" /\ UNCHANGED <<mapVars, moved, readVars, host>>
            /\ cmd.filled = Chunk /\ Len(txq) <= 1 /\ txq' = Append(txq, p)
            /\ CmdRec(cmd') /\ cmd'.pc = "wait" /\ cmd'.filled = cmd.filled /\ cmd'.fsec = cmd.fsec /\ cmd'.seg = cmd.seg
            /\ cmd'.segDone = cmd.segDone /\ cmd'.open = cmd.open /\ cmd'.lun = cmd.lun /\ cmd'.bytes = cmd.bytes
            /\ cmd'.sent = cmd.sent + Chunk /\ cmd'.idx = (cmd.idx + 1) % NBuf /\ cmd'.passed = cmd.passed
<1>1. CmdRec(cmd) BY DEF RInv, Typed
<1>2. /\ cmd.pc = "fill" /\ io.pc = "idle" /\ UNCHANGED <<mapVars, moved, readVars, host>>
      /\ cmd.filled = Chunk /\ Len(txq) <= 1 /\ txq' = Append(txq, [buf |-> cmd.idx, len |-> Chunk])
      /\ cmd' = [cmd EXCEPT !.pc = "wait", !.sent = cmd.sent + Chunk, !.idx = (cmd.idx + 1) % NBuf]
  BY DEF Queue, At, Unmoved, MayFill, Drained
<1> DEFINE s == cmd.sent + Chunk
           i == (cmd.idx + 1) % NBuf
<1>3. cmd' = [cmd EXCEPT !.pc = "wait", !.sent = s, !.idx = i] BY <1>2
<1> HIDE DEF s, i
<1>4. /\ CmdRec(cmd') /\ cmd'.pc = "wait" /\ cmd'.filled = cmd.filled /\ cmd'.fsec = cmd.fsec /\ cmd'.seg = cmd.seg
      /\ cmd'.segDone = cmd.segDone /\ cmd'.open = cmd.open /\ cmd'.lun = cmd.lun /\ cmd'.bytes = cmd.bytes
      /\ cmd'.sent = s /\ cmd'.idx = i /\ cmd'.passed = cmd.passed
  BY <1>1, <1>3 DEF CmdRec
<1>5. QED BY <1>2, <1>4 DEF s, i

LEMMA FailIs ==
  ASSUME RInv, SInv, Fail
  PROVE  /\ cmd.pc = "fail" /\ io.pc = "idle" /\ UNCHANGED <<mapVars, moved, readVars, txq, host>> /\ cmd'.passed = cmd.passed
         /\ ~cmd.open /\ Goes("drain", cmd.filled, cmd.fsec, cmd.seg, cmd.segDone, FALSE)
<1>1. CmdRec(cmd) BY DEF RInv, Typed
<1>2. cmd.pc = "fail" /\ io.pc = "idle" /\ cmd' = [cmd EXCEPT !.pc = "drain", !.open = FALSE] BY DEF Fail, At
<1>3. ~cmd.open BY <1>2 DEF SInv, Segment
<1>4. UNCHANGED <<mapVars, moved, readVars, txq, host>> BY <1>3 DEF Fail, Unmoved
<1>5. Goes("drain", cmd.filled, cmd.fsec, cmd.seg, cmd.segDone, FALSE) /\ cmd'.passed = cmd.passed
  BY <1>1, <1>2 DEF CmdRec, Goes
<1>6. QED BY <1>2, <1>3, <1>4, <1>5

ToRead(s, lba, n) ==
  /\ RsRec(s) /\ s.open = TRUE /\ s.started = FALSE /\ s.lba = lba /\ s.total = n /\ s.pushed = 0 /\ s.verified = 0
  /\ s.multi \in BOOLEAN
LEMMA ReopenedIs ==
  ASSUME NEW lba, NEW n
  PROVE  ToRead(Reopened([ClosedRead EXCEPT !.lba = lba, !.total = n]), lba, n)
<1>1. ASSUME NEW a, a = [ClosedRead EXCEPT !.lba = lba],
             NEW b, b = [a EXCEPT !.total = n],
             NEW x \in BOOLEAN,
             NEW p, p = [b EXCEPT !.pushed = b.verified],
             NEW q, q = [p EXCEPT !.started = FALSE],
             NEW r, r = [q EXCEPT !.open = TRUE],
             NEW s, s = [r EXCEPT !.multi = x]
      PROVE  ToRead(s, lba, n)
  <2> DEFINE Kept(c) == RsRec(c) /\ c.started = FALSE /\ c.lba = lba /\ c.verified = 0
  <2>1. Kept(a) /\ a.pushed = 0 BY <1>1 DEF ClosedRead, RsRec
  <2>2. Kept(b) /\ b.total = n BY <1>1, <2>1 DEF RsRec
  <2>3. Kept(p) /\ p.total = n /\ p.pushed = 0 BY <1>1, <2>2 DEF RsRec
  <2>4. Kept(q) /\ q.total = n /\ q.pushed = 0 BY <1>1, <2>3 DEF RsRec
  <2>5. Kept(r) /\ r.total = n /\ r.pushed = 0 /\ r.open = TRUE BY <1>1, <2>4 DEF RsRec
  <2>6. Kept(s) /\ s.total = n /\ s.pushed = 0 /\ s.open = TRUE /\ s.multi = x BY <1>1, <2>5 DEF RsRec
  <2>7. QED BY <1>1, <2>6 DEF ToRead
<1> DEFINE a == [ClosedRead EXCEPT !.lba = lba]
           b == [a EXCEPT !.total = n]
           x == b.total - b.verified > 1
           p == [b EXCEPT !.pushed = b.verified]
           q == [p EXCEPT !.started = FALSE]
           r == [q EXCEPT !.open = TRUE]
           s == [r EXCEPT !.multi = x]
<1>2. Reopened([ClosedRead EXCEPT !.lba = lba, !.total = n]) = s BY Zenon DEF Reopened, a, b, x, p, q, r, s
<1>3. /\ a = [ClosedRead EXCEPT !.lba = lba] /\ b = [a EXCEPT !.total = n] /\ x \in BOOLEAN
      /\ p = [b EXCEPT !.pushed = b.verified] /\ q = [p EXCEPT !.started = FALSE] /\ r = [q EXCEPT !.open = TRUE]
      /\ s = [r EXCEPT !.multi = x]
  OBVIOUS
<1> HIDE DEF a, b, x, p, q, r, s
<1>4. ToRead(s, lba, n) BY <1>1, <1>3
<1>5. QED BY <1>2, <1>4

(* What lun_map says where the command stands.                              *)
LEMMA MapRunIs ==
  ASSUME RInv, SInv, Faults, MapInv, InRange, MapRun
  PROVE  /\ cmd.pc = "fill" /\ io.pc = "idle" /\ cmd.filled < Chunk /\ ~cmd.open
         /\ UNCHANGED <<dir, img_cur, io, line, txq, moved, host>>
         /\ (img_cur.mounted => Fresh(tcache', DataFile))
         /\ \E m : LunTells(m, cmd.lun, cmd.fsec, Rest) /\
              \/ m.run = 0 /\ Stays("fail") /\ cmd'.passed = FALSE /\ faulty' = TRUE /\ UNCHANGED <<rs, rret, mem>>
              \/ /\ m.run # 0 /\ m.sd = -1
                 /\ LET z == Lesser(m.run, Chunk - cmd.filled)
                    IN /\ Store(cmd.idx, cmd.filled, [i \in 1..z |-> Zero])
                       /\ Goes("fill", cmd.filled + z, cmd.fsec + z, cmd.seg, cmd.segDone, cmd.open)
                 /\ cmd'.passed = cmd.passed /\ UNCHANGED <<rs, rret, present, faulty>>
              \/ /\ m.run # 0 /\ m.sd \in Nat /\ ToRead(rs', m.sd, Lesser(m.run, StreamMax)) /\ rret' = "OK"
                 /\ Goes("fill", cmd.filled, cmd.fsec, Lesser(m.run, StreamMax), 0, TRUE)
                 /\ cmd'.passed = cmd.passed /\ (faulty => faulty') /\ UNCHANGED <<present, mem>>
              \/ Stays("fail") /\ cmd'.passed = FALSE /\ rs' = ClosedRead /\ faulty' = TRUE /\ UNCHANGED <<present, mem>>
<1>1. CmdRec(cmd) BY DEF RInv, Typed
<1>2. /\ cmd.pc = "fill" /\ io.pc = "idle" /\ cmd.filled < Chunk /\ ~cmd.open
      /\ UNCHANGED <<dir, img_cur, io, line, txq, moved, host>>
  BY DEF MapRun, At
<1> DEFINE n == cmd.bytes - cmd.sent - cmd.filled
<1>3. n = Rest BY <1>2 DEF Rest, Filled
<1>4. Rest \in Nat \ {0} /\ cmd.fsec \in Nat
  <2>1. cmd.bytes \in Nat /\ cmd.sent \in Nat /\ cmd.filled \in Nat /\ Chunk \in Nat /\ cmd.sent + Chunk <= cmd.bytes
    BY CommandCounts DEF SInv
  <2>2. cmd.fsec \in Nat BY DEF SInv, CommandTyped
  <2>3. n \in Nat \ {0} BY <1>2, <2>1
  <2>4. QED BY <1>3, <2>2, <2>3
<1>5. (cmd.lun = "sd" \/ (img_cur.mounted /\ cmd.lun = ImageLun)) /\ cmd.fsec + Rest <= Extent(cmd.lun)
  BY <1>2 DEF InRange, Filling
<1>6. PICK bad, m :
        /\ m = LunMap(cmd.lun, cmd.fsec, n, bad) /\ tcache' = m.cache
        /\ \/ /\ m.run = 0 /\ Fails /\ faulty' = (faulty \/ bad # {}) /\ UNCHANGED <<rs, rret, mem>>
           \/ /\ m.run > 0 /\ m.sd = -1
              /\ Store(cmd.idx, cmd.filled, [i \in 1..Lesser(m.run, Chunk - cmd.filled) |-> Zero])
              /\ cmd' = [cmd EXCEPT !.filled = cmd.filled + Lesser(m.run, Chunk - cmd.filled),
                                    !.fsec = cmd.fsec + Lesser(m.run, Chunk - cmd.filled)]
              /\ UNCHANGED <<rs, rret, present, faulty>>
           \/ /\ m.run > 0 /\ m.sd >= 0
              /\ BeginRead(m.sd, Lesser(m.run, StreamMax))
              /\ IF BeginRefused(m.sd, Lesser(m.run, StreamMax)) = "OK"
                   THEN cmd' = [cmd EXCEPT !.open = TRUE, !.seg = Lesser(m.run, StreamMax), !.segDone = 0]
                   ELSE Fails
              /\ UNCHANGED <<present, mem>>
  BY DEF MapRun
<1>7. /\ LunTells(m, cmd.lun, cmd.fsec, Rest) /\ (img_cur.mounted => Fresh(tcache', DataFile))
      /\ (present /\ bad = {} => m.run # 0)
  BY <1>3, <1>4, <1>5, <1>6, LunMapTells
<1>8. m.run \in 0..Rest /\ (m.run # 0 => m.sd = -1 \/ (m.sd \in Nat /\ m.sd + m.run <= NBlk)) BY <1>7 DEF LunTells
<1>9. ~present => faulty BY <1>2 DEF Faults
<1> DEFINE run == Lesser(m.run, StreamMax)
           z   == Lesser(m.run, Chunk - cmd.filled)
           A == m.run = 0 /\ Stays("fail") /\ cmd'.passed = FALSE /\ faulty' = TRUE /\ UNCHANGED <<rs, rret, mem>>
           B == /\ m.run # 0 /\ m.sd = -1 /\ Store(cmd.idx, cmd.filled, [i \in 1..z |-> Zero])
                /\ Goes("fill", cmd.filled + z, cmd.fsec + z, cmd.seg, cmd.segDone, cmd.open)
                /\ cmd'.passed = cmd.passed /\ UNCHANGED <<rs, rret, present, faulty>>
           C == /\ m.run # 0 /\ m.sd \in Nat /\ ToRead(rs', m.sd, run) /\ rret' = "OK"
                /\ Goes("fill", cmd.filled, cmd.fsec, run, 0, TRUE)
                /\ cmd'.passed = cmd.passed /\ (faulty => faulty') /\ UNCHANGED <<present, mem>>
           D == Stays("fail") /\ cmd'.passed = FALSE /\ rs' = ClosedRead /\ faulty' = TRUE /\ UNCHANGED <<present, mem>>
<1>10. CASE m.run = 0 /\ Fails /\ faulty' = (faulty \/ bad # {}) /\ UNCHANGED <<rs, rret, mem>>
  <2>1. faulty' = TRUE BY <1>7, <1>9, <1>10
  <2>2. A BY <1>1, <1>10, <2>1, FailsIs
  <2>3. QED BY <1>2, <1>7, <2>2
<1>11. CASE /\ m.run > 0 /\ m.sd = -1 /\ Store(cmd.idx, cmd.filled, [i \in 1..z |-> Zero])
            /\ cmd' = [cmd EXCEPT !.filled = cmd.filled + z, !.fsec = cmd.fsec + z]
            /\ UNCHANGED <<rs, rret, present, faulty>>
  <2> DEFINE x == cmd.filled + z
             y == cmd.fsec + z
  <2>1. cmd' = [cmd EXCEPT !.filled = x, !.fsec = y] BY <1>11
  <2> HIDE DEF x, y
  <2>2. Goes("fill", x, y, cmd.seg, cmd.segDone, cmd.open) /\ cmd'.passed = cmd.passed
    BY <1>1, <1>2, <2>1 DEF CmdRec, Goes
  <2>3. m.run # 0 BY <1>8, <1>11
  <2>4. B BY <1>11, <2>2, <2>3 DEF x, y
  <2>5. QED BY <1>2, <1>7, <2>4
<1>12. CASE /\ m.run > 0 /\ m.sd >= 0 /\ BeginRead(m.sd, run)
            /\ IF BeginRefused(m.sd, run) = "OK" THEN cmd' = [cmd EXCEPT !.open = TRUE, !.seg = run, !.segDone = 0] ELSE Fails
            /\ UNCHANGED <<present, mem>>
  <2>1. m.run # 0 /\ m.run \in Nat /\ m.sd \in Nat /\ m.sd + m.run <= NBlk BY <1>4, <1>8, <1>12
  <2>2. run \in Nat \ {0} /\ run <= m.run BY <2>1, CommandAssumption DEF Lesser
  <2>3. ~(run = 0 \/ m.sd + run > NBlk) BY <2>1, <2>2, ReadAssumption
  <2>4. CASE present
    <3>1. BeginRefused(m.sd, run) = "OK" BY <2>3, <2>4 DEF BeginRefused
    <3>2. cmd' = [cmd EXCEPT !.open = TRUE, !.seg = run, !.segDone = 0] BY <1>12, <3>1
    <3>3. rs' = Reopened([ClosedRead EXCEPT !.lba = m.sd, !.total = run]) /\ rret' = "OK" /\ (faulty' <=> faulty)
      BY <1>12, <3>1 DEF BeginRead
    <3> HIDE DEF run
    <3>4. ToRead(rs', m.sd, run) BY <3>3, ReopenedIs
    <3>5. Goes("fill", cmd.filled, cmd.fsec, run, 0, TRUE) /\ cmd'.passed = cmd.passed
      BY <1>1, <1>2, <3>2 DEF CmdRec, Goes
    <3>6. faulty => faulty' BY <3>3
    <3>7. C BY <1>12, <2>1, <3>3, <3>4, <3>5, <3>6 DEF run
    <3>8. QED BY <1>2, <1>7, <3>7 DEF run
  <2>5. CASE ~present
    <3>1. BeginRefused(m.sd, run) = "NOCARD" BY <2>5 DEF BeginRefused
    <3>2. Fails /\ rs' = ClosedRead /\ faulty' = (faulty \/ TRUE) BY <1>12, <3>1 DEF BeginRead
    <3>3. D BY <1>1, <1>12, <3>2, FailsIs
    <3>4. QED BY <1>2, <1>7, <3>3
  <2>6. QED BY <2>4, <2>5
<1>13. QED BY <1>6, <1>10, <1>11, <1>12

LEMMA Along ==
  ASSUME NEW pc, NEW filled, NEW fsec, NEW seg, NEW segDone, NEW open, Goes(pc, filled, fsec, seg, segDone, open)
  PROVE  /\ Chunk' = Chunk /\ cmd'.pc = pc /\ cmd'.filled = filled /\ cmd'.fsec = fsec /\ cmd'.seg = seg
         /\ cmd'.segDone = segDone /\ cmd'.open = open /\ cmd'.lun = cmd.lun /\ cmd'.idx = cmd.idx
         /\ cmd'.bytes = cmd.bytes /\ cmd'.sent = cmd.sent
         /\ Filled' = (IF pc = "wait" THEN 0 ELSE filled) /\ Rest' = cmd.bytes - cmd.sent - (IF pc = "wait" THEN 0 ELSE filled)
         /\ Piece' = Lesser(Chunk - filled, seg - segDone)
BY DEF Goes, Chunk, Filled, Rest, Piece

(* The stream under a step of the command that leaves it alone.             *)
LEMMA SameStream ==
  ASSUME StreamTyped, ToldToStop, CardAt, UNCHANGED <<rs, io, line>>
  PROVE  StreamTyped' /\ ToldToStop' /\ CardAt'
<1>1. rs' = rs /\ io' = io /\ line' = line OBVIOUS
<1>2. QED BY <1>1 DEF StreamTyped, ToldToStop, CardAt

LEMMA WaitBufferStream == ASSUME RInv, SInv, WaitBuffer PROVE SInv'
<1>1. /\ cmd.pc = "wait" /\ io.pc = "idle" /\ rs' = rs /\ io' = io /\ rret' = rret /\ line' = line
  BY WaitBufferIs DEF readVars
<1>2. StreamTyped' /\ ToldToStop' /\ CardAt' BY <1>1, SameStream DEF SInv
<1>3. /\ cmd.bytes \in Nat /\ cmd.sent \in Nat /\ cmd.filled \in Nat /\ cmd.fsec \in Nat /\ cmd.seg \in Nat
      /\ cmd.segDone \in Nat /\ cmd.open \in BOOLEAN /\ Chunk \in Nat /\ cmd.sent <= cmd.bytes
  BY CommandCounts DEF SInv, CommandTyped
<1>4. Rest = cmd.bytes - cmd.sent BY <1>1, <1>3 DEF Rest, Filled
<1>5. CASE cmd.sent = cmd.bytes /\ Stays("drain")
  <2>1. ~cmd.open BY <1>3, <1>4, <1>5 DEF SInv, Segment
  <2>2. cmd'.pc = "drain" /\ cmd'.open = cmd.open /\ cmd'.filled = cmd.filled /\ cmd'.fsec = cmd.fsec
        /\ cmd'.seg = cmd.seg /\ cmd'.segDone = cmd.segDone
    BY <1>5 DEF Stays, Goes
  <2>3. CommandTyped' BY <1>3, <2>2 DEF CommandTyped, InChunk
  <2>4. Pushing' /\ Segment' BY <1>1, <2>1, <2>2 DEF SInv, Pushing, Segment, PieceIn
  <2>5. QED BY <1>2, <2>3, <2>4 DEF SInv
<1>6. CASE Goes("fill", 0, cmd.fsec, cmd.seg, cmd.segDone, cmd.open)
  <2>1. /\ Chunk' = Chunk /\ Rest' = cmd.bytes - cmd.sent - 0 /\ cmd'.pc = "fill" /\ cmd'.open = cmd.open /\ cmd'.filled = 0
        /\ cmd'.fsec = cmd.fsec /\ cmd'.seg = cmd.seg /\ cmd'.segDone = cmd.segDone
    BY <1>6, Along
  <2>2. Rest' = Rest BY <1>3, <1>4, <2>1
  <2>3. CommandTyped' BY <1>3, <2>1 DEF CommandTyped
  <2>4. Pushing' /\ Segment' BY <1>1, <2>1, <2>2 DEF SInv, Pushing, Segment, PieceIn
  <2>5. QED BY <1>2, <2>3, <2>4 DEF SInv
<1>7. QED BY <1>5, <1>6, WaitBufferIs

LEMMA MapRunStream == ASSUME RInv, SInv, Faults, MapInv, InRange, MapRun PROVE SInv'
<1>1. /\ cmd.pc = "fill" /\ io.pc = "idle" /\ cmd.filled < Chunk /\ ~cmd.open /\ io' = io /\ line' = line BY MapRunIs
<1>2. /\ cmd.bytes \in Nat /\ cmd.sent \in Nat /\ cmd.filled \in Nat /\ cmd.fsec \in Nat /\ cmd.seg \in Nat
      /\ cmd.segDone \in Nat /\ cmd.open \in BOOLEAN /\ Chunk \in Nat
  BY CommandCounts DEF SInv, CommandTyped
<1>3. ~rs.open /\ ~rs.started /\ line.mode # "data" /\ line.at \in Nat /\ StreamTyped
  BY <1>1 DEF SInv, Segment, ToldToStop, StreamTyped
<1>4. Rest = cmd.bytes - cmd.sent - cmd.filled BY <1>1 DEF Rest, Filled
<1>5. PICK m : LunTells(m, cmd.lun, cmd.fsec, Rest) /\
              \/ m.run = 0 /\ Stays("fail") /\ cmd'.passed = FALSE /\ faulty' = TRUE /\ UNCHANGED <<rs, rret, mem>>
              \/ /\ m.run # 0 /\ m.sd = -1
                 /\ LET z == Lesser(m.run, Chunk - cmd.filled)
                    IN /\ Store(cmd.idx, cmd.filled, [i \in 1..z |-> Zero])
                       /\ Goes("fill", cmd.filled + z, cmd.fsec + z, cmd.seg, cmd.segDone, cmd.open)
                 /\ cmd'.passed = cmd.passed /\ UNCHANGED <<rs, rret, present, faulty>>
              \/ /\ m.run # 0 /\ m.sd \in Nat /\ ToRead(rs', m.sd, Lesser(m.run, StreamMax)) /\ rret' = "OK"
                 /\ Goes("fill", cmd.filled, cmd.fsec, Lesser(m.run, StreamMax), 0, TRUE)
                 /\ cmd'.passed = cmd.passed /\ (faulty => faulty') /\ UNCHANGED <<present, mem>>
              \/ Stays("fail") /\ cmd'.passed = FALSE /\ rs' = ClosedRead /\ faulty' = TRUE /\ UNCHANGED <<present, mem>>
  BY MapRunIs
<1>6. m.run \in 0..Rest /\ Rest \in Int BY <1>2, <1>4, <1>5 DEF LunTells
<1>7. RsRec(ClosedRead) /\ ClosedRead.lba = 0 /\ ClosedRead.total = 0 /\ ClosedRead.pushed = 0 /\ ClosedRead.verified = 0
      /\ ClosedRead.open = FALSE /\ ClosedRead.started = FALSE /\ ClosedRead.multi = FALSE
  BY DEF ClosedRead, RsRec
<1>8. CASE Stays("fail") /\ (rs' = rs \/ rs' = ClosedRead)
  <2>1. cmd'.pc = "fail" /\ cmd'.open = cmd.open /\ cmd'.filled = cmd.filled /\ cmd'.fsec = cmd.fsec
        /\ cmd'.seg = cmd.seg /\ cmd'.segDone = cmd.segDone
    BY <1>8 DEF Stays, Goes
  <2>2. CommandTyped' BY <1>2, <2>1 DEF CommandTyped, InChunk
  <2>3. StreamTyped' /\ ToldToStop' /\ CardAt'
    <3>1. CASE rs' = rs BY <1>1, <3>1, SameStream DEF SInv
    <3>2. CASE rs' = ClosedRead
      <4>1. rs'.open \in BOOLEAN /\ rs'.started \in BOOLEAN /\ rs'.multi \in BOOLEAN BY <1>7, <3>2, Zenon
      <4>2. RsRec(rs') /\ rs'.lba \in Nat /\ rs'.total \in Nat /\ rs'.pushed \in Nat /\ rs'.verified \in Nat BY <1>7, <3>2
      <4>3. StreamTyped' BY <1>1, <1>3, <4>1, <4>2 DEF StreamTyped
      <4>4. ToldToStop' /\ CardAt' BY <1>1, <1>3, <1>7, <3>2 DEF ToldToStop, CardAt
      <4>5. QED BY <4>3, <4>4
    <3>3. QED BY <1>8, <3>1, <3>2
  <2>4. Pushing' /\ Segment' BY <1>1, <1>3, <1>7, <1>8, <2>1 DEF Pushing, Segment, PieceIn
  <2>5. QED BY <2>2, <2>3, <2>4 DEF SInv
<1>9. CASE /\ m.run # 0 /\ UNCHANGED <<rs, rret>>
           /\ LET z == Lesser(m.run, Chunk - cmd.filled)
              IN Goes("fill", cmd.filled + z, cmd.fsec + z, cmd.seg, cmd.segDone, cmd.open)
  <2> DEFINE z == Lesser(m.run, Chunk - cmd.filled)
  <2>1. z \in Nat /\ z <= Chunk - cmd.filled
    <3>1. Chunk - cmd.filled \in Nat /\ m.run \in Nat BY <1>1, <1>2, <1>6
    <3>2. QED BY <3>1 DEF Lesser
  <2>2. /\ Chunk' = Chunk /\ cmd'.pc = "fill" /\ cmd'.open = cmd.open /\ cmd'.filled = cmd.filled + z
        /\ cmd'.fsec = cmd.fsec + z /\ cmd'.seg = cmd.seg /\ cmd'.segDone = cmd.segDone
    BY <1>9, Along
  <2> HIDE DEF z
  <2>3. CommandTyped' BY <1>2, <2>1, <2>2 DEF CommandTyped
  <2>4. StreamTyped' /\ ToldToStop' /\ CardAt' BY <1>1, <1>9, SameStream DEF SInv
  <2>5. Pushing' /\ Segment' BY <1>1, <1>3, <1>9, <2>2 DEF Pushing, Segment, PieceIn
  <2>6. QED BY <2>3, <2>4, <2>5 DEF SInv
<1>10. CASE /\ m.run # 0 /\ m.sd \in Nat /\ ToRead(rs', m.sd, Lesser(m.run, StreamMax)) /\ rret' = "OK"
            /\ Goes("fill", cmd.filled, cmd.fsec, Lesser(m.run, StreamMax), 0, TRUE)
  <2> DEFINE run == Lesser(m.run, StreamMax)
  <2>1. run \in Nat \ {0} /\ run <= Rest
    <3>1. m.run \in Nat \ {0} BY <1>6, <1>10
    <3>2. QED BY <1>6, <3>1, CommandAssumption DEF Lesser
  <2>2. /\ Chunk' = Chunk /\ cmd'.pc = "fill" /\ cmd'.open = TRUE /\ cmd'.filled = cmd.filled
        /\ cmd'.fsec = cmd.fsec /\ cmd'.seg = run /\ cmd'.segDone = 0 /\ Rest' = cmd.bytes - cmd.sent - cmd.filled
    <3>1. Goes("fill", cmd.filled, cmd.fsec, run, 0, TRUE) BY <1>10
    <3> HIDE DEF run
    <3>2. QED BY <3>1 DEF Goes, Chunk, Rest, Filled
  <2>3. ToRead(rs', m.sd, run) BY <1>10
  <2> HIDE DEF run
  <2>4. CommandTyped'
    <3>1. cmd'.open \in BOOLEAN BY <2>2, Zenon
    <3>2. QED BY <1>1, <1>2, <2>1, <2>2, <3>1 DEF CommandTyped
  <2>5. StreamTyped'
    <3>1. rs'.open \in BOOLEAN /\ rs'.started \in BOOLEAN BY <2>3, Zenon DEF ToRead
    <3>2. RsRec(rs') /\ rs'.lba \in Nat /\ rs'.total \in Nat /\ rs'.multi \in BOOLEAN /\ rs'.pushed \in Nat /\ rs'.verified \in Nat
      BY <1>10, <2>1, <2>3 DEF ToRead
    <3>3. QED BY <1>1, <1>3, <3>1, <3>2 DEF StreamTyped
  <2>6. ToldToStop' /\ CardAt' BY <1>1, <1>3, <2>3 DEF ToldToStop, CardAt, ToRead
  <2>7. Rest' = Rest BY <1>4, <2>2
  <2>8. Pushing' BY <1>1 DEF Pushing
  <2>9. Segment' BY <1>1, <2>1, <2>2, <2>3, <2>7 DEF Segment, PieceIn, ToRead
  <2>10. QED BY <2>4, <2>5, <2>6, <2>8, <2>9 DEF SInv
<1>11. QED BY <1>5, <1>8, <1>9, <1>10

LEMMA ReadPieceStream == ASSUME RInv, SInv, ReadPiece PROVE SInv'
<1>1. /\ cmd.pc = "fill" /\ io.pc = "idle" /\ cmd.filled < Chunk /\ cmd.open /\ Stays("read")
      /\ rs' = rs /\ line' = line /\ rret' = rret
      /\ IoRec(io') /\ io'.pc = "loop" /\ io'.buf = cmd.idx /\ io'.at = cmd.filled /\ io'.cnt = Piece
      /\ io'.before = rs.pushed
  BY ReadPieceIs
<1>2. /\ Chunk' = Chunk /\ cmd'.pc = "read" /\ cmd'.filled = cmd.filled /\ cmd'.fsec = cmd.fsec /\ cmd'.seg = cmd.seg
      /\ cmd'.segDone = cmd.segDone /\ cmd'.open = cmd.open /\ cmd'.idx = cmd.idx
      /\ Rest' = cmd.bytes - cmd.sent - cmd.filled /\ Piece' = Lesser(Chunk - cmd.filled, cmd.seg - cmd.segDone)
  BY <1>1 DEF Stays, Goes, Chunk, Rest, Filled, Piece
<1>3. Rest' = Rest /\ Piece' = Piece BY <1>1, <1>2 DEF Rest, Filled, Piece
<1>4. CommandTyped' BY <1>1, <1>2 DEF SInv, CommandTyped, InChunk
<1>5. StreamTyped' BY <1>1 DEF SInv, StreamTyped
<1>6. ToldToStop' /\ CardAt' BY <1>1 DEF SInv, ToldToStop, CardAt
<1>7. Pushing' /\ Segment' BY <1>1, <1>2, <1>3 DEF SInv, Pushing, Segment, PieceIn
<1>8. QED BY <1>4, <1>5, <1>6, <1>7 DEF SInv

LEMMA EndReadIs ==
  ASSUME StreamTyped, EndRead, rs.pushed = rs.total, line.mode = "data" => rs.multi
  PROVE  /\ Stream(rs', FALSE, FALSE, rs.verified, rs.verified) /\ rs'.multi = rs.multi /\ io' = io
         /\ LineRec(line') /\ line'.at \in Nat /\ line'.mode # "data"
         /\ (faulty => faulty') /\ (rret' # "OK" => faulty')
<1>1. rs' = AbortedRead /\ io' = io BY DEF EndRead
<1>2. Stream(rs', FALSE, FALSE, rs.verified, rs.verified) /\ rs'.multi = rs.multi BY <1>1, AbortedIs
<1>3. LineRec(line) /\ line.at \in Nat BY DEF StreamTyped
<1>4. LineRec(Quiet) /\ Quiet.mode = "tran" /\ Quiet.at = 0 BY DEF Quiet, LineRec
<1>5. \/ /\ line' = IF rs.multi THEN Quiet ELSE line
         /\ rret' = "OK" /\ UNCHANGED faulty
      \/ StopReading(TRUE) /\ rret' = "TIMEOUT" /\ faulty' = TRUE
  BY DEF EndRead
<1>6. LineRec(line') /\ line'.at \in Nat /\ line'.mode # "data"
  <2>1. CASE StopReading(TRUE) BY <2>1, Stopped
  <2>2. CASE line' = IF rs.multi THEN Quiet ELSE line BY <1>3, <1>4, <2>2
  <2>3. QED BY <1>5, <2>1, <2>2
<1>7. (faulty => faulty') /\ (rret' # "OK" => faulty')
  <2>1. CASE rret' = "OK" /\ UNCHANGED faulty BY <2>1
  <2>2. CASE faulty' = TRUE BY <2>2
  <2>3. QED BY <1>5, <2>1, <2>2
<1>8. QED BY <1>1, <1>2, <1>6, <1>7

LEMMA PieceReadStream == ASSUME RInv, SInv, PieceRead PROVE SInv'
<1>1. cmd.pc = "read" /\ io.pc = "idle" /\ io' = io BY PieceReadIs
<1>2. /\ cmd.bytes \in Nat /\ cmd.sent \in Nat /\ cmd.filled \in Nat /\ cmd.fsec \in Nat /\ cmd.seg \in Nat
      /\ cmd.segDone \in Nat /\ cmd.open \in BOOLEAN /\ Chunk \in Nat /\ Piece \in Int
      /\ Piece <= Chunk - cmd.filled /\ Piece <= cmd.seg - cmd.segDone
      /\ (Piece = Chunk - cmd.filled \/ Piece = cmd.seg - cmd.segDone) /\ cmd.filled < Chunk /\ cmd.segDone < cmd.seg
      /\ Rest = cmd.bytes - cmd.sent - cmd.filled /\ cmd.seg - cmd.segDone <= Rest /\ cmd.open
  BY <1>1, CommandCounts DEF SInv, CommandTyped, Segment, Rest, Filled
<1>3. Piece \in Nat BY <1>2
<1>4. StreamTyped BY DEF SInv
<1>5. CASE rret # "OK" /\ Goes("fail", cmd.filled, cmd.fsec, cmd.seg, cmd.segDone, FALSE) /\ UNCHANGED readVars
  <2>1. ~rs.open BY <1>1, <1>5 DEF SInv, Segment
  <2>2. cmd'.pc = "fail" /\ ~cmd'.open /\ cmd'.open \in BOOLEAN /\ cmd'.filled = cmd.filled /\ cmd'.fsec = cmd.fsec /\ cmd'.seg = cmd.seg
        /\ cmd'.segDone = cmd.segDone
    <3>1. cmd'.open = FALSE BY <1>5 DEF Goes
    <3>2. cmd'.open \in BOOLEAN BY <3>1, Zenon
    <3>3. QED BY <1>5, <3>1, <3>2 DEF Goes
  <2>3. rs' = rs /\ line' = line /\ rret' = rret BY <1>5 DEF readVars
  <2>4. StreamTyped' /\ ToldToStop' /\ CardAt' BY <1>1, <2>3, SameStream DEF SInv
  <2>5. CommandTyped' BY <1>2, <2>2 DEF CommandTyped, InChunk
  <2>6. Pushing' /\ Segment' BY <1>1, <2>1, <2>2, <2>3 DEF Pushing, Segment, PieceIn
  <2>7. QED BY <2>4, <2>5, <2>6 DEF SInv
<1>6. CASE /\ rret = "OK" /\ cmd.segDone + Piece < cmd.seg
           /\ Goes("fill", cmd.filled + Piece, cmd.fsec + Piece, cmd.seg, cmd.segDone + Piece, cmd.open)
           /\ UNCHANGED readVars
  <2>1. /\ Chunk' = Chunk /\ cmd'.pc = "fill" /\ cmd'.open = cmd.open /\ cmd'.filled = cmd.filled + Piece
        /\ cmd'.fsec = cmd.fsec + Piece /\ cmd'.seg = cmd.seg /\ cmd'.segDone = cmd.segDone + Piece
        /\ Rest' = cmd.bytes - cmd.sent - (cmd.filled + Piece)
    BY <1>6 DEF Goes, Chunk, Rest, Filled
  <2>2. rs' = rs /\ line' = line /\ rret' = rret BY <1>6 DEF readVars
  <2>3. rs.open /\ rs.total = cmd.seg /\ rs.pushed = cmd.segDone + Piece /\ rs.verified = rs.pushed
    BY <1>1, <1>2, <1>6 DEF SInv, Segment, PieceIn
  <2>4. StreamTyped' /\ ToldToStop' /\ CardAt' BY <1>1, <2>2, SameStream DEF SInv
  <2>5. CommandTyped' BY <1>2, <1>3, <2>1 DEF CommandTyped
  <2>6. Rest' = Rest - Piece BY <1>2, <2>1
  <2>7. Pushing' BY <1>1 DEF Pushing
  <2>8. Segment' BY <1>1, <1>2, <1>3, <1>6, <2>1, <2>2, <2>3, <2>6 DEF Segment, PieceIn
  <2>9. QED BY <2>4, <2>5, <2>7, <2>8 DEF SInv
<1>7. CASE /\ rret = "OK" /\ ~(cmd.segDone + Piece < cmd.seg)
           /\ Goes("end", cmd.filled + Piece, cmd.fsec + Piece, cmd.seg, cmd.segDone + Piece, FALSE)
           /\ EndRead
  <2>1. /\ Chunk' = Chunk /\ cmd'.pc = "end" /\ ~cmd'.open /\ cmd'.open \in BOOLEAN /\ cmd'.filled = cmd.filled + Piece
        /\ cmd'.fsec = cmd.fsec + Piece /\ cmd'.seg = cmd.seg /\ cmd'.segDone = cmd.segDone + Piece
    <3>1. cmd'.open = FALSE BY <1>7 DEF Goes
    <3>2. cmd'.open \in BOOLEAN BY <3>1, Zenon
    <3>3. QED BY <1>7, <3>1, <3>2 DEF Goes, Chunk
  <2>2. rs.open /\ rs.total = cmd.seg /\ rs.pushed = cmd.segDone + Piece
    BY <1>1, <1>2, <1>7 DEF SInv, Segment, PieceIn
  <2>3. rs.pushed = rs.total BY <1>2, <1>7, <2>2
  <2>4. /\ Stream(rs', FALSE, FALSE, rs.verified, rs.verified) /\ rs'.multi = rs.multi
        /\ LineRec(line') /\ line'.at \in Nat /\ line'.mode # "data"
    BY <1>4, <1>7, <2>3, EndReadIs DEF SInv, ToldToStop
  <2>5. StreamTyped'
    <3>1. rs'.open \in BOOLEAN /\ rs'.started \in BOOLEAN BY <2>4, Zenon DEF Stream
    <3>2. RsRec(rs') /\ rs'.lba \in Nat /\ rs'.total \in Nat /\ rs'.multi \in BOOLEAN /\ rs'.pushed \in Nat /\ rs'.verified \in Nat
      BY <1>4, <2>4 DEF Stream, StreamTyped
    <3>3. QED BY <1>1, <1>4, <2>4, <3>1, <3>2 DEF StreamTyped
  <2>6. CommandTyped' BY <1>2, <1>3, <2>1 DEF CommandTyped
  <2>7. ToldToStop' /\ CardAt' BY <1>1, <2>4 DEF ToldToStop, CardAt, Stream
  <2>8. Pushing' /\ Segment' BY <1>1, <2>1, <2>4 DEF Pushing, Segment, PieceIn, Stream
  <2>9. QED BY <2>5, <2>6, <2>7, <2>8 DEF SInv
<1>8. QED BY <1>5, <1>6, <1>7, PieceReadIs

LEMMA RunEndedStream == ASSUME RInv, SInv, RunEnded \/ Fail PROVE SInv'
<1>1. /\ cmd.pc \in {"end", "fail"} /\ io.pc = "idle" /\ rs' = rs /\ io' = io /\ line' = line /\ rret' = rret /\ ~cmd.open
      /\ cmd'.pc \in {"fill", "fail", "drain"} /\ (cmd.pc = "fail" => cmd'.pc = "drain")
      /\ cmd'.filled = cmd.filled /\ cmd'.fsec = cmd.fsec /\ cmd'.seg = cmd.seg /\ cmd'.segDone = cmd.segDone
      /\ cmd'.open = cmd.open /\ Chunk' = Chunk
  <2>1. CASE RunEnded
    <3>1. cmd.pc = "end" /\ (Stays("fill") \/ Stays("fail")) BY <2>1, RunEndedIs
    <3>2. ~cmd.open BY <3>1 DEF SInv, Segment
    <3>3. io.pc = "idle" /\ rs' = rs /\ io' = io /\ line' = line /\ rret' = rret BY <2>1, RunEndedIs DEF readVars
    <3>4. QED BY <3>1, <3>2, <3>3 DEF Stays, Goes, Chunk
  <2>2. CASE Fail
    <3>1. cmd.pc = "fail" /\ ~cmd.open /\ Goes("drain", cmd.filled, cmd.fsec, cmd.seg, cmd.segDone, FALSE) BY <2>2, FailIs
    <3>2. io.pc = "idle" /\ rs' = rs /\ io' = io /\ line' = line /\ rret' = rret BY <2>2, FailIs DEF readVars
    <3>3. cmd.open = FALSE BY <3>1 DEF SInv, CommandTyped
    <3>4. cmd'.open = cmd.open BY <3>1, <3>3 DEF Goes
    <3>5. QED BY <3>1, <3>2, <3>4 DEF Goes, Chunk
  <2>3. QED BY <2>1, <2>2
<1>2. StreamTyped' /\ ToldToStop' /\ CardAt' BY <1>1, SameStream DEF SInv
<1>3. CommandTyped' BY <1>1 DEF SInv, CommandTyped, InChunk
<1>4. Pushing' /\ Segment' BY <1>1 DEF SInv, Pushing, Segment, PieceIn
<1>5. QED BY <1>2, <1>3, <1>4 DEF SInv

LEMMA QueueStream == ASSUME RInv, SInv, Queue PROVE SInv'
<1>1. /\ cmd.pc = "fill" /\ io.pc = "idle" /\ rs' = rs /\ io' = io /\ line' = line /\ rret' = rret /\ cmd.filled = Chunk
      /\ cmd'.pc = "wait" /\ cmd'.filled = cmd.filled /\ cmd'.fsec = cmd.fsec /\ cmd'.seg = cmd.seg
      /\ cmd'.segDone = cmd.segDone /\ cmd'.open = cmd.open /\ cmd'.bytes = cmd.bytes /\ cmd'.sent = cmd.sent + Chunk
  BY QueueIs DEF readVars
<1>2. /\ cmd.bytes \in Nat /\ cmd.sent \in Nat /\ cmd.filled \in Nat BY CommandCounts DEF SInv
<1>3. Rest = cmd.bytes - cmd.sent - cmd.filled /\ Rest' = cmd.bytes - (cmd.sent + cmd.filled) - 0 BY <1>1 DEF Rest, Filled
<1>4. Rest' = Rest BY <1>2, <1>3
<1>5. StreamTyped' /\ ToldToStop' /\ CardAt' BY <1>1, SameStream DEF SInv
<1>6. CommandTyped' BY <1>1 DEF SInv, CommandTyped, InChunk
<1>7. Pushing' /\ Segment' BY <1>1, <1>4 DEF SInv, Pushing, Segment, PieceIn
<1>8. QED BY <1>5, <1>6, <1>7 DEF SInv

LEMMA IdleFields ==
  /\ IdleCmd.pc = "idle" /\ IdleCmd.bytes = 0 /\ IdleCmd.sent = 0 /\ IdleCmd.filled = 0 /\ IdleCmd.fsec = 0 /\ IdleCmd.seg = 0
  /\ IdleCmd.segDone = 0 /\ ~IdleCmd.open /\ IdleCmd.open \in BOOLEAN /\ IdleCmd.passed
<1>1. ASSUME NEW c, c = IdleCmd
      PROVE  /\ c.pc = "idle" /\ c.bytes = 0 /\ c.sent = 0 /\ c.filled = 0 /\ c.fsec = 0 /\ c.seg = 0 /\ c.segDone = 0
             /\ c.open = FALSE /\ c.passed = TRUE
  BY <1>1 DEF IdleCmd
<1>2. IdleCmd.open = FALSE /\ IdleCmd.passed = TRUE BY <1>1
<1>3. IdleCmd.open \in BOOLEAN /\ ~IdleCmd.open /\ IdleCmd.passed BY <1>2, Zenon
<1>4. QED BY <1>1, <1>3

LEMMA ClosedFields ==
  /\ RsRec(ClosedRead) /\ ClosedRead.lba = 0 /\ ClosedRead.total = 0 /\ ClosedRead.pushed = 0 /\ ClosedRead.verified = 0
  /\ ClosedRead.open \in BOOLEAN /\ ClosedRead.started \in BOOLEAN /\ ClosedRead.multi \in BOOLEAN
  /\ ~ClosedRead.open /\ ~ClosedRead.started
<1>1. /\ RsRec(ClosedRead) /\ ClosedRead.lba = 0 /\ ClosedRead.total = 0 /\ ClosedRead.pushed = 0 /\ ClosedRead.verified = 0
      /\ ClosedRead.open = FALSE /\ ClosedRead.started = FALSE /\ ClosedRead.multi = FALSE
  BY DEF ClosedRead, RsRec
<1>2. /\ ClosedRead.open \in BOOLEAN /\ ClosedRead.started \in BOOLEAN /\ ClosedRead.multi \in BOOLEAN
  BY <1>1, Zenon
<1>3. QED BY <1>1, <1>2

(* A command under way, or none: its stream is closed.                      *)
LEMMA ClosedStream ==
  ASSUME StreamTyped, LineRec(line'), line'.at \in Nat, line'.mode # "data", rs' = ClosedRead, UNCHANGED io
  PROVE  StreamTyped' /\ ToldToStop'
<1>1. StreamTyped' BY ClosedFields DEF StreamTyped
<1>2. ToldToStop' BY ClosedFields DEF ToldToStop
<1>3. QED BY <1>1, <1>2

LEMMA FinishStream == ASSUME RInv, SInv, Finish \/ Abandoned PROVE SInv'
<1>1. io.pc = "idle" /\ cmd' = IdleCmd /\ rs' = ClosedRead /\ io' = io
  BY DEF Finish, Abandoned, Waits, At, Return
<1>2. LineRec(line') /\ line'.at \in Nat /\ line'.mode # "data"
  <2>1. CASE Finish
    <3>1. cmd.pc = "drain" /\ line' = line BY <2>1 DEF Finish, At
    <3>2. ~rs.open BY <3>1 DEF SInv, Segment
    <3>3. QED BY <3>1, <3>2 DEF SInv, StreamTyped, ToldToStop
  <2>2. CASE Abandoned
    <3>1. StopReading(cmd.open /\ rs.started) BY <2>2 DEF Abandoned, StreamAbandoned
    <3>2. line.mode = "data" => cmd.open /\ rs.started BY DEF SInv, ToldToStop, Segment
    <3> DEFINE w == cmd.open /\ rs.started
    <3>3. StreamTyped /\ StopReading(w) BY <3>1 DEF SInv
    <3> HIDE DEF w
    <3>4. /\ LineRec(line') /\ line'.at \in Nat
          /\ (w => line'.mode # "data") /\ (line'.mode = "data" => line.mode = "data")
      BY <3>3, Stopped
    <3>5. QED BY <3>2, <3>4 DEF w
  <2>3. QED BY <2>1, <2>2
<1>3. StreamTyped' /\ ToldToStop' BY <1>1, <1>2, ClosedStream DEF SInv
<1>4. CommandTyped' BY <1>1, IdleFields DEF CommandTyped, InChunk
<1>5. CardAt' BY <1>1, ClosedFields DEF CardAt
<1>6. Pushing' BY <1>1 DEF Pushing
<1>7. Segment' BY <1>1, IdleFields, ClosedFields DEF Segment, PieceIn
<1>8. QED BY <1>3, <1>4, <1>5, <1>6, <1>7 DEF SInv

LEMMA IssueIs ==
  ASSUME NEW l \in {"sd", "dvd", "disk"}, NEW lba \in Starts, NEW c \in CmdLens, Issue(l, lba, c[1], c[2])
  PROVE  LET bs == BlockSize(l)
         IN /\ cmd.pc = "idle" /\ io.pc = "idle" /\ (l = "sd" \/ (img_cur.mounted /\ l = ImageLun))
            /\ txq' = <<>> /\ moved' = FALSE /\ UNCHANGED <<mapVars, rs, io, rret, present, slow, line, mem>>
            /\ bs \in Nat /\ lba * bs \in Nat /\ host'.lun = l /\ host'.first = lba * bs /\ host'.got = <<>>
            /\ \/ cmd' = cmd /\ faulty' = faulty /\ host'.status = "refused"
               \/ /\ present /\ lba + c[1] <= SizeOf(l) /\ faulty' = FALSE /\ host'.status = "pending"
                  /\ CmdRec(cmd') /\ cmd'.pc = "wait" /\ cmd'.lun = l /\ cmd'.bytes = Bytes(c[1], bs, c[2]) /\ cmd'.fsec = lba * bs
                  /\ cmd'.sent = 0 /\ cmd'.filled = 0 /\ cmd'.seg = 0 /\ cmd'.segDone = 0 /\ ~cmd'.open
                  /\ cmd'.open \in BOOLEAN /\ cmd'.passed
<1> DEFINE bs == BlockSize(l)
           v == lba * bs
           n == c[1] * bs
           b == Bytes(c[1], bs, c[2])
           w == c[2]
           h == [NoCommand EXCEPT !.lun = l, !.first = v, !.n = n, !.want = w]
<1>1. bs \in Nat /\ v \in Nat
  <2>1. bs \in Nat BY DEF BlockSize, IsoSectors
  <2>2. lba \in Nat BY CommandAssumption
  <2>3. QED BY <2>1, <2>2
<1>2. /\ cmd.pc = "idle" /\ io.pc = "idle" /\ (l = "sd" \/ (img_cur.mounted /\ l = ImageLun))
      /\ txq' = <<>> /\ moved' = FALSE /\ UNCHANGED <<mapVars, rs, io, rret, present, slow, line, mem>>
      /\ \/ host' = [h EXCEPT !.status = "refused", !.residue = w] /\ UNCHANGED <<cmd, faulty>>
         \/ /\ present /\ lba + c[1] <= SizeOf(l)
            /\ host' = [h EXCEPT !.status = "pending"]
            /\ cmd' = [IdleCmd EXCEPT !.pc = "wait", !.lun = l, !.bytes = b, !.fsec = v]
            /\ faulty' = FALSE
  BY DEF Issue, At
<1>3. HostRec(h) /\ h.lun = l /\ h.first = v /\ h.got = <<>>
  <2> HIDE DEF v, n, w
  <2>1. ASSUME NEW p, p = [NoCommand EXCEPT !.lun = l],
               NEW q, q = [p EXCEPT !.first = v],
               NEW r, r = [q EXCEPT !.n = n],
               NEW s, s = [r EXCEPT !.want = w]
        PROVE  HostRec(s) /\ s.lun = l /\ s.first = v /\ s.got = <<>>
    <3>1. HostRec(p) /\ p.lun = l /\ p.got = <<>> BY <2>1 DEF NoCommand, HostRec
    <3>2. HostRec(q) /\ q.lun = l /\ q.got = <<>> /\ q.first = v BY <2>1, <3>1 DEF HostRec
    <3>3. HostRec(r) /\ r.lun = l /\ r.got = <<>> /\ r.first = v BY <2>1, <3>2 DEF HostRec
    <3>4. QED BY <2>1, <3>3 DEF HostRec
  <2> DEFINE p == [NoCommand EXCEPT !.lun = l]
             q == [p EXCEPT !.first = v]
             r == [q EXCEPT !.n = n]
             s == [r EXCEPT !.want = w]
  <2>2. h = s BY Zenon DEF h, p, q, r, s
  <2>3. p = [NoCommand EXCEPT !.lun = l] /\ q = [p EXCEPT !.first = v] /\ r = [q EXCEPT !.n = n] /\ s = [r EXCEPT !.want = w]
    OBVIOUS
  <2> HIDE DEF h, p, q, r, s
  <2>4. HostRec(s) /\ s.lun = l /\ s.first = v /\ s.got = <<>> BY <2>1, <2>3
  <2>5. QED BY <2>2, <2>4
<1> HIDE DEF bs, v, n, b, w, h
<1>4. host'.lun = l /\ host'.first = v /\ host'.got = <<>> BY <1>2, <1>3 DEF HostRec
<1>5. CASE host' = [h EXCEPT !.status = "refused", !.residue = w] /\ UNCHANGED <<cmd, faulty>>
  <2>1. host'.status = "refused" BY <1>3, <1>5 DEF HostRec
  <2>2. QED BY <1>1, <1>2, <1>4, <1>5, <2>1 DEF bs, v
<1>6. CASE /\ present /\ lba + c[1] <= SizeOf(l)
           /\ host' = [h EXCEPT !.status = "pending"]
           /\ cmd' = [IdleCmd EXCEPT !.pc = "wait", !.lun = l, !.bytes = b, !.fsec = v]
           /\ faulty' = FALSE
  <2>1. host'.status = "pending" BY <1>3, <1>6 DEF HostRec
  <2>2. /\ CmdRec(cmd') /\ cmd'.pc = "wait" /\ cmd'.lun = l /\ cmd'.bytes = b /\ cmd'.fsec = v
        /\ cmd'.sent = 0 /\ cmd'.filled = 0 /\ cmd'.seg = 0 /\ cmd'.segDone = 0 /\ ~cmd'.open
        /\ cmd'.open \in BOOLEAN /\ cmd'.passed
    <3> DEFINE p == [IdleCmd EXCEPT !.pc = "wait"]
               q == [p EXCEPT !.lun = l]
               r == [q EXCEPT !.bytes = b]
               s == [r EXCEPT !.fsec = v]
    <3>2. cmd' = s BY <1>6, Zenon
    <3>3. p = [IdleCmd EXCEPT !.pc = "wait"] /\ q = [p EXCEPT !.lun = l] /\ r = [q EXCEPT !.bytes = b] /\ s = [r EXCEPT !.fsec = v]
      OBVIOUS
    <3> HIDE DEF p, q, r, s
    <3>4. /\ CmdRec(s) /\ s.pc = "wait" /\ s.lun = l /\ s.bytes = b /\ s.fsec = v
          /\ s.sent = 0 /\ s.filled = 0 /\ s.seg = 0 /\ s.segDone = 0 /\ s.open = IdleCmd.open /\ s.passed = IdleCmd.passed
      <4> DEFINE Kept(x) == /\ CmdRec(x) /\ x.sent = 0 /\ x.filled = 0 /\ x.seg = 0 /\ x.segDone = 0
                            /\ x.open = IdleCmd.open /\ x.passed = IdleCmd.passed
      <4>1. Kept(IdleCmd) BY IdleFields, NothingAsked
      <4>2. Kept(p) /\ p.pc = "wait" BY <3>3, <4>1 DEF CmdRec
      <4>3. Kept(q) /\ q.pc = "wait" /\ q.lun = l BY <3>3, <4>2 DEF CmdRec
      <4>4. Kept(r) /\ r.pc = "wait" /\ r.lun = l /\ r.bytes = b BY <3>3, <4>3 DEF CmdRec
      <4>5. QED BY <3>3, <4>4 DEF CmdRec
    <3>5. QED BY <3>2, <3>4, IdleFields
  <2>3. QED BY <1>1, <1>2, <1>4, <1>6, <2>1, <2>2 DEF bs, v, b, w
<1>7. QED BY <1>2, <1>5, <1>6

LEMMA IssueStream ==
  ASSUME RInv, SInv, NEW l \in {"sd", "dvd", "disk"}, NEW lba \in Starts, NEW c \in CmdLens, Issue(l, lba, c[1], c[2])
  PROVE  SInv'
<1>1. /\ cmd.pc = "idle" /\ io.pc = "idle" /\ rs' = rs /\ io' = io /\ rret' = rret /\ line' = line BY IssueIs
<1>2. ~rs.open /\ ~cmd.open BY <1>1 DEF SInv, Segment
<1>3. StreamTyped' /\ ToldToStop' /\ CardAt' BY <1>1, SameStream DEF SInv
<1>4. \/ cmd' = cmd
      \/ /\ cmd'.pc = "wait" /\ cmd'.fsec \in Nat /\ cmd'.filled = 0 /\ cmd'.seg = 0 /\ cmd'.segDone = 0 /\ ~cmd'.open
         /\ cmd'.open \in BOOLEAN
  BY IssueIs
<1>5. CommandTyped' BY <1>1, <1>4 DEF SInv, CommandTyped, InChunk
<1>6. Pushing' BY <1>1 DEF Pushing
<1>7. Segment' BY <1>1, <1>2, <1>4 DEF Segment, PieceIn
<1>8. QED BY <1>3, <1>5, <1>6, <1>7 DEF SInv

LEMMA AsideStream ==
  ASSUME RInv, SInv, HostTakes \/ Reset \/ Mounts \/ UNCHANGED vars
  PROVE  SInv'
<1>1. /\ cmd' = cmd /\ rs' = rs /\ io' = io /\ rret' = rret
      /\ (line' = line \/ (line' = Quiet /\ cmd.pc = "idle" /\ io.pc = "idle"))
  BY DEF HostTakes, Reset, Mounts, Unmoved, readVars, vars, At
<1>2. Piece' = Piece /\ Chunk' = Chunk /\ Rest' = Rest BY <1>1, SameCommand
<1>3. LineRec(Quiet) /\ Quiet.mode = "tran" /\ Quiet.at = 0 BY DEF Quiet, LineRec
<1>4. StreamTyped' /\ ToldToStop' /\ CardAt'
  <2>1. CASE line' = line BY <1>1, <2>1, SameStream DEF SInv
  <2>2. CASE line' = Quiet /\ cmd.pc = "idle" /\ io.pc = "idle"
    <3>1. ~rs.open /\ ~rs.started BY <2>2 DEF SInv, Segment, ToldToStop
    <3>2. StreamTyped' BY <1>1, <1>3, <2>2 DEF SInv, StreamTyped
    <3>3. ToldToStop' /\ CardAt' BY <1>1, <1>3, <2>2, <3>1 DEF ToldToStop, CardAt
    <3>4. QED BY <3>2, <3>3
  <2>3. QED BY <1>1, <2>1, <2>2
<1>5. CommandTyped' /\ Pushing' /\ Segment' BY <1>1, <1>2 DEF SInv, CommandTyped, Pushing, Segment, PieceIn
<1>6. QED BY <1>4, <1>5 DEF SInv

---------------------------------------------------------------------------
(* A command fails only on a fault.                                         *)
FaultsButHost ==
  /\ cmd.pc # "idle" /\ ~present => faulty
  /\ ~cmd.passed => faulty
  /\ io.pc = "recover" => faulty
  /\ cmd.pc = "read" /\ io.pc = "idle" /\ rret # "OK" => faulty
  /\ cmd.pc = "end" /\ rret # "OK" => faulty

LEMMA FaultsFrom ==
  ASSUME Faults, FaultsButHost', host' = host, faulty => faulty'
  PROVE  Faults'
BY DEF Faults, FaultsButHost, FailsOnlyOnFault

LEMMA DriverFaults == ASSUME RInv, SInv, Faults, Driver \/ Pulled PROVE Faults'
<1>1. cmd' = cmd /\ host' = host BY DEF Driver, Pulled
<1>2. StreamTyped BY DEF SInv
<1>3. CASE StartChunk
  <2>1. \/ /\ io.pc = "loop" /\ rret' = rret /\ io'.pc = "dma" /\ present' = present /\ faulty' = faulty
        \/ faulty' = TRUE
    BY <1>2, <1>3, StartChunkIs DEF Push
  <2>2. (faulty => faulty') /\ FaultsButHost' BY <1>1, <2>1 DEF Faults, FaultsButHost
  <2>3. QED BY <1>1, <2>2, FaultsFrom
<1>4. CASE ChunkRead
  <2>1. rret' = "OK" /\ io' = NoPush /\ present' = present /\ faulty' = faulty BY <1>2, <1>4, ChunkReadIs
  <2>2. (faulty => faulty') /\ FaultsButHost' BY <1>1, <2>1 DEF Faults, FaultsButHost, NoPush
  <2>3. QED BY <1>1, <2>2, FaultsFrom
<1>5. CASE ChunkFails
  <2>1. faulty' = TRUE BY <1>2, <1>5, ChunkFailsIs
  <2>2. (faulty => faulty') /\ FaultsButHost' BY <2>1 DEF FaultsButHost
  <2>3. QED BY <1>1, <2>2, FaultsFrom
<1>6. CASE RecoverRead
  <2>1. faulty /\ faulty' = faulty BY <1>2, <1>6, RecoverReadIs DEF Faults
  <2>2. (faulty => faulty') /\ FaultsButHost' BY <2>1 DEF FaultsButHost
  <2>3. QED BY <1>1, <2>2, FaultsFrom
<1>7. CASE PullCard
  <2>1. io' = io /\ rret' = rret /\ present' = present /\ faulty' = faulty BY <1>7 DEF PullCard
  <2>2. (faulty => faulty') /\ FaultsButHost' BY <1>1, <2>1 DEF Faults, FaultsButHost
  <2>3. QED BY <1>1, <2>2, FaultsFrom
<1>8. QED BY <1>3, <1>4, <1>5, <1>6, <1>7 DEF Driver, Pulled, StreamStep

LEMMA CommandFaults ==
  ASSUME RInv, SInv, Faults, MapInv, InRange, WaitBuffer \/ MapRun \/ ReadPiece \/ PieceRead \/ RunEnded \/ Queue \/ Fail
  PROVE  Faults'
<1>1. CASE WaitBuffer
  <2>1. /\ host' = host /\ present' = present /\ io' = io /\ rret' = rret /\ faulty' = faulty /\ cmd'.passed = cmd.passed
        /\ cmd.pc = "wait" /\ cmd'.pc \in {"drain", "fill"}
    BY <1>1, WaitBufferIs DEF readVars, Stays, Goes
  <2>2. (faulty => faulty') /\ FaultsButHost' BY <2>1 DEF Faults, FaultsButHost
  <2>3. QED BY <2>1, <2>2, FaultsFrom
<1>2. CASE MapRun
  <2>1. host' = host /\ io' = io /\ io.pc = "idle" /\ cmd.pc = "fill" BY <1>2, MapRunIs
  <2>2. \/ faulty' = TRUE
        \/ cmd'.pc = "fill" /\ cmd'.passed = cmd.passed /\ (faulty => faulty') /\ present' = present
    BY <1>2, MapRunIs DEF Goes
  <2>3. (faulty => faulty') /\ FaultsButHost' BY <2>1, <2>2 DEF Faults, FaultsButHost
  <2>4. QED BY <2>1, <2>3, FaultsFrom
<1>3. CASE ReadPiece
  <2>1. /\ host' = host /\ present' = present /\ io'.pc = "loop" /\ rret' = rret /\ faulty' = faulty /\ cmd'.passed = cmd.passed
        /\ cmd.pc = "fill" /\ cmd'.pc = "read"
    BY <1>3, ReadPieceIs DEF Stays, Goes
  <2>2. (faulty => faulty') /\ FaultsButHost' BY <2>1 DEF Faults, FaultsButHost
  <2>3. QED BY <2>1, <2>2, FaultsFrom
<1>4. CASE PieceRead
  <2>1. cmd.pc = "read" /\ io.pc = "idle" /\ host' = host /\ present' = present /\ io' = io BY <1>4, PieceReadIs
  <2>2. \/ rret # "OK" /\ faulty' = faulty
        \/ cmd'.pc = "fill" /\ cmd'.passed = cmd.passed /\ faulty' = faulty
        \/ /\ rret = "OK" /\ ~(cmd.segDone + Piece < cmd.seg) /\ cmd'.pc = "end" /\ cmd'.passed = cmd.passed /\ EndRead
    BY <1>4, PieceReadIs DEF Goes, readVars
  <2>3. (faulty => faulty') /\ FaultsButHost'
    <3>1. CASE rret # "OK" /\ faulty' = faulty BY <2>1, <3>1 DEF Faults, FaultsButHost
    <3>2. CASE cmd'.pc = "fill" /\ cmd'.passed = cmd.passed /\ faulty' = faulty BY <2>1, <3>2 DEF Faults, FaultsButHost
    <3>3. CASE /\ rret = "OK" /\ ~(cmd.segDone + Piece < cmd.seg) /\ cmd'.pc = "end" /\ cmd'.passed = cmd.passed /\ EndRead
      <4>1. rs.total = cmd.seg /\ rs.pushed = cmd.segDone + Piece /\ Piece <= cmd.seg - cmd.segDone /\ Piece \in Int
            /\ cmd.seg \in Nat /\ cmd.segDone \in Nat
        BY <2>1, <3>3, CommandCounts DEF SInv, Segment, PieceIn
      <4>2. rs.pushed = rs.total BY <3>3, <4>1
      <4>3. (faulty => faulty') /\ (rret' # "OK" => faulty') BY <3>3, <4>2, EndReadIs DEF SInv, ToldToStop
      <4>4. QED BY <2>1, <3>3, <4>3 DEF Faults, FaultsButHost
    <3>4. QED BY <2>2, <3>1, <3>2, <3>3
  <2>4. QED BY <2>1, <2>3, FaultsFrom
<1>5. CASE RunEnded
  <2>1. /\ cmd.pc = "end" /\ io.pc = "idle" /\ host' = host /\ present' = present /\ io' = io /\ rret' = rret /\ faulty' = faulty
        /\ cmd'.pc \in {"fill", "fail"} /\ (rret # "OK" \/ cmd'.passed = cmd.passed)
    BY <1>5, RunEndedIs DEF readVars, Stays, Goes
  <2>2. (faulty => faulty') /\ FaultsButHost' BY <2>1 DEF Faults, FaultsButHost
  <2>3. QED BY <2>1, <2>2, FaultsFrom
<1>6. CASE Queue
  <2>1. /\ cmd.pc = "fill" /\ io.pc = "idle" /\ host' = host /\ present' = present /\ io' = io /\ rret' = rret /\ faulty' = faulty
        /\ cmd'.pc = "wait" /\ cmd'.passed = cmd.passed
    BY <1>6, QueueIs DEF readVars
  <2>2. (faulty => faulty') /\ FaultsButHost' BY <2>1 DEF Faults, FaultsButHost
  <2>3. QED BY <2>1, <2>2, FaultsFrom
<1>7. CASE Fail
  <2>1. /\ cmd.pc = "fail" /\ io.pc = "idle" /\ host' = host /\ present' = present /\ io' = io /\ rret' = rret /\ faulty' = faulty
        /\ cmd'.pc = "drain" /\ cmd'.passed = cmd.passed
    BY <1>7, FailIs DEF readVars, Goes
  <2>2. (faulty => faulty') /\ FaultsButHost' BY <2>1 DEF Faults, FaultsButHost
  <2>3. QED BY <2>1, <2>2, FaultsFrom
<1>8. QED BY <1>1, <1>2, <1>3, <1>4, <1>5, <1>6, <1>7

LEMMA OtherFaults ==
  ASSUME RInv, SInv, Faults, Finish \/ Abandoned \/ Host \/ HostTakes \/ Reset \/ Mounts \/ UNCHANGED vars
  PROVE  Faults'
<1>1. CASE Finish \/ Abandoned
  <2>1. /\ cmd' = IdleCmd /\ io' = io /\ io.pc = "idle" /\ rret' = "OK" /\ faulty' = faulty
    BY <1>1 DEF Finish, Abandoned, Return, Waits, At
  <2>2. FaultsButHost' BY <2>1, IdleFields DEF FaultsButHost
  <2>3. FailsOnlyOnFault'
    <3>1. CASE host' = host BY <2>1, <3>1 DEF Faults, FailsOnlyOnFault
    <3>2. CASE host' = [host EXCEPT !.status = IF cmd.passed THEN "passed" ELSE "failed", !.residue = host.want - cmd.sent]
      <4>1. HostRec(host) BY DEF RInv, Typed
      <4>2. host'.status = IF cmd.passed THEN "passed" ELSE "failed" BY <3>2, <4>1 DEF HostRec
      <4>3. QED BY <2>1, <4>2 DEF Faults, FailsOnlyOnFault
    <3>3. QED BY <1>1, <3>1, <3>2 DEF Finish, Abandoned, Return
  <2>4. QED BY <2>2, <2>3 DEF Faults, FaultsButHost
<1>2. CASE Host
  <2>1. PICK l \in {"sd", "dvd", "disk"}, lba \in Starts, c \in CmdLens : Issue(l, lba, c[1], c[2]) BY <1>2 DEF Host
  <2>2. /\ cmd.pc = "idle" /\ io.pc = "idle" /\ io' = io /\ rret' = rret /\ present' = present
        /\ \/ cmd' = cmd /\ faulty' = faulty /\ host'.status = "refused"
           \/ present /\ host'.status = "pending" /\ cmd'.pc = "wait" /\ cmd'.passed
    BY <2>1, IssueIs
  <2>3. QED BY <2>2 DEF Faults, FailsOnlyOnFault
<1>3. CASE HostTakes
  <2>1. HostRec(host) /\ host' = [host EXCEPT !.got = host.got \o SubSeq(mem[Head(txq).buf], 1, Head(txq).len)]
    BY <1>3 DEF HostTakes, RInv, Typed
  <2>2. host'.status = host.status BY <2>1 DEF HostRec
  <2>3. cmd' = cmd /\ io' = io /\ rret' = rret /\ present' = present /\ faulty' = faulty BY <1>3 DEF HostTakes, readVars
  <2>4. QED BY <2>2, <2>3 DEF Faults, FailsOnlyOnFault
<1>4. CASE Reset \/ Mounts
  <2>1. /\ cmd' = cmd /\ io' = io /\ rret' = rret /\ faulty' = faulty /\ host' = NoCommand
        /\ (present' = present \/ cmd.pc = "idle")
    BY <1>4 DEF Reset, Mounts, readVars, At
  <2>2. NoCommand.status = "none" BY DEF NoCommand
  <2>3. QED BY <2>1, <2>2 DEF Faults, FailsOnlyOnFault
<1>5. CASE UNCHANGED vars
  <2>1. cmd' = cmd /\ io' = io /\ rret' = rret /\ faulty' = faulty /\ host' = host /\ present' = present
    BY <1>5 DEF vars, readVars
  <2>2. QED BY <2>1 DEF Faults, FailsOnlyOnFault
<1>6. QED BY <1>1, <1>2, <1>3, <1>4, <1>5

---------------------------------------------------------------------------
(* The map of the mounted image, kept by everything.                        *)
LEMMA MapKept ==
  ASSUME RInv, SInv, Faults, MapInv, InRange, [Next]_vars
  PROVE  MapInv'
<1>1. CASE UNCHANGED mapVars BY <1>1, SameMap
<1>2. CASE MapRun
  <2>1. UNCHANGED <<dir, img_cur>> /\ (img_cur.mounted => Fresh(tcache', DataFile)) BY <1>2, MapRunIs
  <2>2. DataFile = DataFileOf(img_cur'.name, img_cur'.fmt) BY <2>1 DEF DataFile
  <2>3. QED BY <2>1, <2>2, MapInvFrom DEF MapInv
<1>3. CASE Mounts
  <2>1. CASE \E name \in DOMAIN dir : \E bad \in BadOf(dir[name]) : MountEntry(name, Readable, bad) /\ UNCHANGED readVars
    BY <2>1, MountKeeps
  <2>2. CASE Unmount BY <2>2, UnmountKeeps
  <2>3. CASE ~img_cur.mounted /\ dir' \in Cards /\ img_cur' = img_cur BY <2>3 DEF MapInv
  <2>4. QED BY <1>3, <2>1, <2>2, <2>3 DEF Mounts
<1>4. QED
  BY <1>1, <1>2, <1>3
  DEF Next, Main, Host, WaitBuffer, ReadPiece, PieceRead, RunEnded, Queue, Fail, Finish, Abandoned, Driver, Issue, HostTakes,
      Reset, Pulled, Unmoved, vars

(* A step of a command keeps what has been passed on and what is left.      *)
KeepsPlace ==
  cmd'.pc \in Filling =>
    /\ cmd.pc \in Filling /\ cmd'.lun = cmd.lun /\ cmd'.bytes = cmd.bytes
    /\ cmd'.fsec - cmd'.sent - Filled' = cmd.fsec - cmd.sent - Filled

LEMMA PlaceKept ==
  ASSUME RInv, SInv, Faults, MapInv, InRange, Main \/ HostTakes \/ Reset \/ Mounts \/ Pulled \/ UNCHANGED vars
  PROVE  KeepsPlace
<1>1. CASE cmd' = cmd BY <1>1 DEF KeepsPlace, Filled
<1>2. CASE cmd' = IdleCmd BY <1>2, IdleFields DEF KeepsPlace, Filling
<1>3. /\ cmd.fsec \in Nat /\ cmd.sent \in Nat /\ cmd.filled \in Nat /\ Chunk \in Nat /\ Piece \in Int
  BY CommandCounts DEF SInv, CommandTyped
<1>4. CASE WaitBuffer
  <2>1. cmd.pc = "wait" /\ cmd'.fsec = cmd.fsec /\ cmd'.sent = cmd.sent /\ cmd'.lun = cmd.lun /\ cmd'.bytes = cmd.bytes
        /\ (cmd'.pc = "drain" \/ (cmd'.pc = "fill" /\ cmd'.filled = 0))
    BY <1>4, WaitBufferIs DEF Stays, Goes
  <2>2. QED BY <2>1 DEF KeepsPlace, Filling, Filled
<1>5. CASE MapRun
  <2>1. cmd.pc = "fill" BY <1>5, MapRunIs
  <2>2. \/ cmd'.pc = "fail"
        \/ \E z \in Int : /\ cmd'.pc = "fill" /\ cmd'.lun = cmd.lun /\ cmd'.bytes = cmd.bytes /\ cmd'.sent = cmd.sent
                          /\ cmd'.filled = cmd.filled + z /\ cmd'.fsec = cmd.fsec + z
    <3>1. PICK m : LunTells(m, cmd.lun, cmd.fsec, Rest) /\
              \/ Stays("fail")
              \/ LET z == Lesser(m.run, Chunk - cmd.filled)
                 IN Goes("fill", cmd.filled + z, cmd.fsec + z, cmd.seg, cmd.segDone, cmd.open)
              \/ Goes("fill", cmd.filled, cmd.fsec, Lesser(m.run, StreamMax), 0, TRUE)
      BY <1>5, MapRunIs
    <3>2. Lesser(m.run, Chunk - cmd.filled) \in Int
      <4>1. Rest \in Int BY CommandCounts DEF SInv
      <4>2. m.run \in Int /\ Chunk - cmd.filled \in Int BY <1>3, <3>1, <4>1 DEF LunTells
      <4>3. QED BY <4>2 DEF Lesser
    <3>3. CASE Stays("fail") BY <3>3 DEF Stays, Goes
    <3>4. CASE LET z == Lesser(m.run, Chunk - cmd.filled)
               IN Goes("fill", cmd.filled + z, cmd.fsec + z, cmd.seg, cmd.segDone, cmd.open)
      BY <3>2, <3>4 DEF Goes
    <3>5. CASE Goes("fill", cmd.filled, cmd.fsec, Lesser(m.run, StreamMax), 0, TRUE)
      <4>1. cmd.filled + 0 = cmd.filled /\ cmd.fsec + 0 = cmd.fsec /\ 0 \in Int BY <1>3
      <4>2. QED BY <3>5, <4>1 DEF Goes
    <3>6. QED BY <3>1, <3>3, <3>4, <3>5
  <2>3. QED BY <1>3, <2>1, <2>2 DEF KeepsPlace, Filling, Filled
<1>6. CASE ReadPiece
  <2>1. cmd.pc = "fill" /\ Stays("read") BY <1>6, ReadPieceIs
  <2>2. QED BY <2>1 DEF KeepsPlace, Filling, Filled, Stays, Goes
<1>7. CASE PieceRead
  <2>1. cmd.pc = "read" BY <1>7, PieceReadIs
  <2>2. \/ cmd'.pc = "fail"
        \/ /\ cmd'.pc \in {"fill", "end"} /\ cmd'.lun = cmd.lun /\ cmd'.bytes = cmd.bytes /\ cmd'.sent = cmd.sent
           /\ cmd'.filled = cmd.filled + Piece /\ cmd'.fsec = cmd.fsec + Piece
    BY <1>7, PieceReadIs DEF Goes
  <2>3. QED BY <1>3, <2>1, <2>2 DEF KeepsPlace, Filling, Filled
<1>8. CASE RunEnded
  <2>1. cmd.pc = "end" /\ (Stays("fill") \/ Stays("fail")) BY <1>8, RunEndedIs
  <2>2. QED BY <2>1 DEF KeepsPlace, Filling, Filled, Stays, Goes
<1>9. CASE Queue
  <2>1. /\ cmd.pc = "fill" /\ cmd'.pc = "wait" /\ cmd'.lun = cmd.lun /\ cmd'.bytes = cmd.bytes /\ cmd.filled = Chunk
        /\ cmd'.sent = cmd.sent + Chunk /\ cmd'.fsec = cmd.fsec
    BY <1>9, QueueIs
  <2>2. QED BY <1>3, <2>1 DEF KeepsPlace, Filling, Filled
<1>10. CASE Fail
  <2>1. cmd'.pc = "drain" BY <1>10, FailIs DEF Goes
  <2>2. QED BY <2>1 DEF KeepsPlace, Filling
<1>11. Finish \/ Abandoned => cmd' = IdleCmd BY DEF Finish, Abandoned, Return
<1>12. Driver \/ HostTakes \/ Reset \/ Mounts \/ Pulled \/ UNCHANGED vars => cmd' = cmd
  BY DEF Driver, HostTakes, Reset, Mounts, Pulled, vars
<1>13. QED BY <1>1, <1>2, <1>4, <1>5, <1>6, <1>7, <1>8, <1>9, <1>10, <1>11, <1>12 DEF Main

(* The image and its card stay while a command is under way.                *)
LEMMA ImageStays ==
  ASSUME [Next]_vars, cmd.pc # "idle"
  PROVE  dir' = dir /\ img_cur' = img_cur
BY DEF Next, Main, Host, WaitBuffer, MapRun, ReadPiece, PieceRead, RunEnded, Queue, Fail, Finish, Abandoned, Driver, Issue, HostTakes,
       Reset, Mounts, Pulled, Unmoved, mapVars, vars, At

---------------------------------------------------------------------------
(* The driver, the command and the map together.                            *)
UInv == RInv /\ SInv /\ Faults /\ MapInv /\ InRange

LEMMA SInvKept ==
  ASSUME UInv, [Next]_vars
  PROVE  SInv'
<1>1. RInv /\ SInv /\ Faults /\ MapInv /\ InRange BY DEF UInv
<1>2. CASE Driver BY <1>1, <1>2, DriverKeepsStream DEF Driver
<1>3. CASE Pulled BY <1>1, <1>3, PulledKeepsStream DEF Pulled
<1>4. CASE Host BY <1>1, <1>4, IssueStream DEF Host
<1>5. QED
  BY <1>1, <1>2, <1>3, <1>4, WaitBufferStream, MapRunStream, ReadPieceStream, PieceReadStream, RunEndedStream, QueueStream,
     FinishStream, AsideStream
  DEF Next, Main

LEMMA FaultsKept ==
  ASSUME UInv, [Next]_vars
  PROVE  Faults'
<1>1. RInv /\ SInv /\ Faults /\ MapInv /\ InRange BY DEF UInv
<1>2. QED BY <1>1, DriverFaults, CommandFaults, OtherFaults DEF Next, Main

LEMMA BytesWithin ==
  ASSUME NEW n \in Nat, NEW bs \in {1, IsoSectors}, NEW want \in 0..ByteWord - 1
  PROVE  Bytes(n, bs, want) \in Nat /\ Bytes(n, bs, want) <= n * bs
<1> DEFINE b == (n * bs) % ByteWord
<1>1. n * bs \in Nat BY DEF IsoSectors
<1>2. b \in Nat /\ b <= n * bs
  <2>1. \A x \in Nat : x % ByteWord \in Nat /\ x % ByteWord <= x BY CommandAssumption
  <2>2. QED BY <1>1, <2>1
<1>3. want % bs \in Nat /\ want \in Nat BY CommandAssumption DEF IsoSectors
<1> HIDE DEF b
<1>4. Bytes(n, bs, want) = IF b > want THEN want - (want % bs) ELSE b BY DEF Bytes, b
<1>5. Bytes(n, bs, want) \in Nat BY BytesFit
<1>6. CASE b > want BY <1>1, <1>2, <1>3, <1>4, <1>5, <1>6
<1>7. CASE ~(b > want) BY <1>2, <1>4, <1>7
<1>8. QED BY <1>5, <1>6, <1>7

LEMMA RangeKept ==
  ASSUME UInv, [Next]_vars, RInv'
  PROVE  InRange'
<1>0. RInv /\ SInv /\ Faults /\ MapInv /\ InRange BY DEF UInv
<1>1. CASE Main \/ HostTakes \/ Reset \/ Mounts \/ Pulled \/ UNCHANGED vars
  <2>1. SUFFICES ASSUME cmd'.pc \in Filling
                 PROVE  (cmd.lun = "sd" \/ (img_cur.mounted /\ cmd.lun = ImageLun))' /\ (cmd.fsec + Rest)' <= Extent(cmd.lun)'
    BY DEF InRange
  <2>2. /\ cmd.pc \in Filling /\ cmd'.lun = cmd.lun /\ cmd'.bytes = cmd.bytes
        /\ cmd'.fsec - cmd'.sent - Filled' = cmd.fsec - cmd.sent - Filled
    BY <1>0, <1>1, <2>1, PlaceKept DEF KeepsPlace
  <2>3. img_cur' = img_cur BY <1>1, <2>2, ImageStays DEF Next, Filling
  <2>4. (cmd.lun = "sd" \/ (img_cur.mounted /\ cmd.lun = ImageLun)) /\ cmd.fsec + Rest <= Extent(cmd.lun)
    BY <1>0, <2>2 DEF InRange
  <2>5. Extent(cmd.lun)' = Extent(cmd.lun) BY <2>2, <2>3 DEF Extent, VirtualSectors
  <2>6. cmd'.fsec + Rest' = cmd.fsec + Rest
    <3>1. cmd.bytes \in Nat /\ cmd.sent \in Nat /\ cmd.fsec \in Nat /\ Filled \in Nat
      BY <1>0, CommandCounts DEF SInv, CommandTyped
    <3>2. RInv' /\ SInv' BY SInvKept
    <3>3. cmd'.sent \in Nat /\ cmd'.fsec \in Nat /\ cmd'.filled \in Nat BY <3>2 DEF RInv, Typed, SInv, CommandTyped
    <3>4. Filled' \in Nat BY <3>3 DEF Filled
    <3>5. QED BY <2>2, <3>1, <3>3, <3>4 DEF Rest
  <2>7. QED BY <2>2, <2>3, <2>4, <2>5, <2>6 DEF ImageLun
<1>2. CASE Host
  <2>1. PICK l \in {"sd", "dvd", "disk"}, lba \in Starts, c \in CmdLens : Issue(l, lba, c[1], c[2]) BY <1>2 DEF Host
  <2> DEFINE bs == BlockSize(l)
             b  == Bytes(c[1], bs, c[2])
  <2>2. /\ cmd.pc = "idle" /\ (l = "sd" \/ (img_cur.mounted /\ l = ImageLun)) /\ img_cur' = img_cur
        /\ \/ cmd' = cmd
           \/ /\ lba + c[1] <= SizeOf(l) /\ cmd'.pc = "wait" /\ cmd'.lun = l /\ cmd'.bytes = b /\ cmd'.fsec = lba * bs
              /\ cmd'.sent = 0
    BY <2>1, IssueIs DEF mapVars
  <2>3. c[1] \in Nat /\ c[2] \in 0..ByteWord - 1 /\ lba \in Nat /\ bs \in {1, IsoSectors}
    BY CommandAssumption DEF BlockSize
  <2>4. SizeOf(l) \in Nat /\ Extent(l) = SizeOf(l) * bs
    <3>1. CASE l = "sd" BY <3>1, ReadAssumption DEF SizeOf, BlockSize, Extent
    <3>2. CASE l # "sd"
      <4>1. img_cur.mounted /\ l = ImageLun BY <2>2, <3>2
      <4>2. img_cur.blocks \in Nat /\ img_cur.blockSectors = bs BY <1>0, <4>1 DEF MapInv, Described, ImageLun, BlockSize
      <4>3. QED BY <3>2, <4>2 DEF SizeOf, Extent, VirtualSectors
    <3>3. QED BY <3>1, <3>2
  <2>5. b \in Nat /\ b <= c[1] * bs BY <2>3, BytesWithin
  <2>6. lba + c[1] <= SizeOf(l) => lba * bs + b <= Extent(l)
    <3>1. CASE bs = 1 BY <2>3, <2>4, <2>5, <3>1
    <3>2. CASE bs = 4 BY <2>3, <2>4, <2>5, <3>2
    <3>3. QED BY <2>3, <3>1, <3>2 DEF IsoSectors
  <2> HIDE DEF b
  <2>7. CASE cmd' = cmd BY <1>0, <2>2, <2>7 DEF InRange, Filling
  <2>8. CASE /\ lba + c[1] <= SizeOf(l) /\ cmd'.pc = "wait" /\ cmd'.lun = l /\ cmd'.bytes = b /\ cmd'.fsec = lba * bs
             /\ cmd'.sent = 0
    <3>1. Rest' = b BY <2>5, <2>8 DEF Rest, Filled
    <3>2. Extent(l)' = Extent(l) BY <2>2 DEF Extent, VirtualSectors
    <3>3. QED BY <2>2, <2>6, <2>8, <3>1, <3>2 DEF InRange, ImageLun
  <2>9. QED BY <2>2, <2>7, <2>8
<1>3. QED BY <1>1, <1>2 DEF Next

(* A closed stream leaves no card sending, the cache is what the file of    *)
(* the image holds, and no READ fails but on a fault.                       *)
THEOREM UInvariance == Spec => []UInv
<1>1. Init /\ RInv => UInv
  <2>1. SUFFICES ASSUME Init, RInv PROVE UInv OBVIOUS
  <2>2. /\ cmd = IdleCmd /\ host = NoCommand /\ rs = ClosedRead /\ io = NoPush /\ rret = "OK" /\ present = TRUE
        /\ line = Quiet /\ dir \in Cards /\ img_cur = Nothing
    BY <2>1 DEF Init, ReadInit, MapInit
  <2>3. NoPush.pc = "idle" /\ IoRec(NoPush) /\ Quiet.mode = "tran" /\ Quiet.at = 0 /\ LineRec(Quiet)
    BY DEF NoPush, IoRec, Quiet, LineRec
  <2>4. StreamTyped BY <2>2, <2>3, ClosedFields DEF StreamTyped
  <2>5. CommandTyped BY <2>2, IdleFields DEF CommandTyped, InChunk
  <2>6. ToldToStop /\ CardAt /\ Pushing BY <2>2, <2>3, ClosedFields DEF ToldToStop, CardAt, Pushing
  <2>7. Segment BY <2>2, <2>3, IdleFields, ClosedFields DEF Segment, PieceIn
  <2>8. Faults BY <2>2, <2>3, IdleFields DEF Faults, FailsOnlyOnFault, NoCommand
  <2>9. MapInv BY <2>2 DEF MapInv, Nothing
  <2>10. InRange BY <2>2, IdleFields DEF InRange, Filling
  <2>11. QED BY <2>1, <2>4, <2>5, <2>6, <2>7, <2>8, <2>9, <2>10 DEF UInv, SInv
<1>2. UInv /\ RInv' /\ [Next]_vars => UInv'
  <2>1. SUFFICES ASSUME UInv, RInv', [Next]_vars PROVE UInv' OBVIOUS
  <2>2. SInv' /\ Faults' /\ InRange' BY <2>1, SInvKept, FaultsKept, RangeKept
  <2>3. MapInv' BY <2>1, MapKept DEF UInv
  <2>4. QED BY <2>1, <2>2, <2>3 DEF UInv
<1>3. QED BY <1>1, <1>2, RInvariance, PTL DEF Spec

(* A stream that was closed, however its command ended, left no card        *)
(* sending: sd_stream_end and sd_stream_abort (v5f/sd_sdio.c) on the paths  *)
(* of cmd_read (v5f/msc_core.c).                                            *)
THEOREM StreamIsClosed == Spec => []StreamClosed
<1>1. UInv => StreamClosed BY DEF UInv, SInv, ToldToStop, StreamClosed
<1>2. QED BY <1>1, UInvariance, PTL

(* A READ of blocks within the medium fails only on a fault of the card or  *)
(* the bus: lun_map finds a place for each of them, on any card that holds  *)
(* what FatFs and the makers of images promise.                             *)
THEOREM FailsOnFaultOnly == Spec => []FailsOnlyOnFault
<1>1. UInv => FailsOnlyOnFault BY DEF UInv, Faults
<1>2. QED BY <1>1, UInvariance, PTL

(* The cache of table sectors is what the data file of the mounted image    *)
(* holds: img_unmount, vmdk_detect and tcache_get (v5f/image_store.c) leave *)
(* nothing in it of another image, of a descriptor or of a failed read.     *)
THEOREM CacheIsFresh == Spec => []CacheFresh
<1>1. UInv => CacheFresh BY DEF UInv, MapInv, Fresh, CacheFresh
<1>2. QED BY <1>1, UInvariance, PTL

---------------------------------------------------------------------------
(* What the host gets is what it asked for. *)
LEMMA StoreIs ==
  ASSUME Buffers(mem), NEW b \in Buf, NEW at \in Nat, NEW n \in Nat, NEW s, Len(s) = n, Store(b, at, s)
  PROVE  \A c \in Buf, x \in 1..ChunkLen :
           mem'[c][x] = IF c = b /\ x > at /\ x <= at + n THEN s[x - at] ELSE mem[c][x]
<1> DEFINE new == [i \in 1..ChunkLen |-> IF i \in at + 1..at + Len(s) THEN s[i - at] ELSE mem[b][i]]
<1>1. mem' = [mem EXCEPT ![b] = new] BY DEF Store
<1>2. mem' = [c \in Buf |-> IF c = b THEN new ELSE mem[c]] BY <1>1 DEF Buffers
<1>3. SUFFICES ASSUME NEW c \in Buf, NEW x \in 1..ChunkLen
               PROVE  mem'[c][x] = IF c = b /\ x > at /\ x <= at + n THEN s[x - at] ELSE mem[c][x]
  OBVIOUS
<1>4. x \in Nat BY ReadAssumption
<1>5. new[x] = IF x > at /\ x <= at + n THEN s[x - at] ELSE mem[b][x] BY <1>4
<1> HIDE DEF new
<1>6. mem'[c] = IF c = b THEN new ELSE mem[c] BY <1>2
<1>7. QED BY <1>5, <1>6


(* Nothing is stored but in the rest of the buffer that is being filled.    *)
MemAbove ==
  \A b \in Buf, x \in 1..ChunkLen :
    ~(cmd.pc \in InChunk /\ b = cmd.idx /\ x > cmd.filled) => mem'[b][x] = mem[b][x]

LEMMA AboveOnly ==
  ASSUME UInv, NEW s, NEW n \in Nat, Len(s) = n, cmd.pc \in InChunk, Store(cmd.idx, cmd.filled, s)
  PROVE  MemAbove
<1>1. Buffers(mem) /\ cmd.idx \in Buf /\ cmd.filled \in Nat /\ cmd.filled + n \in Nat BY DEF UInv, RInv, Typed, SInv, CommandTyped
<1>2. \A c \in Buf, x \in 1..ChunkLen :
        mem'[c][x] = IF c = cmd.idx /\ x > cmd.filled /\ x <= cmd.filled + n THEN s[x - cmd.filled] ELSE mem[c][x]
  BY <1>1, StoreIs
<1>3. QED BY <1>2 DEF MemAbove

LEMMA MemKept ==
  ASSUME UInv, [Next]_vars, ~Finish, ~Abandoned
  PROVE  MemAbove
<1>1. CASE mem' = mem BY <1>1 DEF MemAbove
<1>2. RInv /\ SInv /\ Faults /\ MapInv /\ InRange BY DEF UInv
<1>3. /\ cmd.filled \in Nat /\ Chunk \in Nat
      /\ (io.pc # "idle" => cmd.pc \in InChunk /\ io.buf = cmd.idx /\ io.at = cmd.filled /\ io.cnt \in Nat)
  <2>1. Piece \in Int /\ (Piece = Chunk - cmd.filled \/ Piece = cmd.seg - cmd.segDone) /\ Chunk \in Nat
        /\ cmd.filled \in Nat /\ cmd.seg \in Nat /\ cmd.segDone \in Nat
    BY <1>2, CommandCounts DEF SInv
  <2>2. QED BY <1>2, <2>1 DEF SInv, Pushing, Segment, InChunk
<1>4. CASE StartChunk
  <2> DEFINE s == [i \in 1..io.cnt |-> Junk]
  <2>1. io.pc # "idle" /\ Store(io.buf, io.at, s) BY <1>4 DEF StartChunk
  <2>2. Len(s) = io.cnt BY <1>3, <2>1
  <2> HIDE DEF s
  <2>3. QED BY <1>3, <2>1, <2>2, AboveOnly
<1>5. CASE ChunkRead
  <2> DEFINE s == [i \in 1..io.cnt |-> Block(line.at + i - 1)]
  <2>1. io.pc # "idle" /\ Store(io.buf, io.at, s) BY <1>5 DEF ChunkRead
  <2>2. Len(s) = io.cnt BY <1>3, <2>1
  <2> HIDE DEF s
  <2>3. QED BY <1>3, <2>1, <2>2, AboveOnly
<1>6. CASE ChunkFails
  <2>1. PICK k \in 0..io.cnt - 1 : Store(io.buf, io.at, [i \in 1..k |-> Block(line.at + i - 1)]) BY <1>6 DEF ChunkFails
  <2>2. io.pc # "idle" /\ k \in Nat BY <1>3, <1>6, <2>1 DEF ChunkFails
  <2> DEFINE s == [i \in 1..k |-> Block(line.at + i - 1)]
  <2>3. Len(s) = k /\ Store(io.buf, io.at, s) BY <2>1, <2>2
  <2> HIDE DEF s
  <2>4. QED BY <1>3, <2>2, <2>3, AboveOnly
<1>7. CASE MapRun
  <2>1. cmd.pc \in InChunk BY <1>2, <1>7, MapRunIs DEF InChunk
  <2>2. PICK m : LunTells(m, cmd.lun, cmd.fsec, Rest) /\
          (mem' = mem \/ Store(cmd.idx, cmd.filled, [i \in 1..Lesser(m.run, Chunk - cmd.filled) |-> Zero]))
    BY <1>2, <1>7, MapRunIs
  <2>3. Lesser(m.run, Chunk - cmd.filled) \in Nat
    <3>1. Rest \in Int /\ cmd.filled < Chunk BY <1>2, <1>7, CommandCounts, MapRunIs DEF SInv
    <3>2. m.run \in Nat /\ Chunk - cmd.filled \in Nat BY <1>3, <2>2, <3>1 DEF LunTells
    <3>3. QED BY <3>2 DEF Lesser
  <2> DEFINE z == Lesser(m.run, Chunk - cmd.filled)
             s == [i \in 1..z |-> Zero]
  <2>4. CASE Store(cmd.idx, cmd.filled, s)
    <3> HIDE DEF z
    <3>1. z \in Nat BY <2>3 DEF z
    <3>2. Len(s) = z BY <3>1
    <3> HIDE DEF s
    <3>3. QED BY <2>1, <2>4, <3>1, <3>2, AboveOnly
  <2>5. QED BY <1>1, <2>2, <2>4
<1>8. Driver => StartChunk \/ ChunkRead \/ ChunkFails \/ mem' = mem BY DEF Driver, StreamStep, RecoverRead
<1>9. QED
  BY <1>1, <1>4, <1>5, <1>6, <1>7, <1>8
  DEF Next, Main, Host, WaitBuffer, ReadPiece, PushRead, PieceRead, EndRead, RunEnded, Queue, Fail, AbortRead, Issue, HostTakes,
      Reset, Mounts, Pulled, PullCard, vars, readVars

TInv == UInv /\ InTurn /\ Same /\ Truth

LEMMA LastLeft ==
  ASSUME NEW q \in Seq(Packets), Len(q) <= 2, q # <<>>, Tail(q) # <<>>
  PROVE  Len(q) = 2 /\ Len(Tail(q)) = 1 /\ Tail(q)[1] = q[2]
<1>1. /\ Len(q) \in Nat /\ Len(q) # 0 /\ Tail(q) \in Seq(Packets) /\ Len(Tail(q)) = Len(q) - 1
      /\ \A i \in 1..Len(q) - 1 : Tail(q)[i] = q[i + 1]
  BY QueueFront
<1>2. Len(Tail(q)) # 0 BY <1>1, QueueFront
<1>3. Len(q) = 2 BY <1>1, <1>2
<1>4. QED BY <1>1, <1>3

LEMMA TurnKept ==
  ASSUME UInv, InTurn, [Next]_vars
  PROVE  InTurn'
<1>1. RInv /\ SInv /\ Faults /\ MapInv /\ InRange BY DEF UInv
<1>2. txq \in Seq(Packets) /\ Len(txq) <= 2 BY <1>1 DEF RInv, Typed
<1>3. CASE txq' = <<>>
  <2>1. Len(txq') = 0 BY <1>3
  <2>2. QED BY <1>3, <2>1 DEF InTurn
<1>4. CASE txq' = txq /\ cmd'.idx = cmd.idx /\ (cmd'.pc \in InChunk => cmd.pc \in InChunk \/ Len(txq) <= 1)
  BY <1>4 DEF InTurn
<1>5. CASE Queue
  <2> DEFINE p == [buf |-> cmd.idx, len |-> Chunk]
  <2>1. txq' = Append(txq, p) /\ cmd'.pc = "wait" /\ cmd'.idx = (cmd.idx + 1) % NBuf BY <1>1, <1>5, QueueIs
  <2>2. p.buf = cmd.idx OBVIOUS
  <2>3. p \in Packets BY <1>1, CommandCounts DEF RInv, Typed, Packets, SInv
  <2> HIDE DEF p
  <2>4. Len(txq') = Len(txq) + 1 /\ txq'[Len(txq')] = p BY <1>2, <2>1, <2>3
  <2>5. QED BY <2>1, <2>2, <2>4 DEF InTurn, InChunk
<1>6. CASE HostTakes
  <2>1. txq # <<>> /\ txq' = Tail(txq) /\ cmd' = cmd BY <1>6 DEF HostTakes
  <2>2. Len(txq') <= Len(txq) BY <1>2, <2>1
  <2>3. txq' # <<>> => txq'[Len(txq')] = txq[Len(txq)] BY <1>2, <2>1, LastLeft
  <2>4. Len(txq') \in Nat BY <1>2, <2>1
  <2>5. QED BY <1>2, <2>1, <2>2, <2>3, <2>4 DEF InTurn
<1>7. CASE WaitBuffer
  <2>1. txq' = txq /\ cmd'.idx = cmd.idx /\ (cmd'.pc = "drain" \/ Len(txq) <= 1) BY <1>1, <1>7, WaitBufferIs DEF Stays, Goes
  <2>2. QED BY <1>4, <2>1 DEF InChunk
<1>8. CASE MapRun \/ ReadPiece \/ PieceRead \/ RunEnded \/ Fail
  <2>1. txq' = txq /\ cmd'.idx = cmd.idx /\ (cmd.pc \in InChunk \/ cmd'.pc = "drain")
    BY <1>1, <1>8, MapRunIs, ReadPieceIs, PieceReadIs, RunEndedIs, FailIs DEF Stays, Goes, InChunk
  <2>2. QED BY <1>4, <2>1 DEF InChunk
<1>9. Finish \/ Abandoned \/ Host \/ Reset => txq' = <<>> BY DEF Finish, Abandoned, Return, Host, Issue, Reset
<1>10. Driver \/ Mounts \/ Pulled \/ UNCHANGED vars => txq' = txq /\ cmd' = cmd BY DEF Driver, Mounts, Pulled, vars
<1>11. QED BY <1>3, <1>4, <1>5, <1>6, <1>7, <1>8, <1>9, <1>10 DEF Next, Main

(* The host's side of a step: nothing, more data, a status, or gone.        *)
LEMMA HostSide ==
  ASSUME UInv, [Next]_vars
  PROVE  \/ host' = NoCommand /\ moved' = TRUE
         \/ host' = NoCommand /\ cmd.pc = "idle" /\ cmd' = cmd
         \/ cmd.pc = "idle" /\ Host
         \/ /\ HostRec(host') /\ host'.lun = host.lun /\ host'.first = host.first /\ moved' = moved
            /\ (host'.got = host.got \/ HostTakes)
<1>1. HostRec(host) BY DEF UInv, RInv, Typed
<1>2. CASE host' = host /\ moved' = moved BY <1>1, <1>2
<1>3. CASE Finish
  <2>1. moved' = moved BY <1>3 DEF Finish, Unmoved
  <2>2. \/ host' = host
        \/ host' = [host EXCEPT !.status = IF cmd.passed THEN "passed" ELSE "failed", !.residue = host.want - cmd.sent]
    BY <1>3 DEF Finish, Return
  <2>3. HostRec(host') /\ host'.lun = host.lun /\ host'.first = host.first /\ host'.got = host.got
    BY <1>1, <2>2 DEF HostRec
  <2>4. QED BY <2>1, <2>3
<1>4. CASE HostTakes
  <2>1. host' = [host EXCEPT !.got = host.got \o SubSeq(mem[Head(txq).buf], 1, Head(txq).len)] /\ moved' = moved
    BY <1>4 DEF HostTakes, Unmoved
  <2>2. QED BY <1>1, <1>4, <2>1 DEF HostRec
<1>5. Host => cmd.pc = "idle" BY DEF Host, Issue, At
<1>6. Reset => host' = NoCommand /\ moved' = TRUE BY DEF Reset
<1>7. Mounts => host' = NoCommand /\ cmd.pc = "idle" /\ cmd' = cmd BY DEF Mounts, At
<1>8. QED
  BY <1>2, <1>3, <1>4, <1>5, <1>6, <1>7
  DEF Next, Main, WaitBuffer, MapRun, ReadPiece, PieceRead, RunEnded, Queue, Fail, Abandoned, Return, Driver, Pulled, Unmoved, vars

LEMMA SameKept ==
  ASSUME UInv, RInv', Same, [Next]_vars
  PROVE  Same'
<1>1. RInv /\ SInv /\ Faults /\ MapInv /\ InRange BY DEF UInv
<1>2. CASE Host
  <2>1. PICK l \in {"sd", "dvd", "disk"}, lba \in Starts, c \in CmdLens : Issue(l, lba, c[1], c[2]) BY <1>2 DEF Host
  <2>2. /\ cmd.pc = "idle" /\ lba * BlockSize(l) \in Nat /\ host'.lun = l /\ host'.first = lba * BlockSize(l)
        /\ \/ cmd' = cmd
           \/ cmd'.pc = "wait" /\ cmd'.lun = l /\ cmd'.fsec = lba * BlockSize(l) /\ cmd'.sent = 0
    BY <2>1, IssueIs
  <2>3. QED BY <2>2 DEF Same, Filling, Filled
<1>3. CASE ~Host
  <2>1. NoCommand.first = 0 BY DEF NoCommand
  <2>2. host'.first \in Nat
    <3>1. host' = NoCommand \/ host'.first = host.first BY <1>3, HostSide, Zenon
    <3>2. QED BY <2>1, <3>1 DEF Same
  <2>3. ASSUME cmd'.pc \in Filling, ~moved'
        PROVE  host'.lun = cmd'.lun /\ cmd'.fsec = host'.first + cmd'.sent + Filled'
    <3>1. /\ cmd.pc \in Filling /\ cmd'.lun = cmd.lun /\ cmd'.fsec - cmd'.sent - Filled' = cmd.fsec - cmd.sent - Filled
      BY <1>1, <1>3, <2>3, PlaceKept DEF KeepsPlace, Next
    <3>2. host'.lun = host.lun /\ host'.first = host.first /\ moved' = moved
      BY <1>3, <2>3, <3>1, HostSide DEF Filling
    <3>3. host.lun = cmd.lun /\ cmd.fsec = host.first + cmd.sent + Filled BY <2>3, <3>1, <3>2 DEF Same
    <3>4. cmd.sent \in Nat /\ cmd.fsec \in Nat /\ Filled \in Nat BY <1>1, CommandCounts DEF SInv, CommandTyped
    <3>5. RInv' /\ SInv' BY SInvKept
    <3>6. cmd'.sent \in Nat /\ cmd'.fsec \in Nat /\ cmd'.filled \in Nat BY <3>5 DEF RInv, Typed, SInv, CommandTyped
    <3>7. Filled' \in Nat BY <3>6 DEF Filled
    <3>8. host.first \in Nat BY DEF Same
    <3>9. QED BY <3>1, <3>2, <3>3, <3>4, <3>6, <3>7, <3>8
  <2>4. QED BY <2>2, <2>3 DEF Same
<1>4. QED BY <1>2, <1>3

(* While a command is under way its blocks stay what they are.              *)
LEMMA ExpectedStays ==
  ASSUME dir' = dir, img_cur' = img_cur
  PROVE  \A l, v : Expected(l, v)' = Expected(l, v)
<1>1. \A name, v : Virtual(name, v)' = Virtual(name, v) BY SameCard
<1>2. SUFFICES ASSUME NEW l, NEW v PROVE Expected(l, v)' = Expected(l, v) OBVIOUS
<1>3. Virtual(img_cur.name, v)' = Virtual(img_cur.name, v) BY <1>1
<1>4. QED BY <1>3 DEF Expected

(* The same stream goes on.                                                 *)
LEMMA StreamGoesOn ==
  ASSUME UInv, StreamTrue, [Next]_vars,
         cmd'.open => /\ cmd.open /\ cmd'.lun = cmd.lun /\ cmd'.seg = cmd.seg /\ rs'.lba = rs.lba
                      /\ \E k \in Nat : cmd'.segDone = cmd.segDone + k /\ cmd'.fsec = cmd.fsec + k
  PROVE  StreamTrue'
<1>1. SUFFICES ASSUME cmd'.open, NEW y \in cmd'.segDone..cmd'.seg - 1
               PROVE  Expected(cmd.lun, cmd.fsec - cmd.segDone + y)' = Block(rs'.lba + y)
  BY DEF StreamTrue, Block
<1>2. /\ cmd.open /\ cmd'.lun = cmd.lun /\ cmd'.seg = cmd.seg /\ rs'.lba = rs.lba
      /\ \E k \in Nat : cmd'.segDone = cmd.segDone + k /\ cmd'.fsec = cmd.fsec + k
  BY <1>1
<1>3. cmd.segDone \in Nat /\ cmd.seg \in Nat /\ cmd.fsec \in Nat /\ cmd.pc # "idle"
  BY <1>2 DEF UInv, SInv, CommandTyped, Segment
<1>4. y \in cmd.segDone..cmd.seg - 1 /\ cmd'.fsec - cmd'.segDone + y = cmd.fsec - cmd.segDone + y
  <2>1. PICK k \in Nat : cmd'.segDone = cmd.segDone + k /\ cmd'.fsec = cmd.fsec + k BY <1>2
  <2>2. y \in Int BY <1>2, <1>3, <2>1
  <2>3. QED BY <1>2, <1>3, <2>1, <2>2
<1>5. Expected(cmd.lun, cmd.fsec - cmd.segDone + y) = Block(rs.lba + y) BY <1>2, <1>4 DEF StreamTrue
<1>6. dir' = dir /\ img_cur' = img_cur BY <1>3, ImageStays
<1>7. Expected(cmd.lun, cmd.fsec - cmd.segDone + y)' = Expected(cmd'.lun, cmd'.fsec - cmd'.segDone + y)
  BY <1>6, ExpectedStays
<1>8. QED BY <1>2, <1>4, <1>5, <1>7

LEMMA StreamBegins ==
  ASSUME UInv, StreamTrue, MapRun
  PROVE  StreamTrue'
<1>1. RInv /\ SInv /\ Faults /\ MapInv /\ InRange BY DEF UInv
<1>2. ~cmd.open /\ dir' = dir /\ img_cur' = img_cur BY <1>1, MapRunIs
<1>3. PICK m : LunTells(m, cmd.lun, cmd.fsec, Rest) /\
         \/ Stays("fail")
         \/ LET z == Lesser(m.run, Chunk - cmd.filled)
            IN Goes("fill", cmd.filled + z, cmd.fsec + z, cmd.seg, cmd.segDone, cmd.open)
         \/ /\ m.run # 0 /\ m.sd \in Nat /\ ToRead(rs', m.sd, Lesser(m.run, StreamMax))
            /\ Goes("fill", cmd.filled, cmd.fsec, Lesser(m.run, StreamMax), 0, TRUE)
  BY <1>1, MapRunIs
<1>4. CASE \/ Stays("fail")
           \/ LET z == Lesser(m.run, Chunk - cmd.filled)
              IN Goes("fill", cmd.filled + z, cmd.fsec + z, cmd.seg, cmd.segDone, cmd.open)
  <2>1. cmd'.open = cmd.open BY <1>4 DEF Stays, Goes
  <2>2. QED BY <1>2, <2>1 DEF StreamTrue
<1>5. CASE /\ m.run # 0 /\ m.sd \in Nat /\ ToRead(rs', m.sd, Lesser(m.run, StreamMax))
           /\ Goes("fill", cmd.filled, cmd.fsec, Lesser(m.run, StreamMax), 0, TRUE)
  <2> DEFINE run == Lesser(m.run, StreamMax)
  <2>1. cmd'.lun = cmd.lun /\ cmd'.fsec = cmd.fsec /\ cmd'.seg = run /\ cmd'.segDone = 0 /\ rs'.lba = m.sd
    BY <1>5 DEF Goes, ToRead
  <2>2. Rest \in Int /\ m.run \in Nat /\ cmd.fsec \in Nat
    <3>1. Rest \in Int BY <1>1, CommandCounts DEF SInv
    <3>2. QED BY <1>1, <1>3, <3>1 DEF LunTells, SInv, CommandTyped
  <2>3. run \in Nat /\ run <= m.run BY <2>2, CommandAssumption DEF Lesser
  <2> HIDE DEF run
  <2>4. \A x \in 0..m.run - 1 : Expected(cmd.lun, cmd.fsec + x) = Block(m.sd + x) BY <1>3, <1>5 DEF LunTells
  <2>5. SUFFICES ASSUME NEW y \in cmd'.segDone..cmd'.seg - 1
                 PROVE  Expected(cmd.lun, cmd.fsec - cmd.segDone + y)' = Block(rs'.lba + y)
    BY DEF StreamTrue, Block
  <2>6. y \in 0..m.run - 1 /\ cmd'.fsec - cmd'.segDone + y = cmd.fsec + y BY <2>1, <2>2, <2>3
  <2>7. Expected(cmd.lun, cmd.fsec - cmd.segDone + y)' = Expected(cmd'.lun, cmd'.fsec - cmd'.segDone + y)
    BY <1>2, ExpectedStays
  <2>8. QED BY <2>1, <2>4, <2>6, <2>7
<1>6. QED BY <1>3, <1>4, <1>5

LEMMA StreamKept ==
  ASSUME UInv, StreamTrue, [Next]_vars
  PROVE  StreamTrue'
<1>1. RInv /\ SInv /\ Faults /\ MapInv /\ InRange BY DEF UInv
<1> DEFINE On(k) == /\ cmd.open /\ cmd'.lun = cmd.lun /\ cmd'.seg = cmd.seg /\ rs'.lba = rs.lba
                    /\ cmd'.segDone = cmd.segDone + k /\ cmd'.fsec = cmd.fsec + k
<1>2. ASSUME NEW k \in Nat, cmd'.open => On(k) PROVE StreamTrue'
  <2>1. cmd'.open => /\ cmd.open /\ cmd'.lun = cmd.lun /\ cmd'.seg = cmd.seg /\ rs'.lba = rs.lba
                     /\ \E j \in Nat : cmd'.segDone = cmd.segDone + j /\ cmd'.fsec = cmd.fsec + j
    BY <1>2
  <2>2. QED BY <2>1, StreamGoesOn
<1>3. CASE ~cmd'.open
  <2>1. cmd'.open => On(0) BY <1>3
  <2>2. QED BY <1>2, <2>1
<1>4. cmd.segDone \in Nat /\ cmd.fsec \in Nat /\ cmd.segDone + 0 = cmd.segDone /\ cmd.fsec + 0 = cmd.fsec
  BY <1>1 DEF SInv, CommandTyped
<1>5. CASE /\ cmd'.open = cmd.open /\ cmd'.lun = cmd.lun /\ cmd'.seg = cmd.seg /\ rs'.lba = rs.lba
           /\ cmd'.segDone = cmd.segDone /\ cmd'.fsec = cmd.fsec
  <2>1. cmd'.open => On(0) BY <1>4, <1>5
  <2>2. QED BY <1>2, <2>1
<1>6. CASE WaitBuffer \/ ReadPiece \/ RunEnded
  <2>1. cmd'.open = cmd.open /\ cmd'.lun = cmd.lun /\ cmd'.seg = cmd.seg /\ rs'.lba = rs.lba
        /\ cmd'.segDone = cmd.segDone /\ cmd'.fsec = cmd.fsec
    BY <1>1, <1>6, WaitBufferIs, ReadPieceIs, RunEndedIs DEF Stays, Goes, readVars
  <2>2. QED BY <1>5, <2>1
<1>7. CASE Queue
  <2>1. cmd'.open = cmd.open /\ cmd'.lun = cmd.lun /\ cmd'.seg = cmd.seg /\ rs'.lba = rs.lba
        /\ cmd'.segDone = cmd.segDone /\ cmd'.fsec = cmd.fsec
    BY <1>1, <1>7, QueueIs DEF readVars
  <2>2. QED BY <1>5, <2>1
<1>8. CASE PieceRead
  <2>1. cmd.pc = "read" BY <1>1, <1>8, PieceReadIs
  <2>2. Piece \in Nat
    <3>1. cmd.filled < Chunk /\ cmd.segDone < cmd.seg BY <1>1, <2>1 DEF SInv, Segment
    <3>2. QED BY <1>1, <3>1, CommandCounts DEF SInv
  <2>3. \/ cmd'.open = FALSE
        \/ /\ cmd'.open = cmd.open /\ cmd'.lun = cmd.lun /\ cmd'.seg = cmd.seg /\ rs'.lba = rs.lba
           /\ cmd'.segDone = cmd.segDone + Piece /\ cmd'.fsec = cmd.fsec + Piece
    BY <1>1, <1>8, PieceReadIs DEF Goes, readVars
  <2>4. cmd'.open => On(Piece) BY <2>3
  <2> HIDE DEF On
  <2>5. QED BY <1>2, <2>2, <2>4
<1>9. CASE Fail \/ Finish \/ Abandoned
  <2>1. CASE Fail
    <3>1. cmd'.open = FALSE BY <1>1, <2>1, FailIs DEF Goes
    <3>2. QED BY <1>3, <3>1
  <2>2. CASE Finish \/ Abandoned
    <3>1. cmd' = IdleCmd BY <2>2 DEF Finish, Abandoned, Return
    <3>2. QED BY <1>3, <3>1, IdleFields
  <2>3. QED BY <1>9, <2>1, <2>2
<1>10. CASE Driver \/ HostTakes \/ Reset \/ Mounts \/ Pulled \/ UNCHANGED vars
  <2>1. cmd' = cmd BY <1>10 DEF Driver, HostTakes, Reset, Mounts, Pulled, vars
  <2>2. rs'.lba = rs.lba
    <3>1. CASE rs' = rs BY <3>1
    <3>2. CASE StartChunk \/ ChunkRead \/ RecoverRead
      BY <1>1, <3>2, StartChunkIs, ChunkReadIs, RecoverReadIs DEF Stream, SInv
    <3>3. QED BY <1>10, <3>1, <3>2
      DEF Driver, StreamStep, ChunkFails, HostTakes, Reset, Mounts, Pulled, PullCard, vars, readVars
  <2>3. QED BY <1>5, <2>1, <2>2
<1>11. CASE Host
  <2>1. PICK l \in {"sd", "dvd", "disk"}, lba \in Starts, c \in CmdLens : Issue(l, lba, c[1], c[2]) BY <1>11 DEF Host
  <2>2. cmd.pc = "idle" /\ (cmd' = cmd \/ ~cmd'.open) BY <2>1, IssueIs
  <2>3. ~cmd'.open BY <1>1, <2>2 DEF SInv, Segment
  <2>4. QED BY <1>3, <2>3
<1>12. CASE MapRun BY <1>12, StreamBegins
<1>13. QED BY <1>6, <1>7, <1>8, <1>9, <1>10, <1>11, <1>12 DEF Next, Main

(* What a chunk holds stays in it while the rest of it is filled.           *)
LEMMA FilledGrows ==
  ASSUME UInv, FilledTrue, [Next]_vars, cmd.pc \in InChunk, cmd'.pc \in InChunk,
         cmd'.lun = cmd.lun, cmd'.idx = cmd.idx, NEW k \in Nat, cmd'.filled = cmd.filled + k, cmd'.fsec = cmd.fsec + k,
         \A x \in 1..k : mem'[cmd.idx][cmd.filled + x] = Expected(cmd.lun, cmd.fsec + x - 1)
  PROVE  FilledTrue'
<1>1. /\ cmd.idx \in Buf /\ cmd.filled \in Nat /\ cmd.fsec \in Nat /\ cmd.filled <= ChunkLen /\ ChunkLen \in Nat
  <2>1. RInv /\ SInv BY DEF UInv
  <2>2. cmd.filled <= Chunk /\ Chunk \in 0..ChunkLen /\ ChunkLen \in Nat BY <2>1, CommandCounts DEF SInv, CommandTyped
  <2>3. QED BY <2>1, <2>2 DEF RInv, Typed, SInv, CommandTyped
<1>2. ~Finish /\ ~Abandoned
  <2>1. cmd' # IdleCmd BY IdleFields DEF InChunk
  <2>2. QED BY <2>1 DEF Finish, Abandoned, Return
<1>3. MemAbove BY <1>2, MemKept
<1>4. dir' = dir /\ img_cur' = img_cur BY ImageStays DEF InChunk
<1>5. SUFFICES ASSUME NEW x \in 1..cmd'.filled
               PROVE  mem'[cmd'.idx][x] = Expected(cmd.lun, cmd.fsec - cmd.filled + x - 1)'
  BY DEF FilledTrue
<1>6. Expected(cmd.lun, cmd.fsec - cmd.filled + x - 1)' = Expected(cmd'.lun, cmd'.fsec - cmd'.filled + x - 1)
  BY <1>4, ExpectedStays
<1>7. x \in Nat /\ cmd'.fsec - cmd'.filled + x - 1 = cmd.fsec - cmd.filled + x - 1 BY <1>1
<1>8. mem'[cmd.idx][x] = Expected(cmd.lun, cmd.fsec - cmd.filled + x - 1)
  <2>1. CASE x <= cmd.filled
    <3>1. x \in 1..ChunkLen /\ x \in 1..cmd.filled /\ ~(x > cmd.filled) BY <1>1, <1>7, <2>1
    <3>2. mem'[cmd.idx][x] = mem[cmd.idx][x] BY <1>1, <1>3, <3>1 DEF MemAbove
    <3>3. QED BY <3>1, <3>2 DEF FilledTrue
  <2>2. CASE x > cmd.filled
    <3> DEFINE y == x - cmd.filled
    <3>1. y \in 1..k /\ cmd.filled + y = x /\ cmd.fsec + y - 1 = cmd.fsec - cmd.filled + x - 1 BY <1>1, <1>7, <2>2
    <3> HIDE DEF y
    <3>2. mem'[cmd.idx][cmd.filled + y] = Expected(cmd.lun, cmd.fsec + y - 1) BY <3>1
    <3>3. QED BY <3>1, <3>2
  <2>3. QED BY <1>1, <1>7, <2>1, <2>2
<1>9. QED BY <1>6, <1>7, <1>8

LEMMA ZerosKept ==
  ASSUME UInv, FilledTrue, MapRun
  PROVE  FilledTrue'
<1>1. RInv /\ SInv /\ Faults /\ MapInv /\ InRange BY DEF UInv
<1>2. cmd.pc = "fill" /\ cmd.filled < Chunk /\ [Next]_vars BY <1>1, MapRunIs DEF Next, Main
<1>3. cmd.filled \in Nat /\ cmd.fsec \in Nat /\ Chunk \in 0..ChunkLen /\ cmd.idx \in Buf /\ Buffers(mem) /\ Rest \in Int
      /\ ChunkLen \in Nat
  BY <1>1, CommandCounts DEF SInv, CommandTyped, RInv, Typed
<1>4. PICK m : LunTells(m, cmd.lun, cmd.fsec, Rest) /\
         \/ Stays("fail")
         \/ /\ m.run # 0 /\ m.sd = -1
            /\ LET z == Lesser(m.run, Chunk - cmd.filled)
               IN /\ Store(cmd.idx, cmd.filled, [i \in 1..z |-> Zero])
                  /\ Goes("fill", cmd.filled + z, cmd.fsec + z, cmd.seg, cmd.segDone, cmd.open)
         \/ Goes("fill", cmd.filled, cmd.fsec, Lesser(m.run, StreamMax), 0, TRUE) /\ mem' = mem
  BY <1>1, MapRunIs
<1>5. CASE Stays("fail") BY <1>5 DEF Stays, Goes, FilledTrue, InChunk
<1>6. CASE Goes("fill", cmd.filled, cmd.fsec, Lesser(m.run, StreamMax), 0, TRUE)
  <2>1. cmd'.pc = "fill" /\ cmd'.lun = cmd.lun /\ cmd'.idx = cmd.idx /\ cmd'.filled = cmd.filled + 0
        /\ cmd'.fsec = cmd.fsec + 0
    BY <1>3, <1>6 DEF Goes
  <2>2. 0 \in Nat /\ \A x \in 1..0 : mem'[cmd.idx][cmd.filled + x] = Expected(cmd.lun, cmd.fsec + x - 1) OBVIOUS
  <2>3. QED BY <1>2, <2>1, <2>2, FilledGrows DEF InChunk
<1>7. CASE /\ m.run # 0 /\ m.sd = -1
           /\ LET z == Lesser(m.run, Chunk - cmd.filled)
              IN /\ Store(cmd.idx, cmd.filled, [i \in 1..z |-> Zero])
                 /\ Goes("fill", cmd.filled + z, cmd.fsec + z, cmd.seg, cmd.segDone, cmd.open)
  <2> DEFINE z == Lesser(m.run, Chunk - cmd.filled)
             s == [i \in 1..z |-> Zero]
  <2>1. Store(cmd.idx, cmd.filled, s) /\ Goes("fill", cmd.filled + z, cmd.fsec + z, cmd.seg, cmd.segDone, cmd.open)
    BY <1>7
  <2>2. z \in Nat /\ z <= m.run /\ z <= Chunk - cmd.filled /\ m.run \in Nat
    <3>1. m.run \in Nat /\ Chunk - cmd.filled \in Nat BY <1>2, <1>3, <1>4 DEF LunTells
    <3>2. QED BY <3>1 DEF Lesser
  <2>3. \A x \in 0..m.run - 1 : Expected(cmd.lun, cmd.fsec + x) = Zero BY <1>4, <1>7 DEF LunTells
  <2> HIDE DEF z
  <2>4. Len(s) = z /\ \A x \in 1..z : s[x] = Zero BY <2>2
  <2> HIDE DEF s
  <2>5. \A c \in Buf, x \in 1..ChunkLen :
          mem'[c][x] = IF c = cmd.idx /\ x > cmd.filled /\ x <= cmd.filled + z THEN s[x - cmd.filled] ELSE mem[c][x]
    BY <1>3, <2>1, <2>2, <2>4, StoreIs
  <2>6. ASSUME NEW x \in 1..z PROVE mem'[cmd.idx][cmd.filled + x] = Expected(cmd.lun, cmd.fsec + x - 1)
    <3>1. /\ cmd.filled + x \in 1..ChunkLen /\ cmd.filled + x > cmd.filled /\ cmd.filled + x <= cmd.filled + z
          /\ (cmd.filled + x) - cmd.filled = x /\ x - 1 \in 0..m.run - 1 /\ cmd.fsec + (x - 1) = cmd.fsec + x - 1
      BY <1>3, <2>2
    <3>2. mem'[cmd.idx][cmd.filled + x] = s[x] BY <1>3, <2>5, <3>1
    <3>3. Expected(cmd.lun, cmd.fsec + x - 1) = Zero BY <2>3, <3>1
    <3>4. QED BY <2>4, <3>2, <3>3
  <2>7. cmd'.pc = "fill" /\ cmd'.lun = cmd.lun /\ cmd'.idx = cmd.idx /\ cmd'.filled = cmd.filled + z
        /\ cmd'.fsec = cmd.fsec + z
    BY <2>1 DEF Goes
  <2>8. QED BY <1>2, <2>2, <2>6, <2>7, FilledGrows DEF InChunk
<1>8. QED BY <1>4, <1>5, <1>6, <1>7

LEMMA FilledKept ==
  ASSUME UInv, StreamTrue, FilledTrue, PieceTrue, [Next]_vars
  PROVE  FilledTrue'
<1>1. RInv /\ SInv /\ Faults /\ MapInv /\ InRange BY DEF UInv
<1>2. cmd.filled \in Nat /\ cmd.fsec \in Nat /\ cmd.segDone \in Nat /\ cmd.seg \in Nat BY <1>1 DEF SInv, CommandTyped
<1>3. CASE cmd'.pc \notin InChunk BY <1>3 DEF FilledTrue
<1>4. CASE /\ cmd'.pc \in InChunk => cmd.pc \in InChunk
           /\ cmd'.lun = cmd.lun /\ cmd'.idx = cmd.idx /\ cmd'.filled = cmd.filled /\ cmd'.fsec = cmd.fsec
  <2>1. cmd'.filled = cmd.filled + 0 /\ cmd'.fsec = cmd.fsec + 0 BY <1>2, <1>4
  <2>2. 0 \in Nat /\ \A x \in 1..0 : mem'[cmd.idx][cmd.filled + x] = Expected(cmd.lun, cmd.fsec + x - 1) OBVIOUS
  <2>3. CASE cmd.pc \in InChunk /\ cmd'.pc \in InChunk BY <1>4, <2>1, <2>2, <2>3, FilledGrows
  <2>4. QED BY <1>3, <1>4, <2>3
<1>5. CASE WaitBuffer
  <2>1. cmd'.pc = "drain" \/ cmd'.filled = 0 BY <1>1, <1>5, WaitBufferIs DEF Stays, Goes
  <2>2. QED BY <2>1 DEF FilledTrue, InChunk
<1>6. CASE MapRun BY <1>6, ZerosKept
<1>7. CASE ReadPiece \/ RunEnded
  <2>1. cmd.pc \in InChunk /\ cmd'.lun = cmd.lun /\ cmd'.idx = cmd.idx /\ cmd'.filled = cmd.filled /\ cmd'.fsec = cmd.fsec
    BY <1>1, <1>7, ReadPieceIs, RunEndedIs DEF Stays, Goes, InChunk
  <2>2. QED BY <1>4, <2>1
<1>8. CASE PieceRead
  <2>1. cmd.pc = "read" /\ io.pc = "idle" /\ mem' = mem BY <1>1, <1>8, PieceReadIs
  <2>2. \/ cmd'.pc = "fail"
        \/ /\ rret = "OK" /\ cmd'.pc \in {"fill", "end"} /\ cmd'.lun = cmd.lun /\ cmd'.idx = cmd.idx
           /\ cmd'.filled = cmd.filled + Piece /\ cmd'.fsec = cmd.fsec + Piece
    BY <1>1, <1>8, PieceReadIs DEF Goes
  <2>3. CASE cmd'.pc = "fail" BY <1>3, <2>3 DEF InChunk
  <2>4. CASE /\ rret = "OK" /\ cmd'.pc \in {"fill", "end"} /\ cmd'.lun = cmd.lun /\ cmd'.idx = cmd.idx
             /\ cmd'.filled = cmd.filled + Piece /\ cmd'.fsec = cmd.fsec + Piece
    <3>1. Piece \in Nat /\ Piece <= cmd.seg - cmd.segDone /\ cmd.open /\ rs.lba \in Nat
      <4>1. cmd.filled < Chunk /\ cmd.segDone < cmd.seg /\ cmd.open BY <1>1, <2>1 DEF SInv, Segment
      <4>2. QED BY <1>1, <4>1, CommandCounts DEF SInv, StreamTyped
    <3>2. ASSUME NEW x \in 1..Piece PROVE mem'[cmd.idx][cmd.filled + x] = Expected(cmd.lun, cmd.fsec + x - 1)
      <4> DEFINE y == cmd.segDone + x - 1
      <4>1. mem[cmd.idx][cmd.filled + x] = Block(rs.lba + cmd.segDone + x - 1) BY <2>1, <2>4 DEF PieceTrue, PieceIn
      <4>2. y \in cmd.segDone..cmd.seg - 1 BY <1>2, <3>1
      <4>3. rs.lba + y = rs.lba + cmd.segDone + x - 1 /\ cmd.fsec - cmd.segDone + y = cmd.fsec + x - 1 BY <1>2, <3>1
      <4> HIDE DEF y
      <4>4. Expected(cmd.lun, cmd.fsec - cmd.segDone + y) = Block(rs.lba + y) BY <3>1, <4>2 DEF StreamTrue
      <4>5. QED BY <2>1, <4>1, <4>3, <4>4
    <3>3. cmd.pc \in InChunk /\ cmd'.pc \in InChunk BY <2>1, <2>4 DEF InChunk
    <3>4. QED BY <2>4, <3>1, <3>2, <3>3, FilledGrows
  <2>5. QED BY <2>2, <2>3, <2>4
<1>9. CASE Driver \/ HostTakes \/ Reset \/ Mounts \/ Pulled \/ UNCHANGED vars
  <2>1. cmd' = cmd BY <1>9 DEF Driver, HostTakes, Reset, Mounts, Pulled, vars
  <2>2. QED BY <1>4, <2>1
<1>10. CASE Host
  <2>1. PICK l \in {"sd", "dvd", "disk"}, lba \in Starts, c \in CmdLens : Issue(l, lba, c[1], c[2]) BY <1>10 DEF Host
  <2>2. cmd.pc = "idle" /\ (cmd' = cmd \/ cmd'.pc = "wait") BY <2>1, IssueIs
  <2>3. QED BY <1>3, <2>2 DEF InChunk
<1>11. Queue \/ Fail \/ Finish \/ Abandoned => cmd'.pc \notin InChunk
  <2>1. Queue \/ Fail => cmd'.pc \in {"wait", "drain"} BY <1>1, QueueIs, FailIs DEF Goes
  <2>2. Finish \/ Abandoned => cmd'.pc = "idle" BY IdleFields DEF Finish, Abandoned, Return
  <2>3. QED BY <2>1, <2>2 DEF InChunk
<1>12. QED BY <1>3, <1>5, <1>6, <1>7, <1>8, <1>9, <1>10, <1>11 DEF Next, Main

(* A push that comes back has its blocks in the buffer.                     *)
LEMMA PieceLands ==
  ASSUME UInv, Driver, ChunkRead
  PROVE  PieceTrue'
<1>1. RInv /\ SInv BY DEF UInv
<1>2. StreamTyped /\ Buffers(mem) /\ cmd.idx \in Buf /\ cmd' = cmd BY <1>1 DEF SInv, RInv, Typed, Driver
<1>3. /\ io.pc = "dma" /\ line.mode \in {"data", "one"} /\ rs'.lba = rs.lba
  BY <1>2, ChunkReadIs DEF Stream
<1>4. /\ io.buf = cmd.idx /\ io.at = cmd.filled /\ io.cnt = Piece /\ io.before = cmd.segDone
      /\ line.at = rs.lba + cmd.segDone /\ cmd.filled < Chunk /\ cmd.segDone < cmd.seg
  BY <1>1, <1>3 DEF SInv, Pushing, CardAt, Segment
<1>5. /\ cmd.filled \in Nat /\ cmd.segDone \in Nat /\ rs.lba \in Nat /\ Piece \in Nat /\ cmd.filled + Piece <= ChunkLen
      /\ ChunkLen \in Nat
  <2>1. /\ cmd.filled \in Nat /\ cmd.segDone \in Nat /\ cmd.seg \in Nat /\ rs.lba \in Nat /\ Chunk \in 0..ChunkLen
        /\ ChunkLen \in Nat
    BY <1>1, CommandCounts DEF SInv, StreamTyped
  <2>2. Piece \in Int /\ Piece <= Chunk - cmd.filled /\ (Piece = Chunk - cmd.filled \/ Piece = cmd.seg - cmd.segDone)
    BY <1>1, CommandCounts DEF SInv
  <2>3. QED BY <1>4, <2>1, <2>2
<1> DEFINE s == [i \in 1..io.cnt |-> Block(line.at + i - 1)]
<1>6. Store(cmd.idx, cmd.filled, s) BY <1>4 DEF ChunkRead
<1>7. Len(s) = Piece /\ \A x \in 1..Piece : s[x] = Block(line.at + x - 1)
  <2>1. s = [i \in 1..Piece |-> Block(line.at + i - 1)] /\ Piece \in Nat BY <1>4, <1>5
  <2> HIDE DEF s
  <2>2. QED BY <2>1
<1> HIDE DEF s
<1>8. \A c \in Buf, x \in 1..ChunkLen :
        mem'[c][x] = IF c = cmd.idx /\ x > cmd.filled /\ x <= cmd.filled + Piece THEN s[x - cmd.filled] ELSE mem[c][x]
  BY <1>2, <1>5, <1>6, <1>7, StoreIs
<1>9. ASSUME NEW x \in 1..Piece
      PROVE  mem'[cmd.idx][cmd.filled + x] = Block(rs.lba + cmd.segDone + x - 1)
  <2>1. /\ cmd.filled + x \in 1..ChunkLen /\ cmd.filled + x > cmd.filled /\ cmd.filled + x <= cmd.filled + Piece
        /\ (cmd.filled + x) - cmd.filled = x
    BY <1>5
  <2>2. mem'[cmd.idx][cmd.filled + x] = s[x] BY <1>2, <1>8, <2>1
  <2>3. QED BY <1>4, <1>7, <2>2
<1>10. Piece' = Piece BY <1>2, SameCommand
<1>11. QED BY <1>2, <1>3, <1>9, <1>10 DEF PieceTrue, Block

LEMMA PieceKept ==
  ASSUME UInv, PieceTrue, [Next]_vars
  PROVE  PieceTrue'
<1>1. RInv /\ SInv BY DEF UInv
<1>2. CASE ~PieceIn' BY <1>2 DEF PieceTrue
<1>3. CASE cmd' = cmd /\ (PieceIn' => PieceIn /\ rs'.lba = rs.lba /\ mem' = mem)
  <2>1. Piece' = Piece BY <1>3, SameCommand
  <2>2. QED BY <1>3, <2>1 DEF PieceTrue, Block
<1>4. CASE Driver
  <2>1. StreamTyped /\ cmd' = cmd BY <1>1, <1>4 DEF SInv, Driver
  <2>2. CASE ChunkRead BY <1>4, <2>2, PieceLands
  <2>3. CASE StartChunk \/ ChunkFails
    <3>1. io'.pc # "idle" BY <2>1, <2>3, StartChunkIs, ChunkFailsIs DEF Push
    <3>2. QED BY <1>2, <3>1 DEF PieceIn
  <2>4. CASE RecoverRead
    <3>1. io.e # "OK" BY <1>1, <2>1, <2>4, RecoverReadIs DEF SInv, Pushing
    <3>2. rret' # "OK" \/ io'.pc # "idle" BY <2>1, <2>4, <3>1, RecoverReadIs DEF Push
    <3>3. QED BY <1>2, <3>2 DEF PieceIn
  <2>5. QED BY <1>4, <2>2, <2>3, <2>4 DEF Driver, StreamStep
<1>5. CASE ReadPiece
  <2>1. io'.pc # "idle" BY <1>1, <1>5, ReadPieceIs
  <2>2. QED BY <1>2, <2>1 DEF PieceIn
<1>6. WaitBuffer \/ MapRun \/ PieceRead \/ RunEnded \/ Queue \/ Fail \/ Finish \/ Abandoned => cmd'.pc # "read"
  <2>1. WaitBuffer \/ PieceRead \/ RunEnded \/ Queue \/ Fail => cmd'.pc # "read"
    BY <1>1, WaitBufferIs, PieceReadIs, RunEndedIs, QueueIs, FailIs DEF Stays, Goes
  <2>2. MapRun => cmd'.pc # "read" BY <1>1, MapRunIs DEF Stays, Goes, UInv
  <2>3. Finish \/ Abandoned => cmd'.pc # "read" BY IdleFields DEF Finish, Abandoned, Return
  <2>4. QED BY <2>1, <2>2, <2>3
<1>7. Host => cmd'.pc # "read"
  <2>1. SUFFICES ASSUME Host PROVE cmd'.pc # "read" OBVIOUS
  <2>2. PICK l \in {"sd", "dvd", "disk"}, lba \in Starts, c \in CmdLens : Issue(l, lba, c[1], c[2]) BY <2>1 DEF Host
  <2>3. QED BY <2>2, IssueIs
<1>8. CASE Mounts
  <2>1. cmd'.pc # "read" BY <1>8 DEF Mounts, At
  <2>2. QED BY <1>2, <2>1 DEF PieceIn
<1>9. CASE HostTakes \/ Reset \/ Pulled \/ UNCHANGED vars
  <2>1. cmd' = cmd /\ io' = io /\ rret' = rret /\ rs' = rs /\ mem' = mem
    BY <1>9 DEF HostTakes, Reset, Pulled, PullCard, vars, readVars
  <2>2. QED BY <1>3, <2>1 DEF PieceIn
<1>10. cmd'.pc # "read" => ~PieceIn' BY DEF PieceIn
<1>11. QED BY <1>2, <1>4, <1>5, <1>6, <1>7, <1>8, <1>9, <1>10 DEF Next, Main

LEMMA AtMostOne ==
  ASSUME NEW S, NEW q \in Seq(S), Len(q) <= 1, NEW k \in 1..Len(q)
  PROVE  q # <<>> /\ Len(q) = 1 /\ k = 1 /\ q[k] \in S
<1> DEFINE n == Len(q)
<1>1. n \in Nat /\ n <= 1 /\ k \in 1..n OBVIOUS
<1>2. q[k] \in S /\ (q = <<>> <=> n = 0) BY QueueFront
<1> HIDE DEF n
<1>3. n = 1 /\ k = 1 BY <1>1
<1>4. QED BY <1>2, <1>3 DEF n

(* What is on its way is not written into.                                  *)
LEMMA OnItsWay ==
  ASSUME UInv, InTurn, MemAbove, NEW k \in 1..Len(txq), NEW x \in 1..txq[k].len
  PROVE  mem'[txq[k].buf][x] = mem[txq[k].buf][x]
<1>1. txq \in Seq(Packets) /\ cmd.idx \in Buf BY DEF UInv, RInv, Typed
<1>2. txq[k].buf \in Buf /\ txq[k].len \in 0..ChunkLen
  <2>1. txq[k] \in Packets BY <1>1, QueueFront
  <2>2. QED BY <2>1 DEF Packets
<1>3. x \in 1..ChunkLen BY <1>2, ReadAssumption
<1>4. ~(cmd.pc \in InChunk /\ txq[k].buf = cmd.idx)
  <2>1. SUFFICES ASSUME cmd.pc \in InChunk PROVE txq[k].buf # cmd.idx OBVIOUS
  <2>2. Len(txq) = 1 /\ k = Len(txq) /\ txq # <<>>
    <3>1. Len(txq) <= 1 BY <2>1 DEF InTurn
    <3>2. QED BY <1>1, <3>1, AtMostOne
  <2>3. cmd.idx = (txq[k].buf + 1) % NBuf BY <2>2 DEF InTurn
  <2>4. Buf = 0..NBuf - 1 /\ NBuf \in Nat /\ NBuf >= 2 BY CommandAssumption
  <2>5. \A b \in 0..NBuf - 1 : (b + 1) % NBuf # b
    <3>1. TAKE b \in 0..NBuf - 1
    <3>2. CASE b = NBuf - 1
      <4>1. (b + 1) % NBuf = 0 BY <2>4, <3>2
      <4>2. QED BY <2>4, <3>2, <4>1
    <3>3. CASE b < NBuf - 1
      <4>1. (b + 1) % NBuf = b + 1 BY <2>4, <3>3
      <4>2. QED BY <3>3, <4>1
    <3>4. QED BY <2>4, <3>2, <3>3
  <2>6. QED BY <1>2, <2>3, <2>4, <2>5
<1>5. QED BY <1>2, <1>3, <1>4 DEF MemAbove

LEMMA QueueStays ==
  ASSUME UInv, InTurn, QueueTrue, [Next]_vars, txq' = txq, ~HostTakes, ~Finish, ~Abandoned
  PROVE  QueueTrue'
<1>1. txq \in Seq(Packets) /\ (cmd.pc = "idle" => txq = <<>>) BY DEF UInv, RInv, Typed, Counted
<1>2. SUFFICES ASSUME ~moved', NEW k \in 1..Len(txq), NEW x \in 1..txq[k].len
               PROVE  mem'[txq[k].buf][x] = Expected(host.lun, host.first + Len(host.got) + Before(k) + x - 1)'
  BY DEF QueueTrue
<1>3. cmd.pc # "idle" BY <1>1, <1>2
<1>4. host'.lun = host.lun /\ host'.first = host.first /\ host'.got = host.got /\ moved' = moved BY <1>2, <1>3, HostSide
<1>5. dir' = dir /\ img_cur' = img_cur BY <1>3, ImageStays
<1>6. mem'[txq[k].buf][x] = mem[txq[k].buf][x] BY <1>2, MemKept, OnItsWay
<1>7. mem[txq[k].buf][x] = Expected(host.lun, host.first + Len(host.got) + Before(k) + x - 1) BY <1>2, <1>4 DEF QueueTrue
<1>8. Expected(host.lun, host.first + Len(host.got) + Before(k) + x - 1)'
      = Expected(host'.lun, host'.first + Len(host'.got) + Before(k)' + x - 1)
  BY <1>5, ExpectedStays
<1>9. Before(k)' = Before(k) BY DEF Before
<1>10. QED BY <1>4, <1>6, <1>7, <1>8, <1>9

LEMMA QueueGrows ==
  ASSUME UInv, InTurn, Same, FilledTrue, QueueTrue, Queue
  PROVE  QueueTrue'
<1> DEFINE p == [buf |-> cmd.idx, len |-> Chunk]
<1>1. RInv /\ SInv BY DEF UInv
<1>2. /\ cmd.pc = "fill" /\ UNCHANGED <<mapVars, moved, readVars, host>> /\ cmd.filled = Chunk
      /\ Len(txq) <= 1 /\ txq' = Append(txq, p)
  BY <1>1, QueueIs
<1>3. p \in Packets BY <1>1, CommandCounts DEF RInv, Typed, Packets, SInv
<1>4. txq \in Seq(Packets) /\ Len(txq) \in Nat BY <1>1 DEF RInv, Typed
<1>5. txq # <<>> => Len(txq) = 1
  <2>1. Len(txq) <= 1 BY <1>2
  <2>2. txq # <<>> => 1 \in 1..Len(txq) BY <1>4, QueueFront
  <2>3. QED BY <1>4, <2>1, <2>2, AtMostOne
<1>6. p.buf = cmd.idx /\ p.len = Chunk OBVIOUS
<1> HIDE DEF p
<1>7. /\ Len(txq') = Len(txq) + 1 /\ txq'[Len(txq) + 1] = p /\ \A i \in 1..Len(txq) : txq'[i] = txq[i]
  BY <1>2, <1>3, <1>4, QueueBack
<1>8. SUFFICES ASSUME ~moved, NEW k \in 1..Len(txq'), NEW x \in 1..txq'[k].len
               PROVE  mem[txq'[k].buf][x] = Expected(host.lun, host.first + Len(host.got) + Before(k) + x - 1)'
  BY <1>2 DEF QueueTrue, readVars
<1>9. Expected(host.lun, host.first + Len(host.got) + Before(k) + x - 1)'
      = Expected(host.lun, host.first + Len(host.got) + Before(k)' + x - 1)
  <2>1. Expected(host.lun, host.first + Len(host.got) + Before(k) + x - 1)'
        = Expected(host'.lun, host'.first + Len(host'.got) + Before(k)' + x - 1)
    BY <1>2, ExpectedStays DEF mapVars
  <2>2. QED BY <1>2, <2>1
<1>10. CASE k = Len(txq) + 1
  <2>1. txq'[k] = p BY <1>7, <1>10
  <2>2. Before(k)' = OnTheWay(txq)
    <3>1. CASE txq = <<>>
      <4>1. k = 1 /\ OnTheWay(txq) = 0 BY <1>10, <3>1 DEF OnTheWay
      <4>2. QED BY <4>1 DEF Before
    <3>2. CASE txq # <<>>
      <4>1. Len(txq) = 1 BY <1>5, <3>2
      <4>2. k = 2 /\ OnTheWay(txq) = txq[1].len /\ txq'[1] = txq[1] BY <1>7, <1>10, <3>2, <4>1 DEF OnTheWay
      <4>3. QED BY <4>2 DEF Before
    <3>3. QED BY <3>1, <3>2
  <2>3. /\ host.lun = cmd.lun /\ cmd.fsec = host.first + cmd.sent + cmd.filled /\ host.first \in Nat
        /\ cmd.sent = Len(host.got) + OnTheWay(txq)
    BY <1>1, <1>2, <1>8 DEF Same, Filling, Filled, RInv, Counted
  <2>4. mem[cmd.idx][x] = Expected(cmd.lun, cmd.fsec - cmd.filled + x - 1)
    BY <1>2, <1>6, <1>8, <2>1 DEF FilledTrue, InChunk
  <2>5. cmd.fsec - cmd.filled + x - 1 = host.first + Len(host.got) + Before(k)' + x - 1
    <3>1. Len(host.got) \in Nat BY <1>1, ListFacts DEF RInv, Typed
    <3>2. cmd.sent \in Nat /\ cmd.filled \in Nat /\ Chunk \in Nat BY <1>1, CommandCounts DEF SInv
    <3>3. OnTheWay(txq) = cmd.sent - Len(host.got)
      <4>1. OnTheWay(txq) \in Int
        <5>1. txq # <<>> => Len(txq) = 1 /\ txq[1] \in Packets
          <6>1. txq # <<>> => Len(txq) = 1 BY <1>5
          <6>2. QED BY <1>4, <6>1, QueueFront
        <5>2. QED BY <5>1, ReadAssumption DEF OnTheWay, Packets
      <4>2. QED BY <2>3, <3>1, <3>2, <4>1
    <3>4. x \in Int BY <1>6, <2>1
    <3>5. QED BY <2>2, <2>3, <3>1, <3>2, <3>3, <3>4
  <2>6. QED BY <1>6, <1>9, <2>1, <2>3, <2>4, <2>5
<1>11. CASE k # Len(txq) + 1
  <2>1. k \in 1..Len(txq) BY <1>4, <1>7, <1>11
  <2>2. k = 1 /\ txq'[k] = txq[k] BY <1>2, <1>4, <1>7, <2>1
  <2>3. Before(k)' = Before(k) BY <2>2 DEF Before
  <2>4. mem[txq[k].buf][x] = Expected(host.lun, host.first + Len(host.got) + Before(k) + x - 1)
    BY <1>8, <2>1, <2>2 DEF QueueTrue
  <2>5. QED BY <1>9, <2>2, <2>3, <2>4
<1>12. QED BY <1>10, <1>11

(* The host takes the oldest chunk: what it has, and what is left for it.   *)
LEMMA Joined ==
  ASSUME NEW s, NEW t, IsList(s), IsList(t), NEW k \in 1..Len(s \o t)
  PROVE  (s \o t)[k] = IF k <= Len(s) THEN s[k] ELSE t[k - Len(s)]
<1>1. PICK S : s \in Seq(S) BY DEF IsList
<1>2. PICK T : t \in Seq(T) BY DEF IsList
<1>3. QED BY <1>1, <1>2

LEMMA FirstBlocksAre ==
  ASSUME Buffers(mem), NEW b \in Buf, NEW len \in 0..ChunkLen, NEW x \in 1..len
  PROVE  SubSeq(mem[b], 1, len)[x] = mem[b][x]
<1> DEFINE S == {mem[b][i] : i \in 1..ChunkLen}
<1>1. mem[b] = [i \in 1..ChunkLen |-> mem[b][i]] BY DEF Buffers
<1>2. mem[b] \in [1..ChunkLen -> S] BY <1>1
<1> HIDE DEF S
<1>3. mem[b] \in Seq(S) /\ Len(mem[b]) = ChunkLen BY <1>2, ReadAssumption
<1>4. QED BY <1>3, ReadAssumption

LEMMA TakenIs ==
  ASSUME UInv, HostTakes
  PROVE  /\ txq \in Seq(Packets) /\ txq # <<>> /\ txq' = Tail(txq) /\ ~moved /\ cmd.pc # "idle"
         /\ UNCHANGED <<mapVars, moved, cmd, mem>> /\ txq[1] \in Packets /\ txq[1].len \in Nat
         /\ host'.lun = host.lun /\ host'.first = host.first
         /\ Len(host.got) \in Nat /\ Len(host'.got) = Len(host.got) + txq[1].len
         /\ \A k \in 1..Len(host'.got) :
              host'.got[k] = IF k <= Len(host.got) THEN host.got[k] ELSE mem[txq[1].buf][k - Len(host.got)]
<1>1. RInv /\ HostRec(host) /\ Buffers(mem) /\ IsList(host.got) BY DEF UInv, RInv, Typed
<1>2. txq \in Seq(Packets) /\ txq # <<>> /\ txq' = Tail(txq) /\ ~moved /\ UNCHANGED <<mapVars, moved, cmd, mem>>
  BY <1>1 DEF HostTakes, Unmoved, readVars, RInv, Typed
<1>3. cmd.pc # "idle" BY <1>1, <1>2 DEF RInv, Counted
<1>4. Head(txq) = txq[1] /\ txq[1] \in Packets
  <2>1. Len(txq) \in Nat /\ Len(txq) # 0 BY <1>2, QueueFront
  <2>2. 1 \in 1..Len(txq) BY <2>1
  <2>3. QED BY <1>2, <2>2, QueueFront
<1>5. txq[1].buf \in Buf /\ txq[1].len \in 0..ChunkLen /\ txq[1].len \in Nat BY <1>4, ReadAssumption DEF Packets
<1> DEFINE s == SubSeq(mem[txq[1].buf], 1, txq[1].len)
<1>6. IsList(s) /\ Len(s) = txq[1].len BY <1>1, <1>5, FirstBlocks
<1>7. \A x \in 1..txq[1].len : s[x] = mem[txq[1].buf][x] BY <1>1, <1>5, FirstBlocksAre
<1>8. host' = [host EXCEPT !.got = host.got \o s] BY <1>4 DEF HostTakes
<1> HIDE DEF s
<1>9. host'.lun = host.lun /\ host'.first = host.first /\ host'.got = host.got \o s BY <1>1, <1>8 DEF HostRec
<1>10. Len(host.got) \in Nat /\ Len(host'.got) = Len(host.got) + txq[1].len BY <1>1, <1>6, <1>9, ListFacts
<1>11. ASSUME NEW k \in 1..Len(host'.got)
       PROVE  host'.got[k] = IF k <= Len(host.got) THEN host.got[k] ELSE mem[txq[1].buf][k - Len(host.got)]
  <2>1. host'.got[k] = IF k <= Len(host.got) THEN host.got[k] ELSE s[k - Len(host.got)] BY <1>1, <1>6, <1>9, Joined
  <2>2. k > Len(host.got) => k - Len(host.got) \in 1..txq[1].len BY <1>5, <1>10
  <2>3. ~(k <= Len(host.got)) => k > Len(host.got) BY <1>10
  <2>4. QED BY <1>7, <2>1, <2>2, <2>3
<1>12. QED BY <1>2, <1>3, <1>4, <1>5, <1>9, <1>10, <1>11

LEMMA QueueTaken ==
  ASSUME UInv, Same, QueueTrue, HostTakes
  PROVE  QueueTrue'
<1>1. /\ txq \in Seq(Packets) /\ txq # <<>> /\ txq' = Tail(txq) /\ ~moved /\ UNCHANGED <<mapVars, moved, cmd, mem>>
      /\ txq[1].len \in Nat /\ host'.lun = host.lun /\ host'.first = host.first
      /\ Len(host.got) \in Nat /\ Len(host'.got) = Len(host.got) + txq[1].len
  BY TakenIs
<1>2. SUFFICES ASSUME NEW k \in 1..Len(txq'), NEW x \in 1..txq'[k].len
               PROVE  mem[txq'[k].buf][x] = Expected(host.lun, host.first + Len(host.got) + Before(k) + x - 1)'
  BY <1>1 DEF QueueTrue
<1>3. Len(txq) = 2 /\ k = 1 /\ txq'[k] = txq[2]
  <2>1. Len(txq) <= 2 /\ Len(txq) \in Nat /\ Tail(txq) \in Seq(Packets) /\ Len(Tail(txq)) = Len(txq) - 1
    BY <1>1, QueueFront DEF UInv, RInv, Typed
  <2>2. Len(Tail(txq)) <= 1 BY <2>1
  <2>3. Tail(txq) # <<>> /\ k = 1 BY <1>1, <1>2, <2>1, <2>2, AtMostOne
  <2>4. QED BY <1>1, <2>1, <2>3, LastLeft
<1>4. 2 \in 1..Len(txq) BY <1>3
<1>5. mem[txq[2].buf][x] = Expected(host.lun, host.first + Len(host.got) + Before(2) + x - 1)
  BY <1>1, <1>2, <1>3, <1>4 DEF QueueTrue
<1>6. Before(2) = txq[1].len BY DEF Before
<1>7. Expected(host.lun, host.first + Len(host.got) + Before(k) + x - 1)'
      = Expected(host'.lun, host'.first + Len(host'.got) + Before(k)' + x - 1)
  BY <1>1, ExpectedStays DEF mapVars
<1>8. Before(k)' = 0 BY <1>3 DEF Before
<1>9. host'.first + Len(host'.got) + 0 + x - 1 = host.first + Len(host.got) + txq[1].len + x - 1
  <2>1. host.first \in Nat /\ x \in Int BY DEF Same
  <2>2. QED BY <1>1, <2>1
<1>10. QED BY <1>1, <1>3, <1>5, <1>6, <1>7, <1>8, <1>9

LEMMA QueueKept ==
  ASSUME UInv, InTurn, Same, Truth, [Next]_vars
  PROVE  QueueTrue'
<1>1. FilledTrue /\ QueueTrue BY DEF Truth
<1>2. CASE txq' = <<>> BY <1>2 DEF QueueTrue
<1>3. CASE txq' = txq /\ ~HostTakes /\ ~Finish /\ ~Abandoned BY <1>1, <1>3, QueueStays
<1>4. CASE Queue BY <1>1, <1>4, QueueGrows
<1>5. CASE HostTakes BY <1>1, <1>5, QueueTaken
<1>6. Finish \/ Abandoned \/ Host \/ Reset => txq' = <<>> BY DEF Finish, Abandoned, Return, Host, Issue, Reset
<1>7. WaitBuffer \/ MapRun \/ ReadPiece \/ PieceRead \/ RunEnded \/ Fail \/ Driver \/ Mounts \/ Pulled \/ UNCHANGED vars
      => txq' = txq
  BY DEF WaitBuffer, MapRun, ReadPiece, PieceRead, RunEnded, Fail, Driver, Mounts, Pulled, vars
<1>8. QED BY <1>2, <1>3, <1>4, <1>5, <1>6, <1>7 DEF Next, Main

(* What the host has is what it asked for.                                  *)
LEMMA TruthToHost ==
  ASSUME UInv, Same, QueueTrue, ReadTruly, [Next]_vars
  PROVE  ReadTruly'
<1>1. NoCommand.got = <<>> BY DEF NoCommand
<1>2. CASE host'.got = <<>> BY <1>2 DEF ReadTruly
<1>3. CASE HostTakes
  <2>1. /\ ~moved /\ UNCHANGED <<mapVars, mem>> /\ txq # <<>> /\ txq \in Seq(Packets) /\ txq[1].len \in Nat
        /\ host'.lun = host.lun /\ host'.first = host.first
        /\ Len(host.got) \in Nat /\ Len(host'.got) = Len(host.got) + txq[1].len
        /\ \A k \in 1..Len(host'.got) :
              host'.got[k] = IF k <= Len(host.got) THEN host.got[k] ELSE mem[txq[1].buf][k - Len(host.got)]
    BY <1>3, TakenIs
  <2>2. SUFFICES ASSUME NEW k \in 1..Len(host'.got)
                 PROVE  host'.got[k] = Expected(host.lun, host.first + k - 1)'
    BY DEF ReadTruly
  <2>3. Expected(host.lun, host.first + k - 1)' = Expected(host.lun, host.first + k - 1)
    <3>1. Expected(host.lun, host.first + k - 1)' = Expected(host'.lun, host'.first + k - 1)
      BY <2>1, ExpectedStays DEF mapVars
    <3>2. QED BY <2>1, <3>1
  <2>4. CASE k <= Len(host.got)
    <3>1. k \in 1..Len(host.got) BY <2>1, <2>4
    <3>2. host.got[k] = Expected(host.lun, host.first + k - 1) BY <3>1 DEF ReadTruly
    <3>3. QED BY <2>1, <2>3, <2>4, <3>2
  <2>5. CASE ~(k <= Len(host.got))
    <3> DEFINE x == k - Len(host.got)
    <3>1. x \in 1..txq[1].len /\ host.first + Len(host.got) + 0 + x - 1 = host.first + k - 1
      <4>1. host.first \in Nat BY DEF Same
      <4>2. k \in Int /\ k <= Len(host.got) + txq[1].len BY <2>1
      <4> DEFINE g == Len(host.got)
                 t == txq[1].len
                 f == host.first
      <4>3. g \in Nat /\ t \in Nat /\ f \in Nat /\ k \in Int /\ k <= g + t /\ ~(k <= g) /\ x = k - g
        BY <2>1, <2>5, <4>1, <4>2
      <4> HIDE DEF g, t, f, x
      <4>4. x \in 1..t /\ f + g + 0 + x - 1 = f + k - 1 BY <4>3
      <4>5. QED BY <4>4 DEF g, t, f
    <3> HIDE DEF x
    <3>2. 1 \in 1..Len(txq)
      <4>1. Len(txq) \in Nat /\ Len(txq) # 0 BY <2>1, QueueFront
      <4>2. QED BY <4>1
    <3>3. mem[txq[1].buf][x] = Expected(host.lun, host.first + Len(host.got) + Before(1) + x - 1)
      BY <2>1, <3>1, <3>2 DEF QueueTrue
    <3>4. Before(1) = 0 BY DEF Before
    <3>5. host'.got[k] = mem[txq[1].buf][x] BY <2>1, <2>5 DEF x
    <3>6. QED BY <2>3, <3>1, <3>3, <3>4, <3>5
  <2>6. QED BY <2>4, <2>5
<1>4. CASE host'.lun = host.lun /\ host'.first = host.first /\ host'.got = host.got /\ dir' = dir /\ img_cur' = img_cur
  <2>1. SUFFICES ASSUME NEW k \in 1..Len(host.got)
                 PROVE  host.got[k] = Expected(host.lun, host.first + k - 1)'
    BY <1>4 DEF ReadTruly
  <2>2. host.got[k] = Expected(host.lun, host.first + k - 1) BY DEF ReadTruly
  <2>3. Expected(host.lun, host.first + k - 1)' = Expected(host'.lun, host'.first + k - 1) BY <1>4, ExpectedStays
  <2>4. QED BY <1>4, <2>2, <2>3
<1>5. Host => host'.got = <<>>
  <2>1. SUFFICES ASSUME Host PROVE host'.got = <<>> OBVIOUS
  <2>2. PICK l \in {"sd", "dvd", "disk"}, lba \in Starts, c \in CmdLens : Issue(l, lba, c[1], c[2]) BY <2>1 DEF Host
  <2>3. QED BY <2>2, IssueIs
<1>6. CASE ~Mounts /\ ~Host /\ ~HostTakes /\ host' # NoCommand
  <2>1. host'.lun = host.lun /\ host'.first = host.first /\ host'.got = host.got BY <1>6, HostSide, Zenon
  <2>2. dir' = dir /\ img_cur' = img_cur
    BY <1>6
    DEF Next, Main, WaitBuffer, MapRun, ReadPiece, PieceRead, RunEnded, Queue, Fail, Finish, Abandoned, Driver, Reset, Pulled,
        Unmoved, mapVars, vars
  <2>3. QED BY <1>4, <2>1, <2>2
<1>7. Mounts => host' = NoCommand BY DEF Mounts
<1>8. QED BY <1>1, <1>2, <1>3, <1>5, <1>6, <1>7

(* The data a host gets is the data of the blocks it asked for: cmd_read    *)
(* (v5f/msc_core.c), lun_map and img_map (v5f/image_store.c) and the        *)
(* streamed read (v5f/sd_sdio.c), for any card that holds what FatFs and    *)
(* the makers of images promise, any buffers, any commands and any faults.  *)
THEOREM ReadsTruly == Spec => []ReadTruly
<1>1. Init /\ UInv => TInv
  <2>1. SUFFICES ASSUME Init, UInv PROVE TInv OBVIOUS
  <2>2. cmd = IdleCmd /\ host = NoCommand /\ txq = <<>> BY <2>1 DEF Init
  <2>3. host.first = 0 /\ host.got = <<>> /\ cmd.pc = "idle" /\ ~cmd.open BY <2>2, IdleFields DEF NoCommand
  <2>4. InTurn /\ Same BY <2>2, <2>3 DEF InTurn, InChunk, Same, Filling
  <2>5. StreamTrue /\ FilledTrue /\ PieceTrue BY <2>3 DEF StreamTrue, FilledTrue, InChunk, PieceTrue, PieceIn
  <2>6. QueueTrue /\ ReadTruly BY <2>2, <2>3 DEF QueueTrue, ReadTruly
  <2>7. QED BY <2>1, <2>4, <2>5, <2>6 DEF TInv, Truth
<1>2. TInv /\ UInv' /\ [Next]_vars => TInv'
  <2>1. SUFFICES ASSUME TInv, UInv', [Next]_vars PROVE TInv' OBVIOUS
  <2>2. UInv /\ InTurn /\ Same /\ Truth /\ RInv' BY <2>1 DEF TInv, UInv
  <2>3. StreamTrue /\ FilledTrue /\ PieceTrue /\ QueueTrue /\ ReadTruly BY <2>2 DEF Truth
  <2>4. InTurn' /\ Same' BY <2>1, <2>2, TurnKept, SameKept
  <2>5. StreamTrue' /\ FilledTrue' /\ PieceTrue' BY <2>1, <2>2, <2>3, StreamKept, FilledKept, PieceKept
  <2>6. QueueTrue' /\ ReadTruly' BY <2>1, <2>2, <2>3, QueueKept, TruthToHost
  <2>7. QED BY <2>1, <2>4, <2>5, <2>6 DEF TInv, Truth
<1>3. TInv => ReadTruly BY DEF TInv, Truth
<1>4. QED BY <1>1, <1>2, <1>3, UInvariance, PTL DEF Spec
=============================================================================
