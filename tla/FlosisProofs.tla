----------------------------- MODULE FlosisProofs ------------------------------
(***************************************************************************)
(* What a Flosis dumper writes is what the block holds in the end, for any *)
(* number of engines, blocks and frames.                                   *)
(*                                                                         *)
(* The signals are never taken back, so the blocks signalled are those     *)
(* before the one being written, and an engine cannot come round.  The     *)
(* dumper goes past a block that is not signalled once at most, when its   *)
(* engine has returned: its own stop is set before that of the buffer.     *)
(***************************************************************************)
EXTENDS Flosis, SequenceTheorems, TLAPS

(* The engines have returned, and the dumpers are being stopped.           *)
Late == ctrl.pc \in {"dumper", "wbuffer", "join", "end"}

BufferType(w) ==
    /\ DOMAIN w = {"buffer", "signal", "writing", "writePos", "reading", "stop"}
    /\ DOMAIN w.buffer = Blocks
    /\ w.signal \in [Blocks -> BOOLEAN]
    /\ w.writing \in Blocks
    /\ w.reading \in Nat
    /\ w.stop \in BOOLEAN

DumperType(d) ==
    d \in [pc : {"start", "get", "dump", "end"}, stop : BOOLEAN, got : Nat, place : Nat]

(* A sequence, of whatever it holds.                                       *)
IsSequence(s) == s \in Seq({s[i] : i \in DOMAIN s})

Types ==
    /\ DOMAIN wbuffer = Engines /\ DOMAIN dumper = Engines /\ DOMAIN dumped = Engines
    /\ \A e \in Engines :
        BufferType(wbuffer[e]) /\ DumperType(dumper[e]) /\ IsSequence(dumped[e])

(* The order in which the controller stops things.                         *)
StopOrder ==
    /\ Late => EnginesDone
    /\ \A e \in Engines :
        /\ (dumper[e].pc # "start" /\ dumper[e].stop) => Late
        /\ wbuffer[e].stop => Late /\ dumper[e].stop
        /\ (ctrl.pc = "wbuffer" /\ ctrl.at = e) => dumper[e].stop
        /\ ctrl.pc = "init" => dumper[e].pc = "start" /\ ~wbuffer[e].stop
        /\ dumper[e].pc = "start" => ctrl.pc = "init"

(* The blocks of one write buffer.                                         *)
Handed(e) ==
    LET w == wbuffer[e]
        d == dumper[e]
    IN  /\ \A b \in Blocks : w.signal[b] <=> b < w.writing
        /\ w.reading <= w.writing + 1
        /\ (d.pc \in {"start", "get"} \/ ~w.stop) => w.reading <= w.writing
        /\ Len(dumped[e]) = IF d.pc = "dump" THEN w.reading - 1 ELSE w.reading
        /\ d.pc = "dump" => w.reading > 0 /\ d.got = w.reading - 1
        /\ \A i \in 1 .. Len(dumped[e]) : dumped[e][i].units = w.buffer[i - 1]

DumperInv ==
    /\ Types
    /\ StopOrder
    /\ \A e \in Engines : Handed(e)

-----------------------------------------------------------------------------
(* The next block, while there is one, is the next number.                 *)
LEMMA NextBlock ==
    ASSUME NEW b \in Blocks
    PROVE  /\ BlockCount \in Nat /\ 1 < BlockCount
           /\ (b + 1) % BlockCount = IF b + 1 = BlockCount THEN 0 ELSE b + 1
<1>1. BlockCount \in Nat /\ 1 < BlockCount
  BY WBufferAssumption
<1> QED
  BY <1>1 DEF Blocks

(* A sequence with one thing more at its end.                              *)
LEMMA OneMore ==
    ASSUME NEW s, IsSequence(s), NEW x
    PROVE  /\ IsSequence(Append(s, x))
           /\ Len(s) \in Nat /\ Len(Append(s, x)) = Len(s) + 1
           /\ \A i \in 1 .. Len(s) : Append(s, x)[i] = s[i]
           /\ Append(s, x)[Len(s) + 1] = x
<1> DEFINE S == {s[i] : i \in DOMAIN s} \cup {x}
           t == Append(s, x)
<1>1. s \in Seq(S) /\ x \in S
  BY SeqMonotonic DEF IsSequence
<1>2. /\ t \in Seq(S) /\ Len(s) \in Nat /\ Len(t) = Len(s) + 1
      /\ \A i \in 1 .. Len(s) : t[i] = s[i]
      /\ t[Len(s) + 1] = x
  BY <1>1, AppendProperties
<1> HIDE DEF t
<1>3. t \in Seq({t[i] : i \in DOMAIN t})
  BY <1>2, SeqDef
<1> QED
  BY <1>2, <1>3 DEF IsSequence, t

(* An engine that has returned takes no step.                              *)
LEMMA EngineRuns ==
    ASSUME NEW e \in Engines, EngineStep(e)
    PROVE  engine[e].pc # "end"
<1>1. ASSUME Receive(e) PROVE engine[e].pc = "loop"
  BY <1>1 DEF Receive
<1>2. ASSUME WritePacketToMap(e) PROVE engine[e].pc = "fetch"
  BY <1>2 DEF WritePacketToMap
<1>3. ASSUME EngineLeave(e) PROVE engine[e].pc = "loop"
  BY <1>3 DEF EngineLeave
<1>4. ASSUME EngineDrain(e) \/ EngineEnd(e) PROVE engine[e].pc = "drain"
  BY <1>4 DEF EngineDrain, EngineEnd
<1>5. ASSUME AllocateFetch(e) \/ AllocateCheck(e) \/ AllocateTake(e)
      PROVE  engine[e].pc \in {"fetch", "check", "take"}
  BY <1>5 DEF AllocateFetch, AllocateCheck, AllocateTake
<1>6. ASSUME PutFill(e) \/ PutSignal(e) \/ PutRest(e)
      PROVE  engine[e].pc \in {"put", "full"}
  BY <1>6 DEF PutFill, PutSignal, PutRest
<1>7. ASSUME FreeFetch(e) \/ FreeStore(e) PROVE engine[e].pc \in {"free", "store"}
  BY <1>7 DEF FreeFetch, FreeStore
<1> QED
  BY <1>1, <1>2, <1>3, <1>4, <1>5, <1>6, <1>7 DEF EngineStep

(* Only three steps of an engine touch what it shares with its dumper.     *)
LEMMA EngineLeaves ==
    ASSUME NEW e \in Engines, EngineStep(e)
    PROVE  /\ UNCHANGED <<dumper, ctrl, dumped>>
           /\ UNCHANGED wbuffer \/ PutFill(e) \/ PutSignal(e) \/ PutRest(e)
<1>1. ASSUME Receive(e) PROVE UNCHANGED <<wbuffer, dumper, ctrl, dumped>>
  BY <1>1 DEF Receive
<1>2. ASSUME WritePacketToMap(e) PROVE UNCHANGED <<wbuffer, dumper, ctrl, dumped>>
  BY <1>2 DEF WritePacketToMap
<1>3. ASSUME EngineLeave(e) \/ EngineDrain(e) \/ EngineEnd(e)
      PROVE  UNCHANGED <<wbuffer, dumper, ctrl, dumped>>
  BY <1>3 DEF EngineLeave, EngineDrain, EngineEnd
<1>4. ASSUME AllocateFetch(e) \/ AllocateCheck(e) \/ AllocateTake(e)
      PROVE  UNCHANGED <<wbuffer, dumper, ctrl, dumped>>
  BY <1>4 DEF AllocateFetch, AllocateCheck, AllocateTake
<1>5. ASSUME PutFill(e) \/ PutSignal(e) \/ PutRest(e)
      PROVE  UNCHANGED <<dumper, ctrl, dumped>>
  BY <1>5 DEF PutFill, PutSignal, PutRest
<1>6. ASSUME FreeFetch(e) \/ FreeStore(e) PROVE UNCHANGED <<wbuffer, dumper, ctrl, dumped>>
  BY <1>6 DEF FreeFetch, FreeStore
<1> QED
  BY <1>1, <1>2, <1>3, <1>4, <1>5, <1>6 DEF EngineStep

-----------------------------------------------------------------------------
(* Nothing is signalled and nothing dumped at first.                       *)
LEMMA InitDumperInv == Init => DumperInv
<1> SUFFICES ASSUME Init PROVE DumperInv
  OBVIOUS
<1>1. BlockCount \in Nat /\ 1 < BlockCount /\ 0 \in Blocks
  BY WBufferAssumption DEF Blocks
<1>2. ASSUME NEW e \in Engines
      PROVE  BufferType(wbuffer[e]) /\ DumperType(dumper[e]) /\ IsSequence(dumped[e])
  <2>1. BufferType(NewWBuffer)
    BY <1>1 DEF BufferType, NewWBuffer
  <2>2. DumperType(NewDumper)
    BY DEF DumperType, NewDumper
  <2>3. IsSequence(<<>>)
    BY DEF IsSequence
  <2> QED
    BY <2>1, <2>2, <2>3 DEF Init
<1>3. ctrl.pc = "init" /\ ~Late
  BY DEF Init, Late
<1>4. ASSUME NEW e \in Engines
      PROVE  /\ dumper[e].pc = "start" /\ ~wbuffer[e].stop /\ dumped[e] = <<>>
             /\ wbuffer[e].reading = 0 /\ wbuffer[e].writing = 0
             /\ wbuffer[e].signal = [b \in Blocks |-> FALSE]
  BY DEF Init, NewWBuffer, NewDumper
<1>5. StopOrder
  BY <1>3, <1>4 DEF StopOrder
<1>6. ASSUME NEW e \in Engines PROVE Handed(e)
  BY <1>1, <1>4 DEF Handed, Blocks
<1>7. DOMAIN wbuffer = Engines /\ DOMAIN dumper = Engines /\ DOMAIN dumped = Engines
  BY DEF Init
<1> QED
  BY <1>2, <1>5, <1>6, <1>7 DEF DumperInv, Types

(* The steps of one engine or dumper leave the others' buffers alone.      *)
LEMMA OthersHanded ==
    ASSUME DumperInv, NEW e \in Engines,
           \A x \in Engines : x # e => /\ wbuffer'[x] = wbuffer[x]
                                       /\ dumper'[x] = dumper[x] /\ dumped'[x] = dumped[x],
           DOMAIN wbuffer' = Engines, DOMAIN dumper' = Engines, DOMAIN dumped' = Engines,
           BufferType(wbuffer'[e]), DumperType(dumper'[e]), IsSequence(dumped'[e]),
           Handed(e)', StopOrder'
    PROVE  DumperInv'
<1>1. ASSUME NEW x \in Engines, x # e
      PROVE  /\ Handed(x)' /\ BufferType(wbuffer'[x]) /\ DumperType(dumper'[x])
             /\ IsSequence(dumped'[x])
  BY <1>1 DEF DumperInv, Types, Handed
<1> QED
  BY <1>1 DEF DumperInv, Types

-----------------------------------------------------------------------------
(* A copy changes the block being written, and no other.                   *)
LEMMA CopyOne ==
    ASSUME NEW w, BufferType(w), NEW units, NEW v,
           v = Copy(w, units) \/ v = CopyRest(w, units)
    PROVE  /\ BufferType(v)
           /\ v.signal = w.signal /\ v.writing = w.writing
           /\ v.reading = w.reading /\ v.stop = w.stop
           /\ \A b \in Blocks : b # w.writing => v.buffer[b] = w.buffer[b]
<1> DEFINE c == Copy(w, units)
<1>1. /\ DOMAIN c = DOMAIN w /\ DOMAIN c.buffer = DOMAIN w.buffer
      /\ c.signal = w.signal /\ c.writing = w.writing
      /\ c.reading = w.reading /\ c.stop = w.stop
      /\ \A b \in Blocks : b # w.writing => c.buffer[b] = w.buffer[b]
  BY DEF BufferType, Copy
<1> HIDE DEF c
<1>2. v = c \/ v = [c EXCEPT !.writePos = @ + Len(units)]
  BY DEF c, CopyRest
<1>3. /\ DOMAIN v = DOMAIN c /\ v.buffer = c.buffer /\ v.signal = c.signal
      /\ v.writing = c.writing /\ v.reading = c.reading /\ v.stop = c.stop
  BY <1>1, <1>2 DEF BufferType
<1> QED
  BY <1>1, <1>3 DEF BufferType

(* While its engine runs, nobody has been told to stop.                    *)
LEMMA NotLate ==
    ASSUME DumperInv, NEW e \in Engines, engine[e].pc # "end"
    PROVE  ~Late /\ ~wbuffer[e].stop /\ wbuffer[e].reading <= wbuffer[e].writing
<1>1. ~Late
  BY DEF DumperInv, StopOrder, EnginesDone
<1> QED
  BY <1>1 DEF DumperInv, StopOrder, Handed, Types, BufferType

(* The controller's order does not depend on what is in a buffer.          *)
LEMMA OrderKept ==
    ASSUME DumperInv, ~Late, UNCHANGED <<ctrl, dumper>>,
           \A x \in Engines : wbuffer'[x].stop = wbuffer[x].stop
    PROVE  StopOrder'
<1>1. ~Late'
  BY DEF Late
<1> QED
  BY <1>1 DEF DumperInv, StopOrder, Late

(* The engine's copies.                                                    *)
LEMMA CopyKeeps ==
    ASSUME DumperInv, NEW e \in Engines, engine[e].pc # "end", NEW units, NEW v,
           v = Copy(wbuffer[e], units) \/ v = CopyRest(wbuffer[e], units),
           wbuffer' = [wbuffer EXCEPT ![e] = v], UNCHANGED <<dumper, ctrl, dumped>>
    PROVE  DumperInv'
<1>1. DOMAIN wbuffer = Engines /\ BufferType(wbuffer[e])
  BY DEF DumperInv, Types
<1>2. DOMAIN wbuffer' = Engines /\ wbuffer'[e] = v
  BY <1>1
<1>3. \A x \in Engines : x # e => wbuffer'[x] = wbuffer[x]
  BY <1>1
<1>4. /\ BufferType(v)
      /\ v.signal = wbuffer[e].signal /\ v.writing = wbuffer[e].writing
      /\ v.reading = wbuffer[e].reading /\ v.stop = wbuffer[e].stop
      /\ \A b \in Blocks : b # wbuffer[e].writing => v.buffer[b] = wbuffer[e].buffer[b]
  BY <1>1, CopyOne
<1>5. ~Late /\ wbuffer[e].reading <= wbuffer[e].writing
  BY NotLate
<1>6. StopOrder'
  BY <1>2, <1>3, <1>4, <1>5, OrderKept
<1>7. Handed(e)'
  <2>1. Handed(e) /\ wbuffer[e].writing \in Blocks /\ wbuffer[e].reading \in Nat
    BY <1>1 DEF DumperInv, BufferType
  <2>2. Len(dumped[e]) <= wbuffer[e].reading /\ Len(dumped[e]) \in Int
    BY <2>1 DEF Handed
  <2>3. BlockCount \in Nat
    BY WBufferAssumption
  <2>4. \A i \in 1 .. Len(dumped[e]) : i - 1 \in Blocks /\ i - 1 # wbuffer[e].writing
    BY <1>5, <2>1, <2>2, <2>3 DEF Blocks
  <2>5. \A i \in 1 .. Len(dumped[e]) : v.buffer[i - 1] = wbuffer[e].buffer[i - 1]
    BY <1>4, <2>4
  <2> QED
    BY <1>2, <1>4, <2>1, <2>5 DEF Handed
<1>8. /\ DOMAIN dumper' = Engines /\ DOMAIN dumped' = Engines
      /\ DumperType(dumper'[e]) /\ IsSequence(dumped'[e])
      /\ \A x \in Engines : dumper'[x] = dumper[x] /\ dumped'[x] = dumped[x]
  BY DEF DumperInv, Types
<1> QED
  BY <1>2, <1>3, <1>4, <1>6, <1>7, <1>8, OthersHanded

(* The block that is full is signalled when the next is free, and then the *)
(* next is not the first again.                                            *)
LEMMA PutSignalKeeps ==
    ASSUME DumperInv, NEW e \in Engines, PutSignal(e)
    PROVE  DumperInv'
<1> DEFINE w == wbuffer[e]
           v == wbuffer'[e]
<1>1. DOMAIN wbuffer = Engines /\ BufferType(w) /\ Handed(e)
  BY DEF DumperInv, Types
<1>2. /\ engine[e].pc # "end" /\ ~w.signal[(w.writing + 1) % BlockCount]
      /\ wbuffer' = [wbuffer EXCEPT ![e] = Signalled(@)]
      /\ UNCHANGED <<dumper, ctrl, dumped>>
  BY DEF PutSignal, NextIsFree
<1>3. /\ DOMAIN wbuffer' = Engines /\ v = Signalled(w)
      /\ \A x \in Engines : x # e => wbuffer'[x] = wbuffer[x]
  BY <1>1, <1>2
<1>4. ~Late /\ ~w.stop /\ w.reading <= w.writing
  BY <1>2, NotLate
<1>5. /\ w.writing \in Nat /\ w.writing + 1 \in Blocks
      /\ (w.writing + 1) % BlockCount = w.writing + 1
  <2>1. w.writing \in Blocks
    BY <1>1 DEF BufferType
  <2>2. /\ BlockCount \in Nat /\ 1 < BlockCount
        /\ (w.writing + 1) % BlockCount = IF w.writing + 1 = BlockCount THEN 0 ELSE w.writing + 1
    BY <2>1, NextBlock
  <2>3. \A b \in Blocks : w.signal[b] <=> b < w.writing
    BY <1>1 DEF Handed
  <2>4. w.writing + 1 # BlockCount
    BY <1>2, <2>1, <2>2, <2>3 DEF Blocks
  <2> QED
    BY <2>1, <2>2, <2>4 DEF Blocks
<1>6. /\ DOMAIN v = DOMAIN w /\ v.buffer = w.buffer /\ v.reading = w.reading
      /\ v.stop = w.stop /\ v.writing = w.writing + 1
      /\ v.signal = [w.signal EXCEPT ![w.writing] = TRUE]
  BY <1>1, <1>3, <1>5 DEF BufferType, Signalled
<1>7. BufferType(v)
  BY <1>1, <1>5, <1>6 DEF BufferType
<1>8. Handed(e)'
  <2>1. ASSUME NEW b \in Blocks PROVE v.signal[b] <=> b < v.writing
    <3>1. w.signal[b] <=> b < w.writing
      BY <1>1 DEF Handed
    <3>2. v.signal[b] <=> (b = w.writing \/ w.signal[b])
      <4>1. DOMAIN w.signal = Blocks
        BY <1>1 DEF BufferType
      <4>2. b = w.writing => v.signal[b]
        BY <1>6, <4>1
      <4>3. b # w.writing => v.signal[b] = w.signal[b]
        BY <1>6, <4>1
      <4> QED
        BY <3>1, <4>2, <4>3, <1>5
    <3>3. b \in Int
      BY DEF Blocks
    <3> HIDE DEF v, w
    <3> QED
      BY <1>5, <1>6, <3>1, <3>2, <3>3
  <2>2. w.reading \in Nat
    BY <1>1 DEF BufferType
  <2>3. dumper'[e] = dumper[e] /\ dumped'[e] = dumped[e]
    BY <1>2
  <2>4. \A i \in 1 .. Len(dumped[e]) : dumped[e][i].units = w.buffer[i - 1]
    BY <1>1 DEF Handed
  <2>5. /\ Len(dumped[e]) = IF dumper[e].pc = "dump" THEN w.reading - 1 ELSE w.reading
        /\ dumper[e].pc = "dump" => w.reading > 0 /\ dumper[e].got = w.reading - 1
    BY <1>1 DEF Handed
  <2> HIDE DEF v, w
  <2> QED
    BY <1>4, <1>5, <1>6, <2>1, <2>2, <2>3, <2>4, <2>5 DEF Handed, v
<1>9. StopOrder'
  BY <1>2, <1>3, <1>4, <1>6, OrderKept
<1>10. /\ DOMAIN dumper' = Engines /\ DOMAIN dumped' = Engines
       /\ DumperType(dumper'[e]) /\ IsSequence(dumped'[e])
       /\ \A x \in Engines : dumper'[x] = dumper[x] /\ dumped'[x] = dumped[x]
  BY <1>2 DEF DumperInv, Types
<1> QED
  BY <1>3, <1>7, <1>8, <1>9, <1>10, OthersHanded

(* The dumper gets a block that is signalled or, once its own stop is set  *)
(* and its engine has returned, the one being written.                     *)
LEMMA DumperGetKeeps ==
    ASSUME DumperInv, NEW e \in Engines, DumperGet(e)
    PROVE  DumperInv'
<1> DEFINE w == wbuffer[e]
           v == wbuffer'[e]
           d == dumper[e]
           c == dumper'[e]
<1>1. /\ DOMAIN wbuffer = Engines /\ DOMAIN dumper = Engines /\ DOMAIN dumped = Engines
      /\ BufferType(w) /\ DumperType(d) /\ Handed(e) /\ IsSequence(dumped[e])
  BY DEF DumperInv, Types
<1>2. /\ d.pc = "get" /\ (w.signal[w.reading] \/ w.stop)
      /\ wbuffer' = [wbuffer EXCEPT ![e] = Taken(@)]
      /\ dumper' = [dumper EXCEPT ![e].pc = "dump", ![e].got = w.reading]
      /\ UNCHANGED <<ctrl, engine, dumped>>
  BY DEF DumperGet, MayGet
<1>3. /\ DOMAIN wbuffer' = Engines /\ v = Taken(w)
      /\ DOMAIN dumper' = Engines /\ c = [d EXCEPT !.pc = "dump", !.got = w.reading]
      /\ \A x \in Engines : x # e => wbuffer'[x] = wbuffer[x] /\ dumper'[x] = dumper[x]
  BY <1>1, <1>2
<1>4. /\ DOMAIN v = DOMAIN w /\ v.buffer = w.buffer /\ v.signal = w.signal
      /\ v.writing = w.writing /\ v.stop = w.stop /\ v.reading = w.reading + 1
  BY <1>1, <1>3 DEF BufferType, Taken
<1>5. c.pc = "dump" /\ c.got = w.reading /\ c.stop = d.stop /\ DumperType(c)
  BY <1>1, <1>3 DEF BufferType, DumperType
<1>6. w.reading \in Nat /\ w.writing \in Blocks /\ w.writing \in Nat /\ BufferType(v)
  BY <1>1, <1>4 DEF BufferType, Blocks
<1>7. w.reading <= w.writing /\ (~w.stop => w.reading < w.writing)
  <2>1. w.reading <= w.writing
    BY <1>1, <1>2 DEF Handed
  <2>2. w.reading \in Blocks
    BY <1>6, <2>1, WBufferAssumption DEF Blocks
  <2> QED
    BY <1>1, <1>2, <2>1, <2>2 DEF Handed
<1>8. Handed(e)'
  <2>1. dumped'[e] = dumped[e] /\ Len(dumped[e]) = w.reading
    BY <1>1, <1>2 DEF Handed
  <2>2. /\ \A b \in Blocks : w.signal[b] <=> b < w.writing
        /\ \A i \in 1 .. Len(dumped[e]) : dumped[e][i].units = w.buffer[i - 1]
    BY <1>1 DEF Handed
  <2>3. ~v.stop => v.reading <= v.writing
    BY <1>4, <1>6, <1>7
  <2> HIDE DEF v, w, c, d
  <2> QED
    BY <1>4, <1>5, <1>6, <1>7, <2>1, <2>2, <2>3 DEF Handed, v, c
<1>9. StopOrder'
  <2>1. UNCHANGED <<ctrl, engine>> /\ (Late' <=> Late) /\ (EnginesDone' <=> EnginesDone)
    BY <1>2 DEF Late, EnginesDone
  <2>2. ASSUME NEW x \in Engines
        PROVE  /\ wbuffer'[x].stop = wbuffer[x].stop /\ dumper'[x].stop = dumper[x].stop
               /\ dumper'[x].pc = "start" <=> dumper[x].pc = "start"
    BY <1>2, <1>3, <1>4, <1>5
  <2> QED
    BY <2>1, <2>2 DEF DumperInv, StopOrder
<1>10. DOMAIN dumped' = Engines /\ IsSequence(dumped'[e])
       /\ \A x \in Engines : dumped'[x] = dumped[x]
  BY <1>1, <1>2
<1> QED
  BY <1>3, <1>5, <1>6, <1>8, <1>9, <1>10, OthersHanded

(* What the dumper writes is the block it got.                             *)
LEMMA DumpKeeps ==
    ASSUME DumperInv, NEW e \in Engines, Dump(e)
    PROVE  DumperInv'
<1> DEFINE w == wbuffer[e]
           d == dumper[e]
           c == dumper'[e]
           row == [place |-> d.place, units |-> w.buffer[d.got]]
<1>1. /\ DOMAIN wbuffer = Engines /\ DOMAIN dumper = Engines /\ DOMAIN dumped = Engines
      /\ BufferType(w) /\ DumperType(d) /\ Handed(e) /\ IsSequence(dumped[e])
  BY DEF DumperInv, Types
<1>2. /\ d.pc = "dump"
      /\ dumped' = [dumped EXCEPT ![e] = Append(@, row)]
      /\ dumper' = [dumper EXCEPT ![e].pc = IF d.stop THEN "end" ELSE "get",
                                  ![e].place = (@ + 1) % DiskBlocks]
      /\ UNCHANGED <<ctrl, engine, wbuffer>>
  BY DEF Dump
<1>3. /\ DOMAIN dumped' = Engines /\ dumped'[e] = Append(dumped[e], row)
      /\ DOMAIN dumper' = Engines
      /\ c = [d EXCEPT !.pc = IF d.stop THEN "end" ELSE "get",
                       !.place = (@ + 1) % DiskBlocks]
      /\ \A x \in Engines : x # e => dumped'[x] = dumped[x] /\ dumper'[x] = dumper[x]
  BY <1>1, <1>2
<1>4. c.pc = (IF d.stop THEN "end" ELSE "get") /\ c.stop = d.stop /\ DumperType(c)
  <2>1. (d.place + 1) % DiskBlocks \in Nat
    BY <1>1, FlosisAssumption DEF DumperType
  <2> QED
    BY <1>1, <1>3, <2>1 DEF DumperType
<1>5. /\ IsSequence(dumped'[e]) /\ Len(dumped[e]) \in Nat
      /\ Len(dumped'[e]) = Len(dumped[e]) + 1
      /\ \A i \in 1 .. Len(dumped[e]) : dumped'[e][i] = dumped[e][i]
      /\ dumped'[e][Len(dumped[e]) + 1] = row
  BY <1>1, <1>3, OneMore
<1>6. /\ w.reading \in Nat /\ Len(dumped[e]) = w.reading - 1
      /\ d.got = w.reading - 1 /\ row.units = w.buffer[w.reading - 1]
  BY <1>1, <1>2 DEF Handed, BufferType
<1>7. d.stop \in BOOLEAN /\ (w.stop => d.stop)
  BY <1>1 DEF DumperInv, StopOrder, DumperType
<1>8. Handed(e)'
  <2>1. /\ \A b \in Blocks : w.signal[b] <=> b < w.writing
        /\ \A i \in 1 .. Len(dumped[e]) : dumped[e][i].units = w.buffer[i - 1]
        /\ w.reading <= w.writing + 1 /\ (~w.stop => w.reading <= w.writing)
    BY <1>1 DEF Handed
  <2>2. wbuffer'[e] = w /\ c.pc # "dump" /\ (c.pc = "start" \/ c.pc = "get" => ~w.stop)
    BY <1>2, <1>4, <1>7
  <2>3. ASSUME NEW i \in 1 .. Len(dumped'[e]) PROVE dumped'[e][i].units = w.buffer[i - 1]
    <3>1. CASE i \in 1 .. Len(dumped[e])
      BY <1>5, <2>1, <3>1
    <3>2. CASE i = Len(dumped[e]) + 1
      BY <1>5, <1>6, <3>2
    <3> QED
      BY <1>5, <3>1, <3>2
  <2>4. Len(dumped'[e]) = w.reading
    BY <1>5, <1>6
  <2> HIDE DEF w, d, c, row
  <2> QED
    BY <2>1, <2>2, <2>3, <2>4 DEF Handed, c
<1>9. StopOrder'
  <2>1. UNCHANGED <<ctrl, engine, wbuffer>> /\ (Late' <=> Late)
        /\ (EnginesDone' <=> EnginesDone)
    BY <1>2 DEF Late, EnginesDone
  <2>2. ASSUME NEW x \in Engines
        PROVE  /\ dumper'[x].stop = dumper[x].stop
               /\ dumper'[x].pc = "start" <=> dumper[x].pc = "start"
    BY <1>2, <1>3, <1>4
  <2> QED
    BY <2>1, <2>2 DEF DumperInv, StopOrder
<1>10. /\ BufferType(wbuffer'[e]) /\ DOMAIN wbuffer' = Engines
       /\ \A x \in Engines : wbuffer'[x] = wbuffer[x]
  BY <1>1, <1>2
<1> QED
  BY <1>3, <1>4, <1>5, <1>8, <1>9, <1>10, OthersHanded

(* The controller touches the stop flags and the places of the threads,    *)
(* and none of it means anything to the blocks but the last stop.          *)
LEMMA FlagsHanded ==
    ASSUME DumperInv, UNCHANGED dumped, UNCHANGED wbuffer,
           DOMAIN dumper' = Engines, StopOrder',
           \A e \in Engines : /\ DumperType(dumper'[e]) /\ dumper'[e].got = dumper[e].got
                              /\ \/ dumper'[e].pc = dumper[e].pc
                                 \/ dumper[e].pc = "start" /\ dumper'[e].pc = "get"
    PROVE  DumperInv'
<1>1. Types'
  BY DEF DumperInv, Types
<1>2. ASSUME NEW e \in Engines PROVE Handed(e)'
  BY <1>2 DEF DumperInv, Handed
<1> QED
  BY <1>1, <1>2 DEF DumperInv

(* The threads start.                                                      *)
LEMMA ThreadsRunKeeps ==
    ASSUME DumperInv, ThreadsRun
    PROVE  DumperInv'
<1>1. /\ ctrl.pc = "init" /\ ctrl'.pc = "run" /\ UNCHANGED <<wbuffer, dumped>>
      /\ dumper' = [e \in Engines |-> [dumper[e] EXCEPT !.pc = "get", !.stop = FALSE]]
  BY DEF ThreadsRun, GoTo
<1>2. ASSUME NEW e \in Engines
      PROVE  /\ dumper[e].pc = "start" /\ ~wbuffer[e].stop
             /\ dumper'[e].pc = "get" /\ dumper'[e].stop = FALSE
             /\ dumper'[e].got = dumper[e].got /\ DumperType(dumper'[e])
  BY <1>1 DEF DumperInv, StopOrder, Types, DumperType
<1>3. StopOrder'
  BY <1>1, <1>2 DEF StopOrder, Late
<1> QED
  BY <1>1, <1>2, <1>3, FlagsHanded

(* The engines are told to stop, and waited for.                           *)
LEMMA EnginesStopKeeps ==
    ASSUME DumperInv, StopEngine \/ WaitEngines
    PROVE  DumperInv'
<1>1. UNCHANGED <<wbuffer, dumper, dumped>> /\ ~Late
      /\ ctrl'.pc \in {"run", "wait", "dumper"} /\ ctrl.pc # "init"
      /\ (ctrl'.pc = "dumper" => EnginesDone')
  BY DEF StopEngine, WaitEngines, GoTo, Late, EnginesDone
<1>2. StopOrder'
  BY <1>1 DEF DumperInv, StopOrder, Late
<1>3. DOMAIN dumper' = Engines /\ \A e \in Engines : DumperType(dumper'[e])
  BY <1>1 DEF DumperInv, Types
<1> QED
  BY <1>1, <1>2, <1>3, FlagsHanded

(* A dumper is told to stop.                                               *)
LEMMA StopDumperKeeps ==
    ASSUME DumperInv, StopDumper
    PROVE  DumperInv'
<1>1. /\ ctrl.pc = "dumper" /\ ctrl'.pc = "wbuffer" /\ ctrl'.at = ctrl.at
      /\ dumper' = [dumper EXCEPT ![ctrl.at].stop = TRUE]
      /\ UNCHANGED <<engine, wbuffer, dumped>>
  BY DEF StopDumper, GoTo
<1>2. Late /\ Late' /\ (EnginesDone' <=> EnginesDone)
  BY <1>1 DEF Late, EnginesDone
<1>3. DOMAIN dumper = Engines /\ DOMAIN dumper' = Engines
  BY <1>1 DEF DumperInv, Types
<1>4. ASSUME NEW e \in Engines
      PROVE  /\ dumper'[e].pc = dumper[e].pc /\ dumper'[e].got = dumper[e].got
             /\ DumperType(dumper'[e]) /\ (dumper[e].stop => dumper'[e].stop)
             /\ (ctrl.at = e => dumper'[e].stop)
  <2>1. DumperType(dumper[e])
    BY DEF DumperInv, Types
  <2>2. dumper'[e] = IF ctrl.at = e THEN [dumper[e] EXCEPT !.stop = TRUE] ELSE dumper[e]
    BY <1>1, <1>3
  <2> QED
    BY <2>1, <2>2 DEF DumperType
<1>5. StopOrder'
  BY <1>1, <1>2, <1>4 DEF DumperInv, StopOrder
<1> QED
  BY <1>1, <1>3, <1>4, <1>5, FlagsHanded

(* A buffer is told to stop after its dumper.                              *)
LEMMA StopWBufferKeeps ==
    ASSUME DumperInv, StopWBuffer
    PROVE  DumperInv'
<1>1. /\ ctrl.pc = "wbuffer" /\ ctrl'.pc \in {"dumper", "join"}
      /\ wbuffer' = [wbuffer EXCEPT ![ctrl.at].stop = TRUE]
      /\ UNCHANGED <<engine, dumper, dumped>>
  BY DEF StopWBuffer, GoTo
<1>2. Late /\ Late' /\ (EnginesDone' <=> EnginesDone)
  BY <1>1 DEF Late, EnginesDone
<1>3. DOMAIN wbuffer = Engines /\ DOMAIN wbuffer' = Engines
  BY <1>1 DEF DumperInv, Types
<1>4. ASSUME NEW e \in Engines
      PROVE  /\ wbuffer'[e].buffer = wbuffer[e].buffer
             /\ wbuffer'[e].signal = wbuffer[e].signal
             /\ wbuffer'[e].writing = wbuffer[e].writing
             /\ wbuffer'[e].reading = wbuffer[e].reading
             /\ BufferType(wbuffer'[e]) /\ (wbuffer[e].stop => wbuffer'[e].stop)
             /\ (wbuffer'[e].stop => wbuffer[e].stop \/ ctrl.at = e)
  <2>1. BufferType(wbuffer[e])
    BY DEF DumperInv, Types
  <2>2. wbuffer'[e] = IF ctrl.at = e THEN [wbuffer[e] EXCEPT !.stop = TRUE] ELSE wbuffer[e]
    BY <1>1, <1>3
  <2> QED
    BY <2>1, <2>2 DEF BufferType
<1>5. StopOrder'
  <2>1. ASSUME NEW e \in Engines, wbuffer'[e].stop PROVE dumper'[e].stop
    BY <1>1, <1>4, <2>1 DEF DumperInv, StopOrder
  <2>2. ASSUME NEW e \in Engines PROVE dumper'[e] = dumper[e] /\ dumper[e].pc # "start"
    BY <1>1 DEF DumperInv, StopOrder
  <2> QED
    BY <1>1, <1>2, <2>1, <2>2 DEF DumperInv, StopOrder
<1>6. ASSUME NEW e \in Engines PROVE Handed(e)'
  BY <1>1, <1>4 DEF DumperInv, Handed
<1> QED
  BY <1>1, <1>3, <1>4, <1>5, <1>6 DEF DumperInv, Types

(* The dumpers are joined.                                                 *)
LEMMA JoinKeeps ==
    ASSUME DumperInv, Join
    PROVE  DumperInv'
<1>1. /\ ctrl.pc = "join" /\ ctrl'.pc \in {"join", "end"}
      /\ UNCHANGED <<engine, wbuffer, dumper, dumped>>
  BY DEF Join, GoTo
<1>2. Late /\ Late' /\ (EnginesDone' <=> EnginesDone)
  BY <1>1 DEF Late, EnginesDone
<1>3. StopOrder'
  BY <1>1, <1>2 DEF DumperInv, StopOrder
<1>4. DOMAIN dumper' = Engines /\ \A e \in Engines : DumperType(dumper'[e])
  BY <1>1 DEF DumperInv, Types
<1> QED
  BY <1>1, <1>3, <1>4, FlagsHanded

(* Every step keeps the invariant.                                         *)
LEMMA StepDumperInv == DumperInv /\ [Next]_vars => DumperInv'
<1> SUFFICES ASSUME DumperInv, [Next]_vars PROVE DumperInv'
  OBVIOUS
<1>1. CASE ControllerStep
  BY <1>1, ThreadsRunKeeps, EnginesStopKeeps, StopDumperKeeps, StopWBufferKeeps, JoinKeeps
     DEF ControllerStep
<1>2. ASSUME NEW e \in Engines, EngineStep(e) PROVE DumperInv'
  <2>1. engine[e].pc # "end" /\ UNCHANGED <<dumper, ctrl, dumped>>
    BY <1>2, EngineRuns, EngineLeaves
  <2>2. CASE UNCHANGED wbuffer
    <3>1. ~Late /\ StopOrder'
      BY <2>1, <2>2, NotLate, OrderKept
    <3>2. DOMAIN dumper' = Engines /\ \A x \in Engines : DumperType(dumper'[x])
      BY <2>1 DEF DumperInv, Types
    <3> QED
      BY <2>1, <2>2, <3>1, <3>2, FlagsHanded
  <2>3. CASE PutFill(e)
    BY <2>1, <2>3, CopyKeeps DEF PutFill
  <2>4. CASE PutRest(e)
    BY <2>1, <2>4, CopyKeeps DEF PutRest
  <2> QED
    BY <1>2, <2>2, <2>3, <2>4, EngineLeaves, PutSignalKeeps
<1>3. ASSUME NEW e \in Engines, DumperStep(e) PROVE DumperInv'
  BY <1>3, DumperGetKeeps, DumpKeeps DEF DumperStep
<1>4. CASE UNCHANGED vars
  <2>1. UNCHANGED <<engine, wbuffer, dumper, ctrl, dumped>>
    BY <1>4 DEF vars
  <2> QED
    BY <2>1 DEF DumperInv, Types, StopOrder, Handed, Late, EnginesDone
<1> QED
  BY <1>1, <1>2, <1>3, <1>4 DEF Next

-----------------------------------------------------------------------------
(* The blocks on the disk are what the engine filled, each dumped when it  *)
(* was full and never filled anew, the last one when its engine had        *)
(* returned; and the dumper, which counts blocks without end, stays within *)
(* the buffer (wbuffer.hpp, put and get; controller.cpp, threadsStop).  No *)
(* hypothesis but the constants' assumptions.                              *)
THEOREM DumpsAreWhole == Spec => []DumpedAsFilled
<1>1. DumperInv => DumpedAsFilled
  <2> SUFFICES ASSUME DumperInv, NEW e \in Engines
               PROVE  /\ wbuffer[e].reading <= BlockCount
                      /\ \A i \in DOMAIN dumped[e] :
                            dumped[e][i].units = wbuffer[e].buffer[i - 1]
    BY DEF DumpedAsFilled
  <2>1. Handed(e) /\ BufferType(wbuffer[e]) /\ IsSequence(dumped[e])
    BY DEF DumperInv, Types
  <2>2. wbuffer[e].reading <= BlockCount
    BY <2>1, WBufferAssumption DEF Handed, BufferType, Blocks
  <2>3. DOMAIN dumped[e] = 1 .. Len(dumped[e])
    BY <2>1, LenProperties DEF IsSequence
  <2> QED
    BY <2>1, <2>2, <2>3 DEF Handed
<1> QED
  BY <1>1, InitDumperInv, StepDumperInv, PTL DEF Spec
=============================================================================
