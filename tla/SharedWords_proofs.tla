------------------------- MODULE SharedWords_proofs -------------------------
(***************************************************************************)
(* Proofs about SharedWords, for any number of components and any values:  *)
(* with a careful client no store of one thread undoes a write of the      *)
(* other, and outputs that were stopped are silent.                        *)
(*                                                                         *)
(* The argument: a register holds what the memory holds, but for the field *)
(* its write is for (RegistersAreCurrent).  A store of the other thread    *)
(* could break that, if it wrote the other field of the same component.    *)
(* It does not: while the control thread stops outputs, all that the       *)
(* communication thread can do to them is to stop them too                 *)
(* (ControlIsSafe, CommIsSafe).                                            *)
(***************************************************************************)
EXTENDS SharedWords, TLAPS

Writes == [to : Fields, value : Nat]

\* The values each variable takes.
TypeInv ==
    /\ mem \in [Fields -> Nat]
    /\ todo \in [Threads -> Seq(Writes)]
    /\ DOMAIN reg = Threads
    /\ \A t \in Threads : \A g \in DOMAIN reg[t] : reg[t][g] \in Nat
    /\ seqState \in {"CONFIG", "PREPARED", "RUNNING"}
    /\ trigger \in BOOLEAN /\ controlThreadRunning \in BOOLEAN
    /\ comm \in {"serve", "prepare", "stop", "failed", "join"}
    /\ control \in {"check", "handle", "clean", "exit", "ended"}

\* What a thread has left to store is of the word of its write, in whole
\* accesses.
RegistersAreOfWrites ==
    \A t \in Threads : DOMAIN reg[t] # {} =>
        /\ todo[t] # <<>>
        /\ DOMAIN reg[t] \subseteq Word(Head(todo[t]).to)
        /\ \A g \in DOMAIN reg[t] : Access(g) \subseteq DOMAIN reg[t]

RegistersAreCurrent ==
    \A t \in Threads : \A g \in DOMAIN reg[t] : g \in Outputs =>
        reg[t][g] = IF g = Head(todo[t]).to THEN Head(todo[t]).value ELSE mem[g]

\* a half that is stored already
StoredIsThere ==
    \A t \in Threads :
        (DOMAIN reg[t] # {} /\ Head(todo[t]).to \notin DOMAIN reg[t]
           /\ Head(todo[t]).to \in Outputs)
        => mem[Head(todo[t]).to] = Head(todo[t]).value

\* the writes of stopTx, and those of flags
Stops(w)     == (\E c \in Comps : w.to = Amp(c)) /\ w.value = 0
OnlyStops(t) == \A i \in DOMAIN todo[t] : Stops(todo[t][i])
OnlyFlags(t) == \A i \in DOMAIN todo[t] : todo[t][i].to \in Flags

ControlIsSafe ==
    /\ \A i \in DOMAIN todo["control"] :
          todo["control"][i].to \in Flags \/ Stops(todo["control"][i])
    /\ control \notin {"clean", "exit"} => OnlyFlags("control")
    /\ control = "handle" => (seqState = "RUNNING" \/ (seqState = "PREPARED" /\ trigger))
    /\ control = "clean" => seqState = "RUNNING"
    /\ control \in {"exit", "ended"} => ~controlThreadRunning
    /\ control \in {"handle", "ended"} => todo["control"] = <<>>

CommIsSafe ==
    /\ ~controlThreadRunning => comm = "join"
    /\ comm = "join" => ~controlThreadRunning
    /\ comm \in {"join", "failed"} => todo["comm"] = <<>>
    /\ comm = "prepare" => ~trigger /\ seqState # "RUNNING" /\ OnlyFlags("comm")
    /\ comm = "stop" => OnlyStops("comm")
    /\ comm = "serve" => (AtRest \/ OnlyFlags("comm"))

\* stopTx has silenced the components it is done with
StoppedAreSilent ==
    /\ control \in {"clean", "exit"} =>
          \A c \in Comps : \/ mem[Amp(c)] = 0
                           \/ \E i \in DOMAIN todo["control"] : todo["control"][i].to = Amp(c)
    /\ control = "ended" => Silent

IInv == /\ TypeInv /\ RegistersAreOfWrites /\ RegistersAreCurrent /\ StoredIsThere
        /\ ControlIsSafe /\ CommIsSafe /\ StoppedAreSilent

-----------------------------------------------------------------------------
(* Lemmas about fields and lists of writes.                                *)

\* Which fields share a word.
LEMMA FieldFacts ==
    /\ Outputs \subseteq Fields /\ Flags \subseteq Fields /\ Outputs \cap Flags = {}
    /\ \A c \in Comps : Amp(c) \in Outputs /\ Type(c) \in Outputs
    /\ \A n \in Names : Flag(n) \in Flags
    /\ \A c, d \in Comps : (Amp(c) = Amp(d) => c = d) /\ Amp(c) # Type(d)
    /\ \A f \in Fields : f \in Word(f) /\ Word(f) \subseteq Fields /\ f \in Access(f)
    /\ \A f \in Flags : Word(f) = Flags /\ Access(f) = Flags
    /\ \A f \in Outputs : Word(f) \subseteq Outputs /\ Access(f) = {f}
    /\ \A f \in Fields, c \in Comps : Amp(c) \in Word(f) => f = Amp(c) \/ f = Type(c)
<1>1. \A f \in Outputs : \E c \in Comps : f = <<c, "amplitude">> \/ f = <<c, "type">>
  BY DEF Outputs, Amp, Type
<1>2. \A f \in Flags : f[1] = "err" /\ \E n \in Names : f = <<"err", n>>
  BY DEF Flags, Flag
<1>3. \A f \in Outputs : f[1] \in Comps /\ f[1] # "err"
  BY <1>1, ErrIsNoComponent
<1>4. Outputs \cap Flags = {}
  BY <1>2, <1>3
<1>5. \A f \in Flags : Word(f) = Flags
  BY <1>2, <1>3 DEF Word, Fields
<1>6. \A c \in Comps : Amp(c) \in Outputs /\ Type(c) \in Outputs
  BY DEF Outputs
<1>7. \A f \in Fields, c \in Comps : Amp(c) \in Word(f) => f = Amp(c) \/ f = Type(c)
  <2> SUFFICES ASSUME NEW f \in Fields, NEW c \in Comps, Amp(c) \in Word(f)
               PROVE  f = Amp(c) \/ f = Type(c)
    OBVIOUS
  <2>1. f[1] = c
    BY DEF Word, Amp
  <2>2. f \in Outputs
    BY <2>1, <1>2, ErrIsNoComponent DEF Fields
  <2> QED
    BY <2>1, <2>2, <1>1 DEF Amp, Type
<1>8. \A f \in Outputs : Word(f) \subseteq Outputs
  BY <1>2, <1>3 DEF Word, Fields
<1> QED
  BY <1>4, <1>5, <1>6, <1>7, <1>8 DEF Fields, Flags, Word, Access, Amp, Type

\* The lists of writes the threads start with.
LEMMA StopTxStops ==
    /\ StopTx \in Seq(Writes) /\ StopTx # <<>>
    /\ \A i \in DOMAIN StopTx : Stops(StopTx[i])
    /\ \A c \in Comps : \E i \in DOMAIN StopTx : StopTx[i].to = Amp(c)
<1>1. \A i \in DOMAIN Order : Order[i] \in Comps
  BY DEF Comps
<1>2. \A i \in DOMAIN Order : Amp(Order[i]) \in Fields
  BY <1>1, FieldFacts
<1>3. DOMAIN Order = 1..Len(Order) /\ Len(Order) \in Nat
  BY OrderIsSequence
<1>4. \A i \in DOMAIN StopTx : StopTx[i] = W(Amp(Order[i]), 0) /\ i \in DOMAIN Order
  BY DEF StopTx
<1>5. DOMAIN StopTx = DOMAIN Order
  BY DEF StopTx
<1>6. \A i \in DOMAIN Order : W(Amp(Order[i]), 0) \in Writes
  BY <1>2 DEF W, Writes
<1>7. StopTx \in Seq(Writes)
  BY <1>3, <1>6 DEF StopTx
<1>8. \A i \in DOMAIN StopTx : Stops(StopTx[i])
  <2> TAKE i \in DOMAIN StopTx
  <2>1. StopTx[i].to = Amp(Order[i]) /\ StopTx[i].value = 0
    BY <1>4 DEF W
  <2>2. Order[i] \in Comps
    BY <1>1, <1>4
  <2> QED
    BY <2>1, <2>2 DEF Stops
<1>9. \A c \in Comps : \E i \in DOMAIN StopTx : StopTx[i].to = Amp(c)
  <2> TAKE c \in Comps
  <2>1. PICK i \in DOMAIN Order : Order[i] = c
    BY DEF Comps
  <2> QED
    BY <2>1, <1>4, <1>5 DEF W
<1>10. StopTx # <<>>
  <2>1. 1 \in DOMAIN Order
    BY OrderIsSequence
  <2> QED
    BY <2>1, <1>5
<1> QED
  BY <1>7, <1>8, <1>9, <1>10

\* The rest of a list.
LEMMA TailFacts ==
    ASSUME NEW s \in Seq(Writes), s # <<>>
    PROVE  /\ Tail(s) \in Seq(Writes) /\ Head(s) = s[1] /\ 1 \in DOMAIN s
           /\ \A i \in DOMAIN Tail(s) : i + 1 \in DOMAIN s /\ Tail(s)[i] = s[i + 1]
           /\ \A i \in DOMAIN s : i = 1 \/ (i - 1 \in DOMAIN Tail(s) /\ Tail(s)[i - 1] = s[i])
  OBVIOUS

-----------------------------------------------------------------------------
(* The registers.                                                          *)

Registers == RegistersAreOfWrites /\ RegistersAreCurrent /\ StoredIsThere

\* Whatever the two threads write to outputs at the same time is zero.
LEMMA NoConflict ==
    ASSUME TypeInv, ControlIsSafe, CommIsSafe,
           NEW t \in Threads, NEW u \in Threads, t # u,
           todo[t] # <<>>, Head(todo[t]).to \in Outputs,
           todo[u] # <<>>, Head(todo[u]).to \in Outputs
    PROVE  Stops(Head(todo[t])) /\ Stops(Head(todo[u]))
<1>1. \A x \in Threads : todo[x] \in Seq(Writes)
  BY DEF TypeInv
<1>2. /\ todo["comm"] # <<>> /\ Head(todo["comm"]).to \notin Flags
      /\ todo["control"] # <<>> /\ Head(todo["control"]).to \notin Flags
  BY FieldFacts DEF Threads
<1>3. /\ 1 \in DOMAIN todo["comm"] /\ Head(todo["comm"]) = todo["comm"][1]
      /\ 1 \in DOMAIN todo["control"] /\ Head(todo["control"]) = todo["control"][1]
  BY <1>1, <1>2, TailFacts DEF Threads
<1>4. Stops(Head(todo["control"])) /\ control \in {"clean", "exit"}
  BY <1>2, <1>3 DEF ControlIsSafe, OnlyFlags
<1>5. ~OnlyFlags("comm")
  BY <1>2, <1>3 DEF OnlyFlags
<1>6. ~AtRest \/ ~controlThreadRunning
  BY <1>4 DEF ControlIsSafe, AtRest
<1>7. comm = "stop"
  BY <1>2, <1>5, <1>6 DEF TypeInv, CommIsSafe
<1>8. Stops(Head(todo["comm"]))
  BY <1>3, <1>7 DEF CommIsSafe, OnlyStops
<1> QED
  BY <1>4, <1>8 DEF Threads

\* A thread that starts a list of writes has nothing left to store.
LEMMA StartRegisters ==
    ASSUME TypeInv, Registers, NEW t \in Threads, NEW ws \in Seq(Writes),
           Do(t, ws), UNCHANGED <<mem, reg>>
    PROVE  /\ todo' \in [Threads -> Seq(Writes)] /\ Registers'
           /\ todo[t] = <<>> /\ todo'[t] = ws
           /\ \A u \in Threads : u # t => todo'[u] = todo[u]
<1>1. /\ todo' \in [Threads -> Seq(Writes)]
      /\ todo[t] = <<>> /\ todo'[t] = ws
      /\ \A u \in Threads : u # t => todo'[u] = todo[u]
  BY DEF Do, TypeInv
<1>2. DOMAIN reg[t] = {}
  BY <1>1 DEF Registers, RegistersAreOfWrites
<1>3. RegistersAreOfWrites'
  BY <1>1, <1>2 DEF Registers, RegistersAreOfWrites
<1>4. RegistersAreCurrent'
  BY <1>1, <1>2 DEF Registers, RegistersAreCurrent
<1>5. StoredIsThere'
  BY <1>1, <1>2 DEF Registers, StoredIsThere
<1> QED
  BY <1>1, <1>3, <1>4, <1>5 DEF Registers

\* A load.
LEMMA LoadRegisters ==
    ASSUME TypeInv, Registers, NEW t \in Threads, Load(t)
    PROVE  TypeInv' /\ Registers'
<1> DEFINE w == Head(todo[t])
<1>1. w \in Writes /\ w.to \in Fields /\ w.value \in Nat
  <2>1. todo[t] \in Seq(Writes) /\ todo[t] # <<>>
    BY DEF TypeInv, Load
  <2>2. w \in Writes
    BY <2>1
  <2> QED
    BY <2>2 DEF Writes
<1>2. Word(w.to) \subseteq Fields /\ w.to \in Word(w.to)
  BY <1>1, FieldFacts
<1>3. /\ DOMAIN reg' = Threads /\ DOMAIN reg'[t] = Word(w.to)
      /\ \A g \in Word(w.to) : reg'[t][g] = IF g = w.to THEN w.value ELSE mem[g]
      /\ \A u \in Threads : u # t => reg'[u] = reg[u]
  BY DEF Load, TypeInv
<1>4. todo[t] # <<>> /\ UNCHANGED <<mem, todo, seqState, trigger, comm, control,
                                   controlThreadRunning>>
  BY DEF Load, threads
<1>5. \A g \in Word(w.to) : reg'[t][g] \in Nat
  BY <1>1, <1>2, <1>3 DEF TypeInv
<1>6. TypeInv'
  BY <1>3, <1>4, <1>5 DEF TypeInv
<1>7. RegistersAreOfWrites'
  <2>1. \A g \in Word(w.to) : Access(g) \subseteq Word(w.to)
    BY <1>1, FieldFacts DEF Fields
  <2> QED
    BY <2>1, <1>3, <1>4 DEF Registers, RegistersAreOfWrites
<1>8. RegistersAreCurrent'
  BY <1>3, <1>4 DEF Registers, RegistersAreCurrent
<1>9. StoredIsThere'
  BY <1>2, <1>3, <1>4 DEF Registers, StoredIsThere
<1> QED
  BY <1>6, <1>7, <1>8, <1>9 DEF Registers

\* A store changes outputs only to what its write means, and a write that is
\* over is in the memory.
LEMMA StoreMeans ==
    ASSUME TypeInv, Registers, NEW t \in Threads, Store(t)
    PROVE  /\ todo[t] # <<>> /\ Head(todo[t]) \in Writes
           /\ \A g \in Outputs : mem'[g] # mem[g] =>
                 g = Head(todo[t]).to /\ mem'[g] = Head(todo[t]).value
           /\ (DOMAIN reg'[t] = {} /\ Head(todo[t]).to \in Outputs) =>
                 mem'[Head(todo[t]).to] = Head(todo[t]).value
           /\ mem' \in [Fields -> Nat]
<1> DEFINE w == Head(todo[t])
<1>1. PICK f \in DOMAIN reg[t] :
          /\ mem' = [g \in Fields |-> IF g \in Access(f) THEN reg[t][g] ELSE mem[g]]
          /\ reg' = [reg EXCEPT ![t] = [g \in DOMAIN reg[t] \ Access(f) |-> reg[t][g]]]
  BY DEF Store
<1>2. todo[t] # <<>> /\ DOMAIN reg[t] \subseteq Word(w.to)
  BY <1>1 DEF Registers, RegistersAreOfWrites
<1>3. w \in Writes /\ w.to \in Fields
  <2>1. todo[t] \in Seq(Writes)
    BY DEF TypeInv
  <2>2. w \in Writes
    BY <2>1, <1>2
  <2> QED
    BY <2>2 DEF Writes
<1>4. f \in Fields /\ f \in Access(f)
  BY <1>2, <1>3, FieldFacts
<1>5. CASE f \in Flags
  <2>1. w.to \notin Outputs /\ Access(f) = Flags
    BY <1>2, <1>3, <1>5, FieldFacts
  <2>2. \A g \in Outputs : mem'[g] = mem[g]
    BY <1>1, <2>1, FieldFacts
  <2>3. \A g \in Flags : g \in DOMAIN reg[t] /\ reg[t][g] \in Nat
    BY <1>1, <2>1 DEF Registers, RegistersAreOfWrites, TypeInv
  <2>4. mem' \in [Fields -> Nat]
    BY <1>1, <2>1, <2>3 DEF TypeInv
  <2> QED
    BY <1>2, <1>3, <2>1, <2>2, <2>4
<1>6. CASE f \in Outputs
  <2>1. Access(f) = {f}
    BY <1>6, FieldFacts
  <2>2. /\ mem'[f] = reg[t][f]
        /\ \A g \in Fields : g # f => mem'[g] = mem[g]
    BY <1>1, <1>4, <2>1
  <2>3. reg[t][f] = IF f = w.to THEN w.value ELSE mem[f]
    BY <1>1, <1>6 DEF Registers, RegistersAreCurrent
  <2>4. \A g \in Outputs : mem'[g] # mem[g] => g = w.to /\ mem'[g] = w.value
    BY <2>2, <2>3, FieldFacts
  <2>5. ASSUME DOMAIN reg'[t] = {}, w.to \in Outputs
        PROVE  mem'[w.to] = w.value
    <3>1. DOMAIN reg[t] \ {f} = {}
      BY <1>1, <2>1, <2>5 DEF TypeInv
    <3>2. CASE w.to = f
      BY <3>2, <2>2, <2>3
    <3>3. CASE w.to # f
      <4>1. w.to \notin DOMAIN reg[t]
        BY <3>1, <3>3
      <4>2. mem[w.to] = w.value
        BY <4>1, <2>5, <1>1 DEF Registers, StoredIsThere
      <4> QED
        BY <4>2, <3>3, <2>2, <1>3
    <3> QED
      BY <3>2, <3>3
  <2>6. mem' \in [Fields -> Nat]
    BY <1>1, <2>1 DEF TypeInv
  <2> QED
    BY <1>2, <1>3, <2>4, <2>5, <2>6
<1> QED
  BY <1>4, <1>5, <1>6 DEF Fields

\* A store keeps what the registers of both threads were loaded from in step
\* with the memory.
LEMMA StoreRegisters ==
    ASSUME TypeInv, Registers, ControlIsSafe, CommIsSafe, NEW t \in Threads, Store(t)
    PROVE  TypeInv' /\ Registers'
<1> DEFINE w == Head(todo[t])
<1>1. PICK f \in DOMAIN reg[t] :
          /\ mem' = [g \in Fields |-> IF g \in Access(f) THEN reg[t][g] ELSE mem[g]]
          /\ reg' = [reg EXCEPT ![t] = [g \in DOMAIN reg[t] \ Access(f) |-> reg[t][g]]]
  BY DEF Store
<1>2. /\ todo' = IF DOMAIN reg'[t] = {} THEN [todo EXCEPT ![t] = Tail(todo[t])] ELSE todo
      /\ UNCHANGED <<seqState, trigger, comm, control, controlThreadRunning>>
  BY DEF Store, threads
<1>3. /\ DOMAIN reg' = Threads /\ DOMAIN reg'[t] = DOMAIN reg[t] \ Access(f)
      /\ \A g \in DOMAIN reg'[t] : reg'[t][g] = reg[t][g]
      /\ \A u \in Threads : u # t => reg'[u] = reg[u]
  BY <1>1 DEF TypeInv
<1>4. /\ todo[t] # <<>> /\ w \in Writes /\ w.to \in Fields
      /\ \A g \in Outputs : mem'[g] # mem[g] => g = w.to /\ mem'[g] = w.value
      /\ mem' \in [Fields -> Nat]
  BY StoreMeans DEF Writes
<1>5. /\ todo[t] \in Seq(Writes) /\ Tail(todo[t]) \in Seq(Writes)
      /\ todo' \in [Threads -> Seq(Writes)]
      /\ \A u \in Threads : u # t => todo'[u] = todo[u]
      /\ DOMAIN reg'[t] # {} => todo'[t] = todo[t]
  <2>1. todo[t] \in Seq(Writes) /\ Tail(todo[t]) \in Seq(Writes)
    BY <1>4, TailFacts DEF TypeInv
  <2> QED
    BY <2>1, <1>2 DEF TypeInv
<1>6. TypeInv'
  BY <1>2, <1>3, <1>4, <1>5 DEF TypeInv
<1>7. \A g \in DOMAIN reg[t] : g \in Fields
  BY <1>1, <1>4, FieldFacts DEF Registers, RegistersAreOfWrites
<1>8. RegistersAreOfWrites'
  <2> SUFFICES ASSUME NEW u \in Threads, DOMAIN reg'[u] # {}
               PROVE  /\ todo'[u] # <<>> /\ DOMAIN reg'[u] \subseteq Word(Head(todo'[u]).to)
                      /\ \A g \in DOMAIN reg'[u] : Access(g) \subseteq DOMAIN reg'[u]
    BY DEF RegistersAreOfWrites
  <2>1. CASE u # t
    BY <2>1, <1>3, <1>5 DEF Registers, RegistersAreOfWrites
  <2>2. CASE u = t
    <3>1. \A g \in DOMAIN reg'[t] : Access(g) \cap Access(f) = {}
      BY <1>1, <1>3, <1>7, FieldFacts DEF Fields
    <3>2. \A g \in DOMAIN reg'[t] : Access(g) \subseteq DOMAIN reg[t]
      BY <1>3 DEF Registers, RegistersAreOfWrites
    <3> QED
      BY <2>2, <3>1, <3>2, <1>1, <1>3, <1>5 DEF Registers, RegistersAreOfWrites
  <2> QED
    BY <2>1, <2>2
<1>9. ASSUME NEW u \in Threads, u # t, DOMAIN reg[u] # {},
             Head(todo[u]).to \in Outputs, w.to \in Outputs
      PROVE  Stops(w) /\ Stops(Head(todo[u]))
  BY <1>4, <1>9, NoConflict DEF Registers, RegistersAreOfWrites
<1>10. RegistersAreCurrent'
  <2> SUFFICES ASSUME NEW u \in Threads, NEW g \in DOMAIN reg'[u], g \in Outputs
               PROVE  reg'[u][g] = IF g = Head(todo'[u]).to THEN Head(todo'[u]).value
                                   ELSE mem'[g]
    BY DEF RegistersAreCurrent
  <2>1. CASE u = t
    BY <2>1, <1>3, <1>4, <1>5 DEF Registers, RegistersAreCurrent
  <2>2. CASE u # t
    <3> DEFINE h == Head(todo[u]).to
    <3>1. /\ reg'[u] = reg[u] /\ todo'[u] = todo[u] /\ g \in DOMAIN reg[u]
          /\ reg[u][g] = IF g = h THEN Head(todo[u]).value ELSE mem[g]
      BY <2>2, <1>3, <1>5 DEF Registers, RegistersAreCurrent
    <3>2. ASSUME g # h, mem'[g] # mem[g]
          PROVE  FALSE
      <4>1. g = w.to
        BY <3>2, <1>4
      <4>2. g \in Word(h) /\ todo[u] # <<>>
        BY <3>1 DEF Registers, RegistersAreOfWrites
      <4>3. h \in Fields
        <5>1. Head(todo[u]) \in Writes
          BY <4>2 DEF TypeInv
        <5> QED
          BY <5>1 DEF Writes
      <4>4. h \in Outputs
        BY <4>2, <4>3, FieldFacts DEF Fields
      <4>5. PICK c \in Comps, d \in Comps : g = Amp(c) /\ h = Amp(d)
        BY <4>1, <4>4, <1>9, <2>2, <3>1 DEF Stops
      <4> QED
        BY <4>2, <4>3, <4>5, <3>2, FieldFacts
    <3> QED
      BY <3>1, <3>2
  <2> QED
    BY <2>1, <2>2
<1>11. StoredIsThere'
  <2> SUFFICES ASSUME NEW u \in Threads, DOMAIN reg'[u] # {},
                      Head(todo'[u]).to \notin DOMAIN reg'[u], Head(todo'[u]).to \in Outputs
               PROVE  mem'[Head(todo'[u]).to] = Head(todo'[u]).value
    BY DEF StoredIsThere
  <2>1. CASE u = t
    <3>1. todo'[t] = todo[t] /\ w.to \in Outputs /\ w.to \notin DOMAIN reg[t] \ Access(f)
      BY <2>1, <1>3, <1>5
    <3>2. CASE w.to \notin DOMAIN reg[t]
      <4>1. mem[w.to] = w.value
        BY <3>1, <3>2, <1>1 DEF Registers, StoredIsThere
      <4> QED
        BY <4>1, <3>1, <2>1, <1>4
    <3>3. CASE w.to \in DOMAIN reg[t]
      <4>1. w.to \in Access(f) /\ reg[t][w.to] = w.value
        BY <3>1, <3>3 DEF Registers, RegistersAreCurrent
      <4>2. mem'[w.to] = w.value
        BY <4>1, <1>1, <1>4
      <4> QED
        BY <4>2, <3>1, <2>1
    <3> QED
      BY <3>2, <3>3
  <2>2. CASE u # t
    <3> DEFINE h == Head(todo[u]).to
    <3>1. /\ todo'[u] = todo[u] /\ DOMAIN reg[u] # {} /\ h \in Outputs
          /\ mem[h] = Head(todo[u]).value
      BY <2>2, <1>3, <1>5 DEF Registers, StoredIsThere
    <3>2. ASSUME mem'[h] # mem[h]
          PROVE  mem'[h] = Head(todo[u]).value
      BY <3>1, <3>2, <2>2, <1>4, <1>9 DEF Stops
    <3> QED
      BY <3>1, <3>2
  <2> QED
    BY <2>1, <2>2
<1> QED
  BY <1>6, <1>8, <1>10, <1>11 DEF Registers

-----------------------------------------------------------------------------
(* The invariant.                                                          *)

\* A step within a list of writes: where the threads are does not change.
LEMMA WriteKeeps ==
    ASSUME IInv, NEW t \in Threads, Load(t) \/ Store(t)
    PROVE  ControlIsSafe' /\ CommIsSafe' /\ StoppedAreSilent'
<1> DEFINE w == Head(todo[t])
<1>1. UNCHANGED <<seqState, trigger, comm, control, controlThreadRunning>>
  BY DEF Load, Store, threads
<1>2. TypeInv /\ Registers
  BY DEF IInv, Registers
<1>3. todo[t] # <<>> /\ todo[t] \in Seq(Writes) /\ w \in Writes
  <2>1. CASE Load(t)
    BY <2>1, <1>2 DEF Load, TypeInv
  <2>2. CASE Store(t)
    BY <2>2, <1>2, StoreMeans DEF TypeInv
  <2> QED
    BY <2>1, <2>2
<1>4. /\ \A u \in Threads : u # t => todo'[u] = todo[u]
      /\ todo'[t] = todo[t] \/ (Store(t) /\ DOMAIN reg'[t] = {} /\ todo'[t] = Tail(todo[t]))
  BY <1>2 DEF Load, Store, TypeInv
<1>5. \A u \in Threads : \A i \in DOMAIN todo'[u] :
        \E j \in DOMAIN todo[u] : todo'[u][i] = todo[u][j]
  <2> SUFFICES ASSUME NEW u \in Threads, NEW i \in DOMAIN todo'[u]
               PROVE  \E j \in DOMAIN todo[u] : todo'[u][i] = todo[u][j]
    OBVIOUS
  <2>1. CASE todo'[u] = todo[u]
    BY <2>1
  <2>2. CASE todo'[u] # todo[u]
    <3>1. u = t /\ todo'[u] = Tail(todo[t])
      BY <2>2, <1>4
    <3> QED
      BY <3>1, <1>3, TailFacts
  <2> QED
    BY <2>1, <2>2
<1>6. \A u \in Threads : todo[u] = <<>> => todo'[u] = <<>>
  BY <1>3, <1>4
<1>7. \A u \in Threads :
        /\ OnlyFlags(u) => \A i \in DOMAIN todo'[u] : todo'[u][i].to \in Flags
        /\ OnlyStops(u) => \A i \in DOMAIN todo'[u] : Stops(todo'[u][i])
  BY <1>5 DEF OnlyFlags, OnlyStops
<1>8. ControlIsSafe'
  <2>1. \A i \in DOMAIN todo'["control"] :
           todo'["control"][i].to \in Flags \/ Stops(todo'["control"][i])
    BY <1>5 DEF IInv, ControlIsSafe, Threads
  <2>2. OnlyFlags("control") => OnlyFlags("control")'
    BY <1>7 DEF OnlyFlags, Threads
  <2> QED
    BY <2>1, <2>2, <1>1, <1>6 DEF IInv, ControlIsSafe, Stops, Threads
<1>9. CommIsSafe'
  <2>1. OnlyFlags("comm") => OnlyFlags("comm")'
    BY <1>7 DEF OnlyFlags, Threads
  <2>2. OnlyStops("comm") => OnlyStops("comm")'
    BY <1>7 DEF OnlyStops, Stops, Threads
  <2> QED
    BY <2>1, <2>2, <1>1, <1>6 DEF IInv, CommIsSafe, AtRest, Threads
<1>10. ASSUME NEW g \in Outputs, mem'[g] # mem[g]
       PROVE  Store(t) /\ g = w.to /\ mem'[g] = w.value
  <2>1. ~Load(t)
    BY <1>10 DEF Load
  <2> QED
    BY <2>1, <1>2, <1>10, StoreMeans
<1>11. 1 \in DOMAIN todo[t] /\ w = todo[t][1]
  BY <1>3, TailFacts
<1>12. ASSUME control \in {"clean", "exit"}, w.to \in Outputs
       PROVE  w.value = 0
  <2>1. w.to \notin Flags
    BY <1>12, FieldFacts
  <2>2. CASE t = "control"
    BY <2>1, <2>2, <1>11 DEF IInv, ControlIsSafe, Stops
  <2>3. CASE t = "comm"
    <3>1. ~OnlyFlags("comm")
      BY <2>1, <2>3, <1>11 DEF OnlyFlags
    <3>2. ~AtRest \/ ~controlThreadRunning
      BY <1>12 DEF IInv, ControlIsSafe, AtRest
    <3>3. comm = "stop"
      BY <3>1, <3>2, <2>3, <1>3 DEF IInv, TypeInv, CommIsSafe
    <3> QED
      BY <3>3, <2>3, <1>11 DEF IInv, CommIsSafe, OnlyStops, Stops
  <2> QED
    BY <2>2, <2>3 DEF Threads
<1>13. ASSUME control \in {"clean", "exit"}, NEW c \in Comps
       PROVE  \/ mem'[Amp(c)] = 0
              \/ \E i \in DOMAIN todo'["control"] : todo'["control"][i].to = Amp(c)
  <2>1. Amp(c) \in Outputs
    BY FieldFacts
  <2>2. CASE mem[Amp(c)] = 0
    BY <2>1, <2>2, <1>10, <1>12, <1>13
  <2>3. CASE \E i \in DOMAIN todo["control"] : todo["control"][i].to = Amp(c)
    <3>1. PICK i \in DOMAIN todo["control"] : todo["control"][i].to = Amp(c)
      BY <2>3
    <3>2. CASE todo'["control"] = todo["control"]
      BY <3>1, <3>2
    <3>3. CASE todo'["control"] # todo["control"]
      <4>1. /\ t = "control" /\ Store(t) /\ DOMAIN reg'[t] = {}
            /\ todo'["control"] = Tail(todo["control"])
        BY <3>3, <1>4 DEF Threads
      <4>2. i = 1 \/ (i - 1 \in DOMAIN todo'["control"]
                       /\ todo'["control"][i - 1] = todo["control"][i])
        BY <4>1, <3>1, <1>3, TailFacts
      <4>3. CASE i = 1
        <5>1. w.to = Amp(c)
          BY <4>1, <4>3, <3>1, <1>11
        <5>2. mem'[w.to] = w.value
          BY <5>1, <4>1, <2>1, <1>2, StoreMeans
        <5> QED
          BY <5>1, <5>2, <2>1, <1>12, <1>13
      <4> QED
        BY <4>2, <4>3, <3>1
    <3> QED
      BY <3>2, <3>3
  <2> QED
    BY <2>2, <2>3, <1>13 DEF IInv, StoppedAreSilent
<1>14. control # "ended"
  <2>1. ASSUME control = "ended"
        PROVE  todo["control"] = <<>> /\ todo["comm"] = <<>>
    BY <2>1 DEF IInv, ControlIsSafe, CommIsSafe
  <2> QED
    BY <2>1, <1>3 DEF Threads
<1>15. StoppedAreSilent'
  BY <1>1, <1>13, <1>14 DEF StoppedAreSilent
<1> QED
  BY <1>8, <1>9, <1>15

\* A server that has just started.
LEMMA InitInv == Init => IInv
<1> SUFFICES ASSUME Init PROVE IInv
  OBVIOUS
<1>1. (CHOOSE t \in Types : TRUE) \in Nat
  BY ValuesAreNumbers
<1>2. mem \in [Fields -> Nat]
  BY <1>1 DEF Init
<1>3. \A t \in Threads : DOMAIN reg[t] = {} /\ todo[t] = <<>>
  BY DEF Init, NoReg
<1>4. TypeInv
  <2>1. todo \in [Threads -> Seq(Writes)]
    <3>1. <<>> \in Seq(Writes)
      OBVIOUS
    <3> QED
      BY <3>1 DEF Init
  <2>2. DOMAIN reg = Threads /\ \A t \in Threads : \A g \in DOMAIN reg[t] : reg[t][g] \in Nat
    BY <1>3 DEF Init
  <2> QED
    BY <1>2, <2>1, <2>2 DEF Init, TypeInv
<1>5. RegistersAreOfWrites /\ RegistersAreCurrent /\ StoredIsThere
  BY <1>3 DEF RegistersAreOfWrites, RegistersAreCurrent, StoredIsThere
<1>6. ControlIsSafe /\ CommIsSafe /\ StoppedAreSilent
  BY <1>3 DEF Init, Threads, ControlIsSafe, CommIsSafe, StoppedAreSilent, OnlyFlags
<1> QED
  BY <1>4, <1>5, <1>6 DEF IInv

\* The lists of writes of the commands.
LEMMA FlagWrites ==
    ASSUME NEW n \in Names, NEW v \in Nat
    PROVE  W(Flag(n), v) \in Writes /\ W(Flag(n), v).to \in Flags
  BY FieldFacts DEF W, Writes

\* A command that starts a list of writes: all but comm and what the client
\* may change of the sequence and the trigger.
LEMMA CommandKeeps ==
    ASSUME IInv, NEW ws \in Seq(Writes), Command(ws), UNCHANGED <<mem, reg>>,
           UNCHANGED <<control, controlThreadRunning>>
    PROVE  /\ todo' \in [Threads -> Seq(Writes)] /\ Registers' /\ StoppedAreSilent'
           /\ todo'["comm"] = ws /\ todo'["control"] = todo["control"]
           /\ comm = "serve" /\ controlThreadRunning
<1>1. TypeInv /\ Registers
  BY DEF IInv, Registers
<1>2. Do("comm", ws) /\ comm = "serve"
  BY DEF Command
<1>3. /\ todo' \in [Threads -> Seq(Writes)] /\ Registers'
      /\ todo'["comm"] = ws /\ todo'["control"] = todo["control"]
  BY <1>1, <1>2, StartRegisters DEF Threads
<1>4. StoppedAreSilent'
  BY <1>3 DEF IInv, StoppedAreSilent, Silent
<1> QED
  BY <1>2, <1>3, <1>4 DEF IInv, CommIsSafe

\* Commands that write outputs or flags, or only change the mode.
LEMMA WritingCommandKeeps ==
    ASSUME IInv, NEW ws \in Seq(Writes), Command(ws), UNCHANGED <<mem, reg>>,
           UNCHANGED <<seqState, trigger, threads>>,
           AtRest \/ \A i \in DOMAIN ws : ws[i].to \in Flags
    PROVE  IInv'
<1>1. /\ todo' \in [Threads -> Seq(Writes)] /\ Registers' /\ StoppedAreSilent'
      /\ todo'["comm"] = ws /\ todo'["control"] = todo["control"] /\ comm = "serve"
  BY CommandKeeps DEF threads
<1>2. TypeInv'
  BY <1>1 DEF IInv, TypeInv, threads
<1>3. ControlIsSafe'
  BY <1>1 DEF IInv, ControlIsSafe, OnlyFlags, Stops, threads
<1>4. CommIsSafe'
  BY <1>1 DEF IInv, CommIsSafe, OnlyFlags, AtRest, threads
<1> QED
  BY <1>1, <1>2, <1>3, <1>4 DEF IInv, Registers

\* Each command of a careful client.
LEMMA ClientKeeps ==
    ASSUME IInv, Client, CarefulClient
    PROVE  IInv'
<1>0. <<>> \in Seq(Writes) /\ DOMAIN <<>> = {}
  OBVIOUS
<1>1. CASE RP_DAC_SetAmplitude
  <2>1. PICK c \in Comps, v \in Amplitudes : Command(<<W(Amp(c), v)>>)
    BY <1>1 DEF RP_DAC_SetAmplitude
  <2>2. W(Amp(c), v) \in Writes
    BY FieldFacts, ValuesAreNumbers DEF W, Writes
  <2>3. <<W(Amp(c), v)>> \in Seq(Writes)
    BY <2>2
  <2> QED
    BY <1>1, <2>1, <2>3, WritingCommandKeeps DEF RP_DAC_SetAmplitude, Done, CarefulClient
<1>2. CASE RP_DAC_SetSignalType
  <2>1. PICK c \in Comps, v \in Types : Command(<<W(Type(c), v)>>)
    BY <1>2 DEF RP_DAC_SetSignalType
  <2>2. W(Type(c), v) \in Writes
    BY FieldFacts, ValuesAreNumbers DEF W, Writes
  <2>3. <<W(Type(c), v)>> \in Seq(Writes)
    BY <2>2
  <2> QED
    BY <1>2, <2>1, <2>3, WritingCommandKeeps DEF RP_DAC_SetSignalType, Done, CarefulClient
<1>3. CASE RP_SetServerMode
  BY <1>0, <1>3, WritingCommandKeeps DEF RP_SetServerMode, Done
<1>4. CASE RP_SetMasterTrigger
  <2>1. /\ todo' \in [Threads -> Seq(Writes)] /\ Registers' /\ StoppedAreSilent'
        /\ todo'["comm"] = <<>> /\ todo'["control"] = todo["control"] /\ comm = "serve"
    BY <1>0, <1>4, CommandKeeps DEF RP_SetMasterTrigger, Done, threads
  <2>2. trigger' \in BOOLEAN /\ UNCHANGED <<reg, mem, seqState, threads>>
        /\ ((trigger /\ ~trigger') => seqState # "PREPARED")
    BY <1>4 DEF RP_SetMasterTrigger, Done, CarefulClient
  <2>3. TypeInv'
    BY <2>1, <2>2 DEF IInv, TypeInv, threads
  <2>4. ControlIsSafe'
    BY <2>1, <2>2 DEF IInv, TypeInv, ControlIsSafe, OnlyFlags, Stops, threads
  <2>5. CommIsSafe'
    BY <1>0, <2>1, <2>2 DEF IInv, CommIsSafe, OnlyFlags, threads
  <2> QED
    BY <2>1, <2>3, <2>4, <2>5 DEF IInv, Registers
<1>5. CASE RP_DAC_Configure
  <2>1. /\ todo' \in [Threads -> Seq(Writes)] /\ Registers' /\ StoppedAreSilent'
        /\ todo'["comm"] = <<>> /\ todo'["control"] = todo["control"] /\ comm = "serve"
    BY <1>0, <1>5, CommandKeeps DEF RP_DAC_Configure, Done, threads
  <2>2. /\ seqState # "RUNNING" /\ ~trigger /\ seqState' = "CONFIG"
        /\ UNCHANGED <<mem, reg, trigger, threads>>
    BY <1>5 DEF RP_DAC_Configure, IsSequenceConfigurable, Done, CarefulClient
  <2>3. TypeInv'
    BY <2>1, <2>2 DEF IInv, TypeInv, threads
  <2>4. ControlIsSafe'
    BY <2>1, <2>2 DEF IInv, ControlIsSafe, OnlyFlags, Stops, threads
  <2>5. CommIsSafe'
    BY <1>0, <2>1, <2>2 DEF IInv, CommIsSafe, OnlyFlags, threads
  <2> QED
    BY <2>1, <2>3, <2>4, <2>5 DEF IInv, Registers
<1>6. CASE RP_DAC_SetSequence
  <2> DEFINE ws == <<W(Flag("lostSteps"), 0)>>
  <2>1. W(Flag("lostSteps"), 0) \in Writes /\ W(Flag("lostSteps"), 0).to \in Flags
    BY FlagWrites DEF Names
  <2>2. ws \in Seq(Writes) /\ \A i \in DOMAIN ws : ws[i].to \in Flags
    BY <2>1
  <2>3. /\ Command(ws) /\ comm' = "prepare" /\ seqState # "RUNNING" /\ ~trigger
        /\ UNCHANGED <<mem, reg, seqState, trigger, control, controlThreadRunning>>
    BY <1>6 DEF RP_DAC_SetSequence, IsSequenceConfigurable, Done, CarefulClient
  <2> HIDE DEF ws
  <2>4. /\ todo' \in [Threads -> Seq(Writes)] /\ Registers' /\ StoppedAreSilent'
        /\ todo'["comm"] = ws /\ todo'["control"] = todo["control"]
        /\ comm = "serve" /\ controlThreadRunning
    BY <2>2, <2>3, CommandKeeps
  <2>5. TypeInv'
    BY <2>3, <2>4 DEF IInv, TypeInv
  <2>6. ControlIsSafe'
    BY <2>3, <2>4 DEF IInv, ControlIsSafe, OnlyFlags, Stops
  <2>7. CommIsSafe'
    BY <2>2, <2>3, <2>4 DEF IInv, CommIsSafe, OnlyFlags
  <2> QED
    BY <2>4, <2>5, <2>6, <2>7 DEF IInv, Registers
<1>7. CASE SendDataToClient
  <2>1. PICK overwritten \in BOOLEAN, corrupted \in BOOLEAN :
          Command(<<W(Flag("overwritten"), 0), W(Flag("corrupted"), 0)>>
                    \o (IF overwritten THEN <<W(Flag("overwritten"), 1)>> ELSE <<>>)
                    \o (IF corrupted THEN <<W(Flag("corrupted"), 1)>> ELSE <<>>))
    BY <1>7 DEF SendDataToClient
  <2> DEFINE FlagW == {w \in Writes : w.to \in Flags}
             first == <<W(Flag("overwritten"), 0), W(Flag("corrupted"), 0)>>
             second == IF overwritten THEN <<W(Flag("overwritten"), 1)>> ELSE <<>>
             third == IF corrupted THEN <<W(Flag("corrupted"), 1)>> ELSE <<>>
  <2>2. \A n \in Names, v \in Nat : W(Flag(n), v) \in FlagW
    BY FlagWrites
  <2>3. first \in Seq(FlagW) /\ second \in Seq(FlagW) /\ third \in Seq(FlagW)
    <3>1. /\ W(Flag("overwritten"), 0) \in FlagW /\ W(Flag("overwritten"), 1) \in FlagW
          /\ W(Flag("corrupted"), 0) \in FlagW /\ W(Flag("corrupted"), 1) \in FlagW
      BY <2>2 DEF Names
    <3> HIDE DEF FlagW
    <3> QED
      BY <3>1
  <2> DEFINE ws == first \o second \o third
  <2>4. Command(ws)
    BY <2>1
  <2> HIDE DEF first, second, third
  <2>5. ws \in Seq(FlagW)
    BY <2>3
  <2> HIDE DEF ws
  <2>6. ws \in Seq(Writes) /\ \A i \in DOMAIN ws : ws[i] \in FlagW
    BY <2>5
  <2> QED
    BY <1>7, <2>4, <2>6, WritingCommandKeeps DEF SendDataToClient, Done
<1>8. CASE Leave
  <2>1. Command(StopTx) /\ comm' = "stop"
        /\ UNCHANGED <<mem, reg, seqState, trigger, control, controlThreadRunning>>
    BY <1>8 DEF Leave, Done
  <2>2. /\ todo' \in [Threads -> Seq(Writes)] /\ Registers' /\ StoppedAreSilent'
        /\ todo'["comm"] = StopTx /\ todo'["control"] = todo["control"]
        /\ comm = "serve" /\ controlThreadRunning
    BY <2>1, StopTxStops, CommandKeeps
  <2>3. TypeInv'
    BY <2>1, <2>2 DEF IInv, TypeInv
  <2>4. ControlIsSafe'
    BY <2>1, <2>2 DEF IInv, ControlIsSafe, OnlyFlags, Stops
  <2>5. CommIsSafe'
    BY <2>1, <2>2, StopTxStops DEF IInv, CommIsSafe, OnlyStops, Stops
  <2> QED
    BY <2>2, <2>3, <2>4, <2>5 DEF IInv, Registers
<1>9. CASE Fail
  <2>1. Command(<<>>) /\ comm' = "failed"
        /\ UNCHANGED <<mem, reg, seqState, trigger, control, controlThreadRunning>>
    BY <1>9 DEF Fail, Done
  <2>2. /\ todo' \in [Threads -> Seq(Writes)] /\ Registers' /\ StoppedAreSilent'
        /\ todo'["comm"] = <<>> /\ todo'["control"] = todo["control"]
        /\ comm = "serve" /\ controlThreadRunning
    BY <1>0, <2>1, CommandKeeps
  <2>3. TypeInv'
    BY <2>1, <2>2 DEF IInv, TypeInv
  <2>4. ControlIsSafe'
    BY <2>1, <2>2 DEF IInv, ControlIsSafe, OnlyFlags, Stops
  <2>5. CommIsSafe'
    BY <2>1, <2>2 DEF IInv, CommIsSafe
  <2> QED
    BY <2>2, <2>3, <2>4, <2>5 DEF IInv, Registers
<1> QED
  BY <1>1, <1>2, <1>3, <1>4, <1>5, <1>6, <1>7, <1>8, <1>9 DEF Client

\* The end of a session and the next client.
LEMMA SessionKeeps ==
    ASSUME IInv, Prepared \/ LeaveJoins \/ MainJoins \/ CreateThreads
    PROVE  IInv'
<1>1. UNCHANGED <<mem, todo, reg>>
  BY DEF Prepared, LeaveJoins, MainJoins, CreateThreads
<1>2. Registers'
  BY <1>1 DEF IInv, Registers, RegistersAreOfWrites, RegistersAreCurrent, StoredIsThere
<1>3. CASE Prepared
  <2>1. /\ comm = "prepare" /\ todo["comm"] = <<>> /\ seqState' = "PREPARED" /\ comm' = "serve"
        /\ UNCHANGED <<trigger, control, controlThreadRunning>>
    BY <1>3 DEF Prepared
  <2>2. ~trigger /\ seqState # "RUNNING"
    BY <2>1 DEF IInv, CommIsSafe
  <2>3. TypeInv' /\ StoppedAreSilent'
    BY <1>1, <2>1 DEF IInv, TypeInv, StoppedAreSilent, Silent
  <2>4. ControlIsSafe'
    BY <1>1, <2>1, <2>2 DEF IInv, ControlIsSafe, OnlyFlags, Stops
  <2>5. CommIsSafe'
    BY <1>1, <2>1 DEF IInv, CommIsSafe, OnlyFlags
  <2> QED
    BY <1>2, <2>3, <2>4, <2>5 DEF IInv, Registers
<1>4. CASE LeaveJoins \/ MainJoins
  <2>1. /\ comm \in {"stop", "failed"} /\ todo["comm"] = <<>>
        /\ ~controlThreadRunning' /\ controlThreadRunning' \in BOOLEAN /\ comm' = "join"
        /\ UNCHANGED <<trigger, seqState, control>>
    BY <1>4 DEF LeaveJoins, MainJoins, IInv, CommIsSafe
  <2>2. TypeInv' /\ StoppedAreSilent'
    BY <1>1, <2>1 DEF IInv, TypeInv, StoppedAreSilent, Silent
  <2>3. ControlIsSafe'
    BY <1>1, <2>1 DEF IInv, ControlIsSafe, OnlyFlags, Stops
  <2>4. CommIsSafe'
    BY <1>1, <2>1 DEF IInv, CommIsSafe
  <2> QED
    BY <1>2, <2>2, <2>3, <2>4 DEF IInv, Registers
<1>5. CASE CreateThreads
  <2>1. /\ comm = "join" /\ control = "ended" /\ comm' = "serve" /\ control' = "check"
        /\ controlThreadRunning' = TRUE
        /\ UNCHANGED <<trigger, seqState>>
    BY <1>5 DEF CreateThreads
  <2>2. todo["comm"] = <<>> /\ todo["control"] = <<>>
    BY <2>1 DEF IInv, ControlIsSafe, CommIsSafe
  <2>3. TypeInv' /\ StoppedAreSilent'
    BY <1>1, <2>1 DEF IInv, TypeInv, StoppedAreSilent
  <2>4. ControlIsSafe'
    BY <1>1, <2>1, <2>2 DEF ControlIsSafe, OnlyFlags
  <2>5. CommIsSafe'
    BY <1>1, <2>1, <2>2 DEF CommIsSafe, OnlyFlags
  <2> QED
    BY <1>2, <2>3, <2>4, <2>5 DEF IInv, Registers
<1> QED
  BY <1>3, <1>4, <1>5

\* The list of writes of a step of a sequence.
LEMMA StepWrites ==
    ASSUME NEW late \in BOOLEAN, NEW last \in BOOLEAN
    PROVE  LET ws == (IF late THEN <<W(Flag("lostSteps"), 1)>> ELSE <<>>)
                       \o (IF last THEN StopTx ELSE <<>>)
           IN  /\ ws \in Seq(Writes)
               /\ \A i \in DOMAIN ws : ws[i].to \in Flags \/ Stops(ws[i])
               /\ ~last => \A i \in DOMAIN ws : ws[i].to \in Flags
               /\ last => \A c \in Comps : \E i \in DOMAIN ws : ws[i].to = Amp(c)
<1> DEFINE a == IF late THEN <<W(Flag("lostSteps"), 1)>> ELSE <<>>
           b == IF last THEN StopTx ELSE <<>>
<1>1. W(Flag("lostSteps"), 1) \in Writes /\ W(Flag("lostSteps"), 1).to \in Flags
  BY FlagWrites DEF Names
<1>2. a \in Seq(Writes) /\ \A i \in DOMAIN a : a[i].to \in Flags
  BY <1>1
<1>3. b \in Seq(Writes) /\ \A i \in DOMAIN b : Stops(b[i])
  BY StopTxStops
<1>4. ~last => b = <<>>
  OBVIOUS
<1>5. last => \A c \in Comps : \E i \in DOMAIN b : b[i].to = Amp(c)
  BY StopTxStops
<1> HIDE DEF a, b
<1>6. /\ a \o b \in Seq(Writes)
      /\ \A i \in DOMAIN (a \o b) :
            (i \in DOMAIN a /\ (a \o b)[i] = a[i])
              \/ (i - Len(a) \in DOMAIN b /\ (a \o b)[i] = b[i - Len(a)])
      /\ \A i \in DOMAIN b : Len(a) + i \in DOMAIN (a \o b) /\ (a \o b)[Len(a) + i] = b[i]
  BY <1>2, <1>3
<1>7. \A i \in DOMAIN (a \o b) : (a \o b)[i].to \in Flags \/ Stops((a \o b)[i])
  BY <1>2, <1>3, <1>6
<1>8. ~last => \A i \in DOMAIN (a \o b) : (a \o b)[i].to \in Flags
  BY <1>2, <1>4, <1>6
<1>9. last => \A c \in Comps : \E i \in DOMAIN (a \o b) : (a \o b)[i].to = Amp(c)
  BY <1>5, <1>6
<1> QED
  BY <1>6, <1>7, <1>8, <1>9 DEF a, b

\* The steps of the control thread outside a list of writes.
LEMMA ControlKeeps ==
    ASSUME IInv, CtlCheck \/ CtlHandle \/ CtlCleaned
    PROVE  IInv'
<1>1. UNCHANGED <<mem, reg, trigger, comm, controlThreadRunning>>
  BY DEF CtlCheck, CtlHandle, CtlCleaned, Clean
<1>2. TypeInv /\ Registers
  BY DEF IInv, Registers
<1>3. ASSUME NEW ws \in Seq(Writes), Do("control", ws)
      PROVE  /\ todo' \in [Threads -> Seq(Writes)] /\ Registers'
             /\ todo'["control"] = ws /\ todo'["comm"] = todo["comm"]
  BY <1>1, <1>2, <1>3, StartRegisters DEF Threads
<1>4. CASE CtlCheck /\ Do("control", StopTx)
  <2>1. /\ seqState' = seqState
        /\ \/ control' = "exit" /\ ~controlThreadRunning
           \/ control' = "clean" /\ seqState = "RUNNING"
           \/ control' = "handle" /\ UNCHANGED todo
    BY <1>4 DEF CtlCheck
  <2>2. /\ todo' \in [Threads -> Seq(Writes)] /\ Registers'
        /\ todo'["control"] = StopTx /\ todo'["comm"] = todo["comm"]
    BY <1>3, <1>4, StopTxStops
  <2>3. control' # "handle"
    <3>1. StopTx # <<>> /\ todo["control"] = <<>>
      BY <1>4, StopTxStops DEF CtlCheck
    <3> QED
      BY <2>1, <2>2, <3>1
  <2>4. TypeInv'
    BY <1>1, <2>1, <2>2, <2>3 DEF IInv, TypeInv
  <2>5. ControlIsSafe'
    BY <1>1, <2>1, <2>2, <2>3, StopTxStops DEF ControlIsSafe, Stops
  <2>6. CommIsSafe'
    BY <1>1, <2>1, <2>2 DEF IInv, CommIsSafe, OnlyFlags, OnlyStops, Stops, AtRest
  <2>7. StoppedAreSilent'
    BY <2>1, <2>2, <2>3, StopTxStops DEF StoppedAreSilent
  <2> QED
    BY <2>2, <2>4, <2>5, <2>6, <2>7 DEF IInv, Registers
<1>5. CASE CtlCheck /\ UNCHANGED todo
  <2>1. StopTx # <<>> /\ todo["control"] = <<>>
    BY <1>5, StopTxStops DEF CtlCheck
  <2>2. ~Do("control", StopTx)
    BY <1>2, <1>5, <2>1 DEF Do, TypeInv, Threads
  <2>3. /\ seqState' = seqState /\ control' = "handle" /\ trigger
        /\ seqState \in {"PREPARED", "RUNNING"}
    BY <1>5, <2>2 DEF CtlCheck, Clean
  <2>4. Registers'
    BY <1>1, <1>2, <1>5 DEF Registers, RegistersAreOfWrites, RegistersAreCurrent, StoredIsThere
  <2>5. TypeInv'
    BY <1>1, <1>5, <2>3 DEF IInv, TypeInv
  <2>6. ControlIsSafe'
    BY <1>1, <1>5, <2>1, <2>3 DEF ControlIsSafe, OnlyFlags
  <2>7. CommIsSafe'
    BY <1>1, <1>5, <2>3 DEF IInv, CommIsSafe, OnlyFlags, OnlyStops, Stops, AtRest
  <2>8. StoppedAreSilent'
    BY <2>3 DEF StoppedAreSilent
  <2> QED
    BY <2>4, <2>5, <2>6, <2>7, <2>8 DEF IInv, Registers
<1>6. CASE CtlHandle
  <2> DEFINE list(late, last) == (IF late THEN <<W(Flag("lostSteps"), 1)>> ELSE <<>>)
                                   \o (IF last THEN StopTx ELSE <<>>)
  <2>1. PICK late \in BOOLEAN, last \in BOOLEAN :
           Do("control", list(late, last)) /\ control' = IF last THEN "clean" ELSE "check"
    BY <1>6 DEF CtlHandle
  <2> DEFINE ws == list(late, last)
  <2>2. /\ ws \in Seq(Writes)
        /\ \A i \in DOMAIN ws : ws[i].to \in Flags \/ Stops(ws[i])
        /\ ~last => \A i \in DOMAIN ws : ws[i].to \in Flags
        /\ last => \A c \in Comps : \E i \in DOMAIN ws : ws[i].to = Amp(c)
    BY StepWrites
  <2>3. Do("control", ws)
    BY <2>1
  <2> HIDE DEF ws
  <2>4. /\ todo' \in [Threads -> Seq(Writes)] /\ Registers'
        /\ todo'["control"] = ws /\ todo'["comm"] = todo["comm"]
    BY <1>3, <2>2, <2>3
  <2>5. control = "handle" /\ seqState' = "RUNNING"
    BY <1>6 DEF CtlHandle, IInv, ControlIsSafe
  <2>6. ~AtRest /\ comm # "prepare"
    BY <2>5 DEF IInv, ControlIsSafe, CommIsSafe, AtRest
  <2>7. TypeInv'
    BY <1>1, <2>1, <2>4, <2>5 DEF IInv, TypeInv
  <2>8. ControlIsSafe'
    BY <1>1, <2>1, <2>2, <2>4, <2>5 DEF ControlIsSafe, OnlyFlags, Stops
  <2>9. CommIsSafe'
    BY <1>1, <2>4, <2>6 DEF IInv, CommIsSafe, OnlyFlags, OnlyStops, Stops
  <2>10. StoppedAreSilent'
    BY <2>1, <2>2, <2>4 DEF StoppedAreSilent
  <2> QED
    BY <2>4, <2>7, <2>8, <2>9, <2>10 DEF IInv, Registers
<1>7. CASE CtlCleaned
  <2>1. /\ control \in {"clean", "exit"} /\ todo["control"] = <<>> /\ UNCHANGED todo
        /\ seqState' = "CONFIG" /\ control' = IF control = "clean" THEN "check" ELSE "ended"
    BY <1>7 DEF CtlCleaned
  <2>2. Silent
    BY <2>1 DEF IInv, StoppedAreSilent, Silent
  <2>3. Registers'
    BY <1>1, <1>2, <2>1 DEF Registers, RegistersAreOfWrites, RegistersAreCurrent, StoredIsThere
  <2>4. TypeInv'
    BY <1>1, <2>1 DEF IInv, TypeInv
  <2>5. ControlIsSafe'
    BY <1>1, <2>1 DEF IInv, ControlIsSafe, OnlyFlags
  <2>6. CommIsSafe'
    BY <1>1, <2>1 DEF IInv, CommIsSafe, OnlyFlags, OnlyStops, Stops, AtRest
  <2>7. StoppedAreSilent'
    BY <1>1, <2>1, <2>2 DEF StoppedAreSilent, Silent
  <2> QED
    BY <2>3, <2>4, <2>5, <2>6, <2>7 DEF IInv, Registers
<1>8. CtlCheck => Do("control", StopTx) \/ UNCHANGED todo
  BY DEF CtlCheck, Clean
<1> QED
  BY <1>4, <1>5, <1>6, <1>7, <1>8

\* The steps together: the client's, main's and both threads'.
LEMMA NextKeeps ==
    ASSUME IInv, [Next /\ CarefulClient]_vars
    PROVE  IInv'
<1>1. CASE UNCHANGED vars
  BY <1>1 DEF vars, threads, IInv, TypeInv, RegistersAreOfWrites, RegistersAreCurrent,
              StoredIsThere, ControlIsSafe, CommIsSafe, StoppedAreSilent, OnlyFlags, OnlyStops,
              Stops, AtRest, Silent
<1>2. ASSUME NEW t \in Threads, Load(t) \/ Store(t)
      PROVE  IInv'
  <2>1. TypeInv' /\ Registers'
    BY <1>2, LoadRegisters, StoreRegisters DEF IInv, Registers
  <2>2. ControlIsSafe' /\ CommIsSafe' /\ StoppedAreSilent'
    BY <1>2, WriteKeeps
  <2> QED
    BY <2>1, <2>2 DEF IInv, Registers
<1>3. CASE Client /\ CarefulClient
  BY <1>3, ClientKeeps
<1>4. CASE Prepared \/ LeaveJoins \/ MainJoins \/ CreateThreads
  BY <1>4, SessionKeeps
<1>5. CASE CtlCheck \/ CtlHandle \/ CtlCleaned
  BY <1>5, ControlKeeps
<1> QED
  BY <1>1, <1>2, <1>3, <1>4, <1>5 DEF Next, Comm, Control, Threads

\* The invariant of a server with a careful client.
THEOREM Invariance == CarefulSpec => []IInv
<1>1. IInv /\ [Next /\ CarefulClient]_vars => IInv'
  BY NextKeeps
<1> QED
  BY InitInv, <1>1, PTL DEF CarefulSpec

-----------------------------------------------------------------------------
(* The properties.                                                         *)

\* Steps that are not a store change no field.
LEMMA OnlyStoresChange ==
    ASSUME [Next /\ CarefulClient]_vars
    PROVE  mem' = mem \/ \E t \in Threads : Store(t)
  BY DEF Next, Client, Comm, Control, Threads, Load, Prepared, LeaveJoins, MainJoins,
         CreateThreads, CtlCheck, CtlHandle, CtlCleaned, Clean, Done, vars,
         RP_DAC_SetAmplitude, RP_DAC_SetSignalType, RP_SetServerMode, RP_SetMasterTrigger,
         RP_DAC_Configure, RP_DAC_SetSequence, SendDataToClient, Leave, Fail

\* No store of a thread, to either half of a component, puts back what the
\* other thread has replaced since the load.
THEOREM Meant == CarefulSpec => OnlyMeantChanges
<1>1. ASSUME IInv, [Next /\ CarefulClient]_vars
      PROVE  \A f \in Outputs : mem'[f] # mem[f] =>
                \E t \in Threads : todo[t] # <<>> /\ Head(todo[t]) = W(f, mem'[f])
  <2> SUFFICES ASSUME NEW f \in Outputs, mem'[f] # mem[f]
               PROVE  \E t \in Threads : todo[t] # <<>> /\ Head(todo[t]) = W(f, mem'[f])
    OBVIOUS
  <2>1. PICK t \in Threads : Store(t)
    BY <1>1, OnlyStoresChange
  <2>2. /\ todo[t] # <<>> /\ Head(todo[t]) \in Writes
        /\ f = Head(todo[t]).to /\ mem'[f] = Head(todo[t]).value
    BY <1>1, <2>1, StoreMeans DEF IInv, Registers
  <2>3. Head(todo[t]) = W(f, mem'[f])
    BY <2>2 DEF W, Writes
  <2> QED
    BY <2>2, <2>3
<1>2. IInv /\ [Next /\ CarefulClient]_vars
        => [\A f \in Outputs : mem'[f] # mem[f] =>
              \E t \in Threads : todo[t] # <<>> /\ Head(todo[t]) = W(f, mem'[f])]_vars
  BY <1>1
<1> QED
  BY Invariance, <1>2, PTL DEF CarefulSpec, OnlyMeantChanges

\* A sequence that is over leaves all outputs at zero.
THEOREM EndSilences == CarefulSpec => EndIsSilent
<1>1. ASSUME IInv, [Next /\ CarefulClient]_vars, seqState = "RUNNING", seqState' = "CONFIG"
      PROVE  Silent
  <2>1. CtlCleaned
    BY <1>1 DEF Next, Client, Comm, Control, Load, Store, Prepared, LeaveJoins, MainJoins,
         CreateThreads, CtlCheck, CtlHandle, CtlCleaned, Clean, Done, vars, threads,
         RP_DAC_SetAmplitude, RP_DAC_SetSignalType, RP_SetServerMode, RP_SetMasterTrigger,
         RP_DAC_Configure, RP_DAC_SetSequence, SendDataToClient, Leave, Fail,
         IsSequenceConfigurable
  <2> QED
    BY <1>1, <2>1 DEF CtlCleaned, IInv, StoppedAreSilent, Silent
<1>2. IInv /\ [Next /\ CarefulClient]_vars
        => [(seqState = "RUNNING" /\ seqState' = "CONFIG") => Silent]_vars
  BY <1>1
<1> QED
  BY Invariance, <1>2, PTL DEF CarefulSpec, EndIsSilent

\* A new client finds all outputs at zero.
THEOREM NewClientInSilence == CarefulSpec => NewClientFindsSilence
<1>1. ASSUME IInv, [Next /\ CarefulClient]_vars, comm = "join", comm' = "serve"
      PROVE  Silent
  <2>1. CreateThreads
    BY <1>1 DEF Next, Client, Comm, Control, Load, Store, Prepared, LeaveJoins, MainJoins,
         CreateThreads, CtlCheck, CtlHandle, CtlCleaned, vars, threads, Command,
         RP_DAC_SetAmplitude, RP_DAC_SetSignalType, RP_SetServerMode, RP_SetMasterTrigger,
         RP_DAC_Configure, RP_DAC_SetSequence, SendDataToClient, Leave, Fail
  <2> QED
    BY <1>1, <2>1 DEF CreateThreads, IInv, StoppedAreSilent
<1>2. IInv /\ [Next /\ CarefulClient]_vars
        => [(comm = "join" /\ comm' = "serve") => Silent]_vars
  BY <1>1
<1> QED
  BY Invariance, <1>2, PTL DEF CarefulSpec, NewClientFindsSilence
=============================================================================
