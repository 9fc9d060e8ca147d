----------------------- MODULE ClusterTrigger_proofs ------------------------
(***************************************************************************)
(* Proofs about ClusterTrigger, for a chain of any length, bursts of any   *)
(* size and any trigger setup, operated by a careful client.               *)
(*                                                                         *)
(* The argument: once the constructor is done every RedPitaya has the      *)
(* trigger of the first one (AllFollow, by induction along the chain), so  *)
(* what a register write does to the cluster is decided by one level.  The *)
(* rounds of a stop come in a fixed order (Rounds), every RedPitaya is in  *)
(* the same mode during them or refuses them alike (Alike), and so every   *)
(* writer is kept alive when the master's trigger is cleared (KeptAlive).  *)
(* A writer that neither samples nor is kept alive is then at rest with an *)
(* address of 0, and the others have their words on the burst (Writers).   *)
(***************************************************************************)
EXTENDS ClusterTrigger, WellFoundedInduction, TLAPS

\* the trigger at the head of the chain, of registers c and trigger input level
LevelOf(c, level) == IF setup = "MASTER_EXTERNAL" THEN level ELSE c[1].trig

Level == LevelOf(cfg, outside)

\* the command of the round under way, and the RedPitayas that have not answered
Now == IF calls = <<>> THEN "none" ELSE calls[1].name

Todo == IF calls = <<>> THEN {} ELSE calls[1].rps

\* the constructor is at work; a stop is under way
SettingUp == Now = "connect" \/ Now = "triggerPropagation!"

Halting == Now = "keepAliveReset!" \/ (Now = "masterTrigger!" /\ Arg = "OFF")

\* the rounds whose arguments are the same for every call
LastRound  == Round("keepAliveReset!", "OFF", RPs)
ClearRound == Round("masterTrigger!", "OFF", {1})
PropRound  == Round("triggerPropagation!", "OFF", {N})

\* what is left of a call of the client
Rounds ==
    \/ calls = <<>>
    \/ \E S \in (SUBSET RPs) \ {{}} :
         \/ calls = <<Round("connect", "ON", S), PropRound>>
         \/ calls = <<PropRound>>
         \/ calls = <<Round("keepAliveReset!", "ON", S), ClearRound, LastRound>>
         \/ calls = <<ClearRound, LastRound>>
         \/ calls = <<Round("keepAliveReset!", "OFF", S)>>
         \/ calls = <<Round("masterTrigger!", "ON", {1})>>
         \/ calls = <<Round("startPipelinedData", "ON", S)>>
         \/ \E m \in {"CONFIGURATION", "ACQUISITION"} : calls = <<Round("serverMode!", m, S)>>
         \/ \E on \in {"ON", "OFF"} : calls = <<Round("enableInstantReset!", on, S)>>

\* the trigger source the constructor gives r
IsExternal(c, r) ==
    c[r].external <=> (setup = "ALL_EXTERNAL" \/ (setup = "MASTER_EXTERNAL" /\ r = 1))

\* r is in the chain as the constructor leaves it
Joined(r) == /\ IsExternal(cfg, r)
             /\ IF SettingUp THEN cfg[r].prop ELSE cfg[r].prop <=> r < N

\* only the master has a trigger of its own, and the constructor has reached the
\* RedPitayas that have answered it
Chain ==
    /\ \A r \in RPs : r # 1 => ~cfg[r].trig
    /\ SettingUp => ~cfg[1].trig /\ ~outside
    /\ \A r \in RPs : (Now = "connect" /\ r \in Todo) \/ Joined(r)

\* the servers are in the same mode, but for a round that changes it; a stop and a
\* change of mode wait for the transmissions
Alike ==
    /\ SettingUp => \A r \in RPs : mode[r] = "CONFIGURATION"
    /\ Now = "serverMode!" \/ Halting => \A r \in RPs : mode[r] # "TRANSMISSION"
    /\ Now = "serverMode!" => \A r \in RPs : r \in Todo \/ mode[r] = Arg
    /\ Now # "serverMode!" =>
           \A r, s \in RPs : mode[r] = "CONFIGURATION" <=> mode[s] = "CONFIGURATION"

\* a handler is at work only for a round that turns something off
Handlers ==
    \A r \in RPs : pc[r] # "idle" =>
        /\ r \in Todo /\ mode[r] = "ACQUISITION" /\ Arg = "OFF" /\ Halting
        /\ pc[r] = "clear" => Now = "masterTrigger!"

\* what a stop has done so far: the writers are kept alive from the first round on,
\* the master's before its trigger is cleared, and none is outside a stop
KeptAlive ==
    /\ Halting /\ Arg = "ON" => \A r \in RPs :
           r \in Todo \/ mode[r] # "ACQUISITION" \/ cfg[r].alive
    /\ Now = "masterTrigger!" /\ Arg = "OFF" /\ pc[1] \in {"idle", "clear"} =>
           \A r \in RPs : mode[r] # "ACQUISITION" \/ cfg[r].alive
    /\ pc[1] \in {"release", "drain"} => ~cfg[1].trig
    /\ Now = "keepAliveReset!" /\ Arg = "OFF" /\ mode[1] = "ACQUISITION" => ~cfg[1].trig
    /\ setup # "MASTER_EXTERNAL" => \A r \in RPs :
           cfg[r].alive => /\ Halting /\ mode[r] = "ACQUISITION"
                           /\ Now = "keepAliveReset!" /\ Arg = "OFF" => r \in Todo

\* a writer that does not run is reset; the running ones have taken the same number
\* of words; a burst under way has its words, and begins where a burst may begin
Writers ==
    /\ \A r \in RPs : Level \/ cfg[r].alive \/ (fifo[r] = 0 /\ addr[r] = 0 /\ ~wvalid[r])
    /\ Level => \A r, s \in RPs : addr[r] + fifo[r] = addr[s] + fifo[s]
    /\ \A r \in RPs : IF wvalid[r] THEN fifo[r] + (addr[r] % Burst) >= Burst
                                   ELSE addr[r] % Burst = 0
    /\ \A r \in RPs : addr[r] + fifo[r] <= MaxWords
    /\ cut = {}

\* a configuration register
CfgType == [external : BOOLEAN, prop : BOOLEAN, trig : BOOLEAN, alive : BOOLEAN,
            instant : BOOLEAN]

\* the types, but for those of the rounds
Types ==
    /\ setup \in Setups
    /\ mode \in [RPs -> Modes] /\ cfg \in [RPs -> CfgType]
    /\ pc \in [RPs -> {"idle", "clear", "release", "drain"}]
    /\ wp_old \in [RPs -> 0..MaxWords]
    /\ outside \in BOOLEAN
    /\ output \in [RPs -> BOOLEAN] /\ wvalid \in [RPs -> BOOLEAN]
    /\ fifo \in [RPs -> 0..(Burst + 1)] /\ addr \in [RPs -> 0..MaxWords]
    /\ cut \subseteq RPs

\* the part of the invariant that is about the commands
Control == Rounds /\ Chain /\ Alike /\ Handlers /\ KeptAlive

\* the inductive invariant
IInv == Types /\ Control /\ Writers

\* every RedPitaya of the cluster is triggered, or none is
Uniform == \A r \in RPs : Triggered[r] <=> Level

-----------------------------------------------------------------------------
(* Induction, the chain of triggers, and bursts.                           *)

\* Induction over the natural numbers, for a set: what has 0 and the successor of
\* each of its numbers has them all.
LEMMA Reached ==
    ASSUME NEW S, 0 \in S, \A n \in Nat : n \in S => n + 1 \in S
    PROVE  Nat \subseteq S
<1>1. ASSUME NEW T \in SUBSET Nat, T # {}
      PROVE  \E n \in T : \A m \in T : n <= m
  <2>1. PICK n \in T : \A m \in T : <<m, n>> \notin OpToRel(<, Nat)
    BY <1>1, NatLessThanWellFounded, WFMin
  <2>2. \A m \in T : ~(m < n)
    BY <2>1 DEF OpToRel
  <2> QED
    BY <2>2
<1> SUFFICES ASSUME Nat \ S # {} PROVE FALSE
  OBVIOUS
<1>2. PICK n \in Nat \ S : \A m \in Nat \ S : n <= m
  BY <1>1
<1>3. n # 0 /\ n - 1 \in Nat /\ n - 1 \in S
  BY <1>2
<1> QED
  BY <1>2, <1>3

\* the body of TriggerState, f being the states of the RedPitayas before
TriggerOf(c, level, f, r) ==
    IF c[r].external
    THEN TriggerInput(c, level)
    ELSE c[r].trig \/ (r > 1 /\ f[r - 1] /\ c[r - 1].prop)

\* TriggerState's recursion defines a function.
LEMMA OnExists ==
    ASSUME NEW c, NEW level
    PROVE  \E f : f = [r \in RPs |-> TriggerOf(c, level, f, r)]
<1> DEFINE S == {n \in Nat : \E f : f = [r \in 1..n |-> TriggerOf(c, level, f, r)]}
<1>1. 0 \in S
  <2>1. 1..0 = {}
    OBVIOUS
  <2> DEFINE f == [r \in 1..0 |-> TRUE]
  <2>2. f = [r \in 1..0 |-> TriggerOf(c, level, f, r)]
    BY <2>1
  <2> QED
    BY <2>2
<1>2. ASSUME NEW n \in Nat, n \in S
      PROVE  n + 1 \in S
  <2>1. PICK f : f = [r \in 1..n |-> TriggerOf(c, level, f, r)]
    BY <1>2
  <2> DEFINE g == [r \in 1..(n + 1) |->
                      IF r = n + 1 THEN TriggerOf(c, level, f, r) ELSE f[r]]
  <2>2. \A r \in 1..(n + 1) : r > 1 => g[r - 1] = f[r - 1]
    OBVIOUS
  <2>3. \A r \in 1..(n + 1) : TriggerOf(c, level, g, r) = TriggerOf(c, level, f, r)
    BY <2>2 DEF TriggerOf
  <2>4. \A r \in 1..(n + 1) : g[r] = TriggerOf(c, level, g, r)
    BY <2>1, <2>3
  <2>5. g = [r \in 1..(n + 1) |-> TriggerOf(c, level, g, r)]
    BY <2>4
  <2>6. \E h : h = [r \in 1..(n + 1) |-> TriggerOf(c, level, h, r)]
    <3> HIDE DEF g
    <3> QED
      BY <2>5
  <2> QED
    BY <2>6
<1>3. N \in S
  <2> HIDE DEF S
  <2> QED
    BY <1>1, <1>2, Reached, ClusterAssumption
<1> QED
  BY <1>3 DEF RPs

\* The trigger state of a RedPitaya is that of its own inputs and its predecessor.
LEMMA TriggerIs ==
    ASSUME NEW c, NEW level, NEW r \in RPs
    PROVE  TriggerState(c, level)[r] = TriggerOf(c, level, TriggerState(c, level), r)
<1>1. TriggerState(c, level) = CHOOSE f : f = [q \in RPs |-> TriggerOf(c, level, f, q)]
  BY DEF TriggerState, TriggerOf
<1>2. TriggerState(c, level) = [q \in RPs |-> TriggerOf(c, level, TriggerState(c, level), q)]
  BY <1>1, OnExists
<1> QED
  BY <1>2

\* Nothing triggers, so nobody is triggered, whatever the chain is.
LEMMA AllOff ==
    ASSUME NEW c, NEW level, ~level, \A r \in RPs : ~c[r].trig
    PROVE  \A r \in RPs : TriggerState(c, level)[r] <=> FALSE
<1> DEFINE On == TriggerState(c, level)
           S == {n \in Nat : \A r \in RPs : r <= n => ~On[r]}
<1>1. 1 \in RPs /\ N \in Nat /\ \A r \in RPs : r \in Nat /\ r >= 1 /\ r <= N
  BY ClusterAssumption DEF RPs
<1>2. \A r \in RPs : c[r].external => ~TriggerInput(c, level)
  BY <1>1 DEF TriggerInput
<1>3. \A r \in RPs : On[r] => r > 1 /\ On[r - 1]
  BY <1>2, TriggerIs DEF TriggerOf
<1> HIDE DEF On
<1>4. 0 \in S
  BY <1>1
<1>5. ASSUME NEW n \in Nat, n \in S
      PROVE  n + 1 \in S
  <2> SUFFICES ASSUME NEW r \in RPs, r <= n + 1, On[r]
               PROVE  FALSE
    OBVIOUS
  <2>1. r > 1 /\ On[r - 1] /\ r - 1 \in RPs /\ r - 1 <= n
    BY <1>1, <1>3 DEF RPs
  <2>2. ~On[r - 1]
    BY <1>5, <2>1
  <2> QED
    BY <2>1, <2>2
<1>6. Nat \subseteq S
  <2> HIDE DEF S
  <2> QED
    BY <1>4, <1>5, Reached
<1>7. \A r \in RPs : ~On[r]
  BY <1>1, <1>6
<1> QED
  BY <1>7 DEF On

\* In the chain the constructor leaves, every RedPitaya has the trigger of the first.
LEMMA AllFollow ==
    ASSUME setup \in Setups, NEW c, NEW level \in BOOLEAN,
           \A r \in RPs : /\ c[r].external \in BOOLEAN /\ c[r].prop \in BOOLEAN
                          /\ c[r].trig \in BOOLEAN,
           \A r \in RPs : r # 1 => ~c[r].trig,
           \A r \in RPs : IsExternal(c, r) /\ (c[r].prop <=> r < N)
    PROVE  \A r \in RPs : TriggerState(c, level)[r] <=> LevelOf(c, level)
<1> DEFINE On == TriggerState(c, level)
           S == {n \in Nat : \A r \in RPs : r <= n => (On[r] <=> LevelOf(c, level))}
<1>1. 1 \in RPs /\ N \in Nat /\ \A r \in RPs : r \in Nat /\ r >= 1 /\ r <= N
  BY ClusterAssumption DEF RPs
<1>2. setup \in {"ALL_INTERNAL", "ALL_EXTERNAL", "MASTER_EXTERNAL"}
  BY ClusterAssumption
<1>3. TriggerInput(c, level) = LevelOf(c, level)
  BY DEF TriggerInput, LevelOf
<1>4. \A r \in RPs : \/ On[r] <=> LevelOf(c, level)
                     \/ r > 1 /\ (On[r] <=> On[r - 1])
  <2> SUFFICES ASSUME NEW r \in RPs
               PROVE  \/ On[r] <=> LevelOf(c, level)
                      \/ r > 1 /\ (On[r] <=> On[r - 1])
    OBVIOUS
  <2>1. On[r] = TriggerOf(c, level, On, r)
    BY TriggerIs
  <2> HIDE DEF On
  <2>2. CASE c[r].external
    BY <1>3, <2>1, <2>2 DEF TriggerOf
  <2>3. CASE ~c[r].external /\ r = 1
    <3>1. setup = "ALL_INTERNAL"
      BY <1>1, <1>2, <2>3 DEF IsExternal
    <3> QED
      BY <1>1, <2>1, <2>3, <3>1 DEF TriggerOf, LevelOf
  <2>4. CASE ~c[r].external /\ r # 1
    <3>1. r > 1 /\ r - 1 \in RPs /\ r - 1 < N
      BY <1>1, <2>4 DEF RPs
    <3>2. ~c[r].trig /\ c[r - 1].prop
      BY <2>4, <3>1
    <3> QED
      BY <2>1, <2>4, <3>1, <3>2 DEF TriggerOf
  <2> QED
    BY <2>2, <2>3, <2>4
<1> HIDE DEF On
<1>5. 0 \in S
  BY <1>1
<1>6. ASSUME NEW n \in Nat, n \in S
      PROVE  n + 1 \in S
  <2> SUFFICES ASSUME NEW r \in RPs, r <= n + 1, r > 1
               PROVE  On[r] <=> LevelOf(c, level)
    BY <1>1, <1>4
  <2>1. r - 1 \in RPs /\ r - 1 <= n
    BY <1>1 DEF RPs
  <2> QED
    BY <1>4, <1>6, <2>1
<1>7. Nat \subseteq S
  <2> HIDE DEF S
  <2> QED
    BY <1>5, <1>6, Reached
<1>8. \A r \in RPs : On[r] <=> LevelOf(c, level)
  BY <1>1, <1>7
<1> QED
  BY <1>8 DEF On

\* The position in a burst moves by one word, and from the last to the first.
LEMMA BurstCount ==
    ASSUME NEW a \in Nat
    PROVE  /\ a % Burst \in Nat /\ a % Burst < Burst /\ Burst \in Nat \ {0}
           /\ (a + 1) % Burst = IF a % Burst = Burst - 1 THEN 0 ELSE (a % Burst) + 1
           /\ 0 % Burst = 0
<1>1. Burst \in Nat \ {0}
  BY ClusterAssumption
<1>2. a % Burst \in Nat /\ a % Burst < Burst
  BY <1>1
<1>3. 0 % Burst = 0
  BY <1>1
<1>4. (a + 1) % Burst = IF a % Burst = Burst - 1 THEN 0 ELSE (a % Burst) + 1
  <2> DEFINE p == a \div Burst
             q == (a + 1) \div Burst
             m == (a + 1) % Burst
  <2>1. /\ a = Burst * p + (a % Burst) /\ a + 1 = Burst * q + m
        /\ p \in Int /\ q \in Int /\ m \in Nat /\ m < Burst
    BY <1>1
  <2> HIDE DEF p, q, m
  <2>2. PICK d \in Int : d = q - p
    BY <2>1
  <2>3. Burst * d = Burst * q - Burst * p
    BY <1>1, <2>1, <2>2
  <2>4. Burst * d = 1 + (a % Burst) - m
    <3>1. Burst * p \in Int /\ Burst * q \in Int
      BY <1>1, <2>1
    <3>2. Burst * p = a - (a % Burst) /\ Burst * q = a + 1 - m
      BY <1>2, <2>1, <3>1
    <3> QED
      BY <1>2, <2>1, <2>3, <3>1, <3>2
  <2>5. d >= 2 => Burst * d >= Burst + Burst
    BY <1>1, <2>2
  <2>6. d <= -1 => Burst * d <= -Burst
    BY <1>1, <2>2
  <2>7. d = 0 => m = (a % Burst) + 1
    BY <1>1, <1>2, <2>1, <2>4
  <2>8. d = 1 => m = 0 /\ a % Burst = Burst - 1
    BY <1>1, <1>2, <2>1, <2>4
  <2>9. d = 0 \/ d = 1
    BY <1>1, <1>2, <2>1, <2>2, <2>4, <2>5, <2>6
  <2>10. m = IF a % Burst = Burst - 1 THEN 0 ELSE (a % Burst) + 1
    BY <1>1, <1>2, <2>1, <2>7, <2>8, <2>9
  <2> QED
    BY <2>10 DEF m
<1> QED
  BY <1>1, <1>2, <1>3, <1>4

-----------------------------------------------------------------------------
(* Rounds of commands.                                                     *)

\* The first and the last RedPitaya.
LEMMA Members == /\ 1 \in RPs /\ N \in RPs /\ RPs # {} /\ N \in Nat
                 /\ \A r \in RPs : r \in Nat /\ r <= N
  BY ClusterAssumption DEF RPs

\* The fields of a round.
LEMMA RoundIs ==
    ASSUME NEW name, NEW arg, NEW S
    PROVE  /\ Round(name, arg, S).name = name /\ Round(name, arg, S).arg = arg
           /\ Round(name, arg, S).rps = S
           /\ \A T : [Round(name, arg, S) EXCEPT !.rps = T] = Round(name, arg, T)
  BY DEF Round

\* Sequences of at most three rounds.
LEMMA Queues ==
    ASSUME NEW x, NEW y, NEW z, NEW w
    PROVE  /\ <<x>> # <<>> /\ <<x>>[1] = x /\ Tail(<<x>>) = <<>> /\ Len(<<x>>) = 1
           /\ <<x, y>> # <<>> /\ <<x, y>>[1] = x /\ Tail(<<x, y>>) = <<y>> /\ Len(<<x, y>>) = 2
           /\ <<x, y>>[2] = y
           /\ <<x, y, z>> # <<>> /\ <<x, y, z>>[1] = x /\ Tail(<<x, y, z>>) = <<y, z>>
           /\ Len(<<x, y, z>>) = 3 /\ <<x, y, z>>[2] = y /\ <<x, y, z>>[3] = z
           /\ [<<x>> EXCEPT ![1] = w] = <<w>>
           /\ [<<x, y>> EXCEPT ![1] = w] = <<w, y>>
           /\ [<<x, y, z>> EXCEPT ![1] = w] = <<w, y, z>>
<1>1. /\ <<x>> # <<>> /\ <<x>>[1] = x /\ Tail(<<x>>) = <<>> /\ Len(<<x>>) = 1
      /\ <<x, y>> # <<>> /\ <<x, y>>[1] = x /\ Len(<<x, y>>) = 2 /\ <<x, y>>[2] = y
      /\ <<x, y, z>> # <<>> /\ <<x, y, z>>[1] = x
      /\ Len(<<x, y, z>>) = 3 /\ <<x, y, z>>[2] = y /\ <<x, y, z>>[3] = z
  OBVIOUS
<1>2. Tail(<<x, y>>) = <<y>> /\ Tail(<<x, y, z>>) = <<y, z>>
  OBVIOUS
<1>3. /\ [<<x>> EXCEPT ![1] = w] = <<w>>
      /\ [<<x, y>> EXCEPT ![1] = w] = <<w, y>>
      /\ [<<x, y, z>> EXCEPT ![1] = w] = <<w, y, z>>
  OBVIOUS
<1> QED
  BY <1>1, <1>2, <1>3

\* the round goes on, with the RedPitayas of S
Same(S) == calls' # <<>> /\ calls'[1] = Round(calls[1].name, calls[1].arg, S)

\* An answer takes its RedPitaya from the round, or the round from the call.
LEMMA Answered ==
    ASSUME Rounds, calls # <<>>, NEW r \in RPs, r \in calls[1].rps, Answers(r)
    PROVE  /\ Rounds'
           /\ calls[1].rps # {r} => Same(calls[1].rps \ {r})
           /\ calls[1].rps = {r} =>
                /\ Now = "connect" => calls' = <<PropRound>>
                /\ Now = "keepAliveReset!" /\ Arg = "ON" => calls' = <<ClearRound, LastRound>>
                /\ Now = "masterTrigger!" /\ Arg = "OFF" => calls' = <<LastRound>>
                /\ Now # "connect" /\ (~Halting \/ (Now = "keepAliveReset!" /\ Arg = "OFF"))
                       => calls' = <<>>
<1> DEFINE P == calls[1].rps \ {r}
<1>1. /\ setup' = setup
      /\ calls' = IF calls[1].rps = {r} THEN Tail(calls)
                  ELSE [calls EXCEPT ![1] = [calls[1] EXCEPT !.rps = P]]
  BY DEF Answers
<1> HIDE DEF P
<1> USE RoundIs, Queues DEF Now, Halting, Arg, Same
<1>2. \A S : S \in (SUBSET RPs) \ {{}} /\ calls[1].rps = S /\ S # {r} =>
          P \in (SUBSET RPs) \ {{}}
  BY DEF P
<1>3. RPs \in (SUBSET RPs) \ {{}}
  BY Members
<1>4. PICK S \in (SUBSET RPs) \ {{}} :
         \/ calls = <<Round("connect", "ON", S), PropRound>>
         \/ calls = <<PropRound>>
         \/ calls = <<Round("keepAliveReset!", "ON", S), ClearRound, LastRound>>
         \/ calls = <<ClearRound, LastRound>>
         \/ calls = <<Round("keepAliveReset!", "OFF", S)>>
         \/ calls = <<Round("masterTrigger!", "ON", {1})>>
         \/ calls = <<Round("startPipelinedData", "ON", S)>>
         \/ \E m \in {"CONFIGURATION", "ACQUISITION"} : calls = <<Round("serverMode!", m, S)>>
         \/ \E on \in {"ON", "OFF"} : calls = <<Round("enableInstantReset!", on, S)>>
  BY DEF Rounds
<1>5. CASE calls = <<Round("connect", "ON", S), PropRound>>
  <2>1. calls[1].rps = {r} => calls' = <<PropRound>>
    BY <1>1, <1>5
  <2>2. calls[1].rps # {r} => calls' = <<Round("connect", "ON", P), PropRound>> /\ Same(P)
    BY <1>1, <1>5
  <2>3. Rounds'
    BY <1>2, <1>4, <1>5, <2>1, <2>2 DEF Rounds
  <2> QED
    BY <1>5, <2>1, <2>2, <2>3 DEF P
<1>6. CASE calls = <<Round("keepAliveReset!", "ON", S), ClearRound, LastRound>>
  <2>1. calls[1].rps = {r} => calls' = <<ClearRound, LastRound>>
    BY <1>1, <1>6
  <2>2. calls[1].rps # {r} =>
            calls' = <<Round("keepAliveReset!", "ON", P), ClearRound, LastRound>> /\ Same(P)
    BY <1>1, <1>6
  <2>3. Rounds'
    BY <1>2, <1>4, <1>6, <2>1, <2>2 DEF Rounds
  <2> QED
    BY <1>6, <2>1, <2>2, <2>3 DEF P
<1>7. CASE calls = <<ClearRound, LastRound>>
  <2>1. calls[1].rps = {1} /\ r = 1
    BY <1>7 DEF ClearRound
  <2>2. calls' = <<LastRound>>
    BY <1>1, <1>7, <2>1
  <2>3. Rounds'
    BY <1>3, <2>2 DEF Rounds, LastRound
  <2> QED
    BY <1>7, <2>1, <2>2, <2>3 DEF ClearRound
<1>8. ASSUME NEW name, NEW arg, NEW T, calls = <<Round(name, arg, T)>>, name # "connect",
             name \in {"keepAliveReset!", "masterTrigger!"} =>
                 arg # IF name = "keepAliveReset!" THEN "ON" ELSE "OFF"
      PROVE  /\ calls[1].rps = {r} => calls' = <<>>
             /\ calls[1].rps # {r} => calls' = <<Round(name, arg, P)>> /\ Same(P)
             /\ Now # "connect" /\ ~(Now = "masterTrigger!" /\ Arg = "OFF")
             /\ ~(Now = "keepAliveReset!" /\ Arg = "ON")
  <2>1. calls # <<>> /\ calls[1].name = name /\ calls[1].arg = arg
    BY <1>8
  <2>2. /\ calls[1].rps = {r} => calls' = <<>>
        /\ calls[1].rps # {r} => calls' = <<Round(name, arg, P)>>
    BY <1>1, <1>8
  <2>3. calls[1].rps # {r} => Same(P)
    BY <2>1, <2>2
  <2>4. /\ Now # "connect" /\ ~(Now = "masterTrigger!" /\ Arg = "OFF")
        /\ ~(Now = "keepAliveReset!" /\ Arg = "ON")
    BY <1>8, <2>1
  <2> QED
    BY <2>2, <2>3, <2>4
<1>9. CASE \/ calls = <<PropRound>> \/ calls = <<Round("masterTrigger!", "ON", {1})>>
  <2>1. calls[1].rps = {r}
    BY <1>9 DEF PropRound
  <2>2. calls' = <<>>
    BY <1>8, <1>9, <2>1 DEF PropRound
  <2>3. Rounds'
    BY <2>2 DEF Rounds
  <2> QED
    BY <1>9, <2>1, <2>2, <2>3 DEF PropRound
<1>10. CASE \/ calls = <<Round("keepAliveReset!", "OFF", S)>>
           \/ calls = <<Round("startPipelinedData", "ON", S)>>
  <2>1. calls[1].rps = S
    BY <1>10
  <2>2. Rounds'
    BY <1>2, <1>4, <1>8, <1>10, <2>1 DEF Rounds
  <2>3. /\ calls[1].rps = {r} => calls' = <<>>
        /\ calls[1].rps # {r} => Same(P)
        /\ Now # "connect" /\ ~(Now = "masterTrigger!" /\ Arg = "OFF")
        /\ ~(Now = "keepAliveReset!" /\ Arg = "ON")
    <3> HIDE DEF Now, Arg, Same
    <3> QED
      BY <1>8, <1>10
  <2> QED
    BY <2>2, <2>3 DEF P
<1>11. CASE \E m \in {"CONFIGURATION", "ACQUISITION"} : calls = <<Round("serverMode!", m, S)>>
  <2>1. PICK m \in {"CONFIGURATION", "ACQUISITION"} : calls = <<Round("serverMode!", m, S)>>
    BY <1>11
  <2>2. Rounds'
    BY <1>2, <1>4, <1>8, <2>1 DEF Rounds
  <2>3. /\ calls[1].rps = {r} => calls' = <<>>
        /\ calls[1].rps # {r} => Same(P)
        /\ Now # "connect" /\ ~(Now = "masterTrigger!" /\ Arg = "OFF")
        /\ ~(Now = "keepAliveReset!" /\ Arg = "ON")
    <3> HIDE DEF Now, Arg, Same
    <3> QED
      BY <1>8, <2>1
  <2> QED
    BY <2>2, <2>3 DEF P
<1>12. CASE \E on \in {"ON", "OFF"} : calls = <<Round("enableInstantReset!", on, S)>>
  <2>1. PICK on \in {"ON", "OFF"} : calls = <<Round("enableInstantReset!", on, S)>>
    BY <1>12
  <2>2. Rounds'
    BY <1>2, <1>4, <1>8, <2>1 DEF Rounds
  <2>3. /\ calls[1].rps = {r} => calls' = <<>>
        /\ calls[1].rps # {r} => Same(P)
        /\ Now # "connect" /\ ~(Now = "masterTrigger!" /\ Arg = "OFF")
        /\ ~(Now = "keepAliveReset!" /\ Arg = "ON")
    <3> HIDE DEF Now, Arg, Same
    <3> QED
      BY <1>8, <2>1
  <2> QED
    BY <2>2, <2>3 DEF P
<1> QED
  BY <1>4, <1>5, <1>6, <1>7, <1>9, <1>10, <1>11, <1>12

\* the commands of the rounds
Commands == {"connect", "triggerPropagation!", "keepAliveReset!", "masterTrigger!",
             "startPipelinedData", "serverMode!", "enableInstantReset!"}

\* The round under way, and the types of all.
LEMMA Heads ==
    ASSUME Rounds, calls # <<>>
    PROVE  /\ calls[1].rps \in (SUBSET RPs) \ {{}}
           /\ Now \in Commands
           /\ Now = "connect" => Arg = "ON"
           /\ Now = "triggerPropagation!" => Arg = "OFF" /\ calls[1].rps = {N}
           /\ Now = "masterTrigger!" => Arg \in {"ON", "OFF"} /\ calls[1].rps = {1}
           /\ Now = "keepAliveReset!" \/ Now = "enableInstantReset!" => Arg \in {"ON", "OFF"}
           /\ Now = "serverMode!" => Arg \in {"CONFIGURATION", "ACQUISITION"}
           /\ Arg \in {"ON", "OFF"} \cup Modes
           /\ Len(calls) <= 3
           /\ \A i \in 1..Len(calls) : /\ calls[i].rps \in (SUBSET RPs) \ {{}}
                                       /\ calls[i].arg \in {"ON", "OFF"} \cup Modes
<1> USE RoundIs, Queues, Members DEF Now, Commands, Arg, Modes, ClearRound, LastRound, PropRound
<1>1. {1} \in (SUBSET RPs) \ {{}} /\ {N} \in (SUBSET RPs) \ {{}} /\ RPs \in (SUBSET RPs) \ {{}}
  OBVIOUS
<1>2. \A i \in Nat : /\ i \in 1..1 => i = 1
                     /\ i \in 1..2 => i = 1 \/ i = 2
                     /\ i \in 1..3 => i = 1 \/ i = 2 \/ i = 3
  OBVIOUS
<1>3. ASSUME NEW name, NEW arg \in {"ON", "OFF"} \cup Modes, NEW T \in (SUBSET RPs) \ {{}},
             calls = <<Round(name, arg, T)>>
      PROVE  /\ calls[1].name = name /\ calls[1].arg = arg /\ calls[1].rps = T
             /\ Len(calls) <= 3
             /\ \A i \in 1..Len(calls) : /\ calls[i].rps \in (SUBSET RPs) \ {{}}
                                         /\ calls[i].arg \in {"ON", "OFF"} \cup Modes
  <2>1. calls[1] = Round(name, arg, T) /\ Len(calls) = 1
    BY <1>3
  <2>2. calls[1].name = name /\ calls[1].arg = arg /\ calls[1].rps = T
    BY <2>1
  <2> QED
    BY <1>2, <1>3, <2>1, <2>2
<1>4. PICK S \in (SUBSET RPs) \ {{}} :
         \/ calls = <<Round("connect", "ON", S), PropRound>>
         \/ calls = <<PropRound>>
         \/ calls = <<Round("keepAliveReset!", "ON", S), ClearRound, LastRound>>
         \/ calls = <<ClearRound, LastRound>>
         \/ calls = <<Round("keepAliveReset!", "OFF", S)>>
         \/ calls = <<Round("masterTrigger!", "ON", {1})>>
         \/ calls = <<Round("startPipelinedData", "ON", S)>>
         \/ \E m \in {"CONFIGURATION", "ACQUISITION"} : calls = <<Round("serverMode!", m, S)>>
         \/ \E on \in {"ON", "OFF"} : calls = <<Round("enableInstantReset!", on, S)>>
  BY DEF Rounds
<1>5. CASE calls = <<Round("connect", "ON", S), PropRound>>
  BY <1>1, <1>2, <1>5
<1>6. CASE calls = <<Round("keepAliveReset!", "ON", S), ClearRound, LastRound>>
  <2>1. /\ calls[1] = Round("keepAliveReset!", "ON", S) /\ calls[2] = ClearRound
        /\ calls[3] = LastRound /\ Len(calls) = 3
    BY <1>6
  <2>2. calls[1].name = "keepAliveReset!" /\ calls[1].arg = "ON" /\ calls[1].rps = S
    BY <2>1
  <2>3. /\ calls[2].arg = "OFF" /\ calls[2].rps = {1}
        /\ calls[3].arg = "OFF" /\ calls[3].rps = RPs
    BY <2>1
  <2>4. /\ Len(calls) <= 3
        /\ \A i \in 1..Len(calls) : /\ calls[i].rps \in (SUBSET RPs) \ {{}}
                                    /\ calls[i].arg \in {"ON", "OFF"} \cup Modes
    <3>1. "ON" \in {"ON", "OFF"} \cup Modes /\ "OFF" \in {"ON", "OFF"} \cup Modes
      OBVIOUS
    <3>2. ASSUME NEW i \in 1..3
          PROVE  /\ calls[i].rps \in (SUBSET RPs) \ {{}}
                 /\ calls[i].arg \in {"ON", "OFF"} \cup Modes
      <4>1. i = 1 \/ i = 2 \/ i = 3
        OBVIOUS
      <4> HIDE Queues, RoundIs DEF Modes, ClearRound, LastRound
      <4> QED
        BY <1>1, <2>1, <2>2, <2>3, <3>1, <4>1
    <3> QED
      BY <2>1, <3>2
  <2> QED
    BY <2>2, <2>4
<1>7. CASE calls = <<ClearRound, LastRound>>
  <2>1. /\ calls[1] = ClearRound /\ calls[2] = LastRound /\ Len(calls) = 2
    BY <1>7
  <2>2. /\ calls[1].name = "masterTrigger!" /\ calls[1].arg = "OFF" /\ calls[1].rps = {1}
        /\ calls[2].arg = "OFF" /\ calls[2].rps = RPs
    BY <2>1
  <2>3. /\ Len(calls) <= 3
        /\ \A i \in 1..Len(calls) : /\ calls[i].rps \in (SUBSET RPs) \ {{}}
                                    /\ calls[i].arg \in {"ON", "OFF"} \cup Modes
    <3>1. "OFF" \in {"ON", "OFF"} \cup Modes
      OBVIOUS
    <3>2. ASSUME NEW i \in 1..2
          PROVE  /\ calls[i].rps \in (SUBSET RPs) \ {{}}
                 /\ calls[i].arg \in {"ON", "OFF"} \cup Modes
      <4>1. i = 1 \/ i = 2
        OBVIOUS
      <4> HIDE Queues, RoundIs DEF Modes, ClearRound, LastRound
      <4> QED
        BY <1>1, <2>1, <2>2, <3>1, <4>1
    <3> QED
      BY <2>1, <3>2
  <2> QED
    BY <1>1, <2>2, <2>3
<1>8. CASE calls = <<PropRound>> \/ calls = <<Round("masterTrigger!", "ON", {1})>>
  <2>1. CASE calls = <<PropRound>>
    <3>1. /\ calls[1].name = "triggerPropagation!" /\ calls[1].arg = "OFF" /\ calls[1].rps = {N}
          /\ Len(calls) <= 3
          /\ \A i \in 1..Len(calls) : /\ calls[i].rps \in (SUBSET RPs) \ {{}}
                                      /\ calls[i].arg \in {"ON", "OFF"} \cup Modes
      <4> HIDE Queues, RoundIs
      <4> QED
        BY <1>1, <1>3, <2>1
    <3> QED
      BY <1>1, <1>4, <2>1, <3>1
  <2>2. CASE calls = <<Round("masterTrigger!", "ON", {1})>>
    <3>1. /\ calls[1].name = "masterTrigger!" /\ calls[1].arg = "ON" /\ calls[1].rps = {1}
          /\ Len(calls) <= 3
          /\ \A i \in 1..Len(calls) : /\ calls[i].rps \in (SUBSET RPs) \ {{}}
                                      /\ calls[i].arg \in {"ON", "OFF"} \cup Modes
      <4> HIDE Queues, RoundIs
      <4> QED
        BY <1>1, <1>3, <2>2
    <3> QED
      BY <1>1, <1>4, <2>2, <3>1
  <2> QED
    BY <1>8, <2>1, <2>2
<1>9. CASE \/ calls = <<Round("keepAliveReset!", "OFF", S)>>
           \/ calls = <<Round("startPipelinedData", "ON", S)>>
  <2>1. CASE calls = <<Round("keepAliveReset!", "OFF", S)>>
    BY <1>3, <2>1
  <2>2. CASE calls = <<Round("startPipelinedData", "ON", S)>>
    BY <1>3, <2>2
  <2> QED
    BY <1>9, <2>1, <2>2
<1>10. CASE \E m \in {"CONFIGURATION", "ACQUISITION"} : calls = <<Round("serverMode!", m, S)>>
  <2>1. PICK m \in {"CONFIGURATION", "ACQUISITION"} : calls = <<Round("serverMode!", m, S)>>
    BY <1>10
  <2> QED
    <3>1. /\ calls[1].name = "serverMode!" /\ calls[1].arg = m /\ calls[1].rps = S
          /\ Len(calls) <= 3
          /\ \A i \in 1..Len(calls) : /\ calls[i].rps \in (SUBSET RPs) \ {{}}
                                      /\ calls[i].arg \in {"ON", "OFF"} \cup Modes
      <4> HIDE Queues, RoundIs
      <4> QED
        BY <1>1, <1>3, <2>1
    <3> QED
      BY <1>1, <1>4, <2>1, <3>1
<1>11. CASE \E on \in {"ON", "OFF"} : calls = <<Round("enableInstantReset!", on, S)>>
  BY <1>3, <1>11
<1> QED
  BY <1>4, <1>5, <1>6, <1>7, <1>8, <1>9, <1>10, <1>11

\* What the round under way is after an answer.
LEMMA After ==
    /\ calls' = <<>> => Now' = "none" /\ Todo' = {}
    /\ calls' = <<PropRound>> => Now' = "triggerPropagation!" /\ Todo' = {N} /\ Arg' = "OFF"
    /\ calls' = <<ClearRound, LastRound>> =>
           Now' = "masterTrigger!" /\ Todo' = {1} /\ Arg' = "OFF"
    /\ calls' = <<LastRound>> => Now' = "keepAliveReset!" /\ Todo' = RPs /\ Arg' = "OFF"
    /\ \A S : Same(S) /\ calls # <<>> => Now' = Now /\ Todo' = S /\ Arg' = Arg
<1> USE RoundIs, Queues DEF Now, Todo, Arg
<1>1. calls' = <<>> => Now' = "none" /\ Todo' = {}
  OBVIOUS
<1>2. calls' = <<PropRound>> => Now' = "triggerPropagation!" /\ Todo' = {N} /\ Arg' = "OFF"
  BY DEF PropRound
<1>3. calls' = <<ClearRound, LastRound>> =>
           Now' = "masterTrigger!" /\ Todo' = {1} /\ Arg' = "OFF"
  BY DEF ClearRound
<1>4. calls' = <<LastRound>> => Now' = "keepAliveReset!" /\ Todo' = RPs /\ Arg' = "OFF"
  BY DEF LastRound
<1>5. \A S : Same(S) /\ calls # <<>> => Now' = Now /\ Todo' = S /\ Arg' = Arg
  BY DEF Same
<1> QED
  BY <1>1, <1>2, <1>3, <1>4, <1>5

\* Which RedPitayas a command asks, and with which arguments.
LEMMA Asked ==
    ASSUME Rounds
    PROVE  /\ Todo \subseteq RPs
           /\ Now \in Commands \cup {"none"}
           /\ Now \in Commands <=> calls # <<>>
           /\ calls # <<>> =>
                /\ Todo # {}
                /\ Now = "connect" => Arg = "ON"
                /\ Now = "triggerPropagation!" => Arg = "OFF" /\ Todo = {N}
                /\ Now = "masterTrigger!" => Arg \in {"ON", "OFF"} /\ Todo = {1}
                /\ Now = "keepAliveReset!" \/ Now = "enableInstantReset!" => Arg \in {"ON", "OFF"}
                /\ Now = "serverMode!" => Arg \in {"CONFIGURATION", "ACQUISITION"}
<1>1. CASE calls = <<>>
  BY <1>1 DEF Now, Todo, Commands
<1>2. CASE calls # <<>>
  <2>1. Todo = calls[1].rps
    BY <1>2 DEF Todo
  <2> QED
    BY <1>2, <2>1, Heads
<1> QED
  BY <1>1, <1>2

\* The round that follows an answer.
LEMMA AnswersThen ==
    ASSUME Rounds, calls # <<>>, NEW r \in RPs, r \in calls[1].rps, Answers(r)
    PROVE  /\ Rounds' /\ setup' = setup /\ r \in Todo
           /\ Todo # {r} => Now' = Now /\ Arg' = Arg /\ Todo' = Todo \ {r}
           /\ Todo = {r} =>
                /\ Now = "connect" =>
                       Now' = "triggerPropagation!" /\ Arg' = "OFF" /\ Todo' = {N}
                /\ Now = "keepAliveReset!" /\ Arg = "ON" =>
                       Now' = "masterTrigger!" /\ Arg' = "OFF" /\ Todo' = {1}
                /\ Now = "masterTrigger!" /\ Arg = "OFF" =>
                       Now' = "keepAliveReset!" /\ Arg' = "OFF" /\ Todo' = RPs
                /\ Now # "connect" /\ ~(Now = "keepAliveReset!" /\ Arg = "ON")
                                   /\ ~(Now = "masterTrigger!" /\ Arg = "OFF") =>
                       Now' = "none" /\ Todo' = {}
<1>1. Todo = calls[1].rps
  BY DEF Todo
<1> QED
  BY <1>1, Answered, After, Heads DEF Halting, Answers

-----------------------------------------------------------------------------
(* Every step keeps the rounds, the registers and the handlers consistent. *)

\* A RedPitaya that is called is one the round asks.
LEMMA CalledIs ==
    ASSUME Rounds, NEW r \in RPs, NEW name, Called(r, name)
    PROVE  /\ calls # <<>> /\ Now = name /\ r \in Todo /\ r \in calls[1].rps /\ pc[r] = "idle"
  BY DEF Called, Now, Todo

\* The registers and the trigger input are what is written.
LEMMA SettlesTo ==
    ASSUME NEW c, NEW level, NEW pins, Settles(c, level, pins)
    PROVE  cfg' = c /\ outside' = level
  BY DEF Settles

\* The handlers that answer at once keep Control.
LEMMA CalledStep ==
    ASSUME Types, Control, NEW r \in RPs,
           \/ Refuse(r) \/ RP_SetServerMode(r) \/ Connect(r)
           \/ RP_DAC_SetTriggerPropagation(r) \/ RP_SetInstantResetMode(r)
           \/ RP_ADC_StartPipelinedData(r)
    PROVE  Control'
<1> USE DEF server, Unheard, writer, client
<1>1. Rounds /\ Chain /\ Alike /\ Handlers /\ KeptAlive
  BY DEF Control
<1>2. /\ mode \in [RPs -> Modes]
      /\ cfg \in [RPs -> [external : BOOLEAN, prop : BOOLEAN, trig : BOOLEAN,
                          alive : BOOLEAN, instant : BOOLEAN]]
      /\ pc \in [RPs -> {"idle", "clear", "release", "drain"}]
  BY DEF Types, CfgType
<1>3. CASE Refuse(r)
  <2>1. /\ calls # <<>> /\ r \in Todo /\ pc[r] = "idle" /\ r \in calls[1].rps /\ Answers(r)
        /\ UNCHANGED <<mode, pc, cfg, outside>> /\ mode[r] \notin Allowed(Now)
    BY <1>1, <1>3 DEF Refuse, Called, Now, Todo
  <2>2. /\ Now \notin {"connect", "triggerPropagation!", "serverMode!", "enableInstantReset!"}
        /\ mode[r] # "ACQUISITION"
    BY <1>1, <1>2, <2>1, Asked DEF Allowed, Alike, SettingUp, Modes, Commands
  <2>3. /\ Rounds' /\ setup' = setup
        /\ Todo # {r} => Now' = Now /\ Arg' = Arg /\ Todo' = Todo \ {r}
        /\ Todo = {r} =>
             /\ Now = "keepAliveReset!" /\ Arg = "ON" =>
                    Now' = "masterTrigger!" /\ Arg' = "OFF" /\ Todo' = {1}
             /\ Now = "masterTrigger!" /\ Arg = "OFF" =>
                    Now' = "keepAliveReset!" /\ Arg' = "OFF" /\ Todo' = RPs
             /\ ~(Now = "keepAliveReset!" /\ Arg = "ON")
                /\ ~(Now = "masterTrigger!" /\ Arg = "OFF") => Now' = "none" /\ Todo' = {}
    BY <1>1, <2>1, <2>2, AnswersThen
  <2>4. Chain'
    BY <1>1, <2>1, <2>2, <2>3 DEF Chain, Joined, IsExternal, SettingUp
  <2>5. Alike'
    BY <1>1, <2>1, <2>2, <2>3 DEF Alike, SettingUp, Halting
  <2>6. Handlers'
    BY <1>1, <2>1, <2>3 DEF Handlers, Halting
  <2>7. KeptAlive'
    BY <1>1, <2>1, <2>2, <2>3, Asked DEF KeptAlive, Halting
  <2> QED
    BY <2>3, <2>4, <2>5, <2>6, <2>7 DEF Control
<1>4. CASE RP_SetServerMode(r)
  <2>1. /\ Called(r, "serverMode!") /\ mode' = [mode EXCEPT ![r] = Arg] /\ Answers(r)
        /\ UNCHANGED <<pc, cfg, outside>>
    BY <1>4 DEF RP_SetServerMode, Accepted
  <2>2. calls # <<>> /\ Now = "serverMode!" /\ r \in Todo /\ pc[r] = "idle" /\ r \in calls[1].rps
    BY <1>1, <2>1, CalledIs
  <2>3. /\ Rounds' /\ setup' = setup
        /\ Todo # {r} => Now' = Now /\ Arg' = Arg /\ Todo' = Todo \ {r}
        /\ Todo = {r} => Now' = "none" /\ Todo' = {}
    BY <1>1, <2>1, <2>2, AnswersThen
  <2>4. \A s \in RPs : mode'[s] = IF s = r THEN Arg ELSE mode[s]
    BY <1>2, <2>1
  <2>5. Chain'
    BY <1>1, <2>1, <2>2, <2>3 DEF Chain, Joined, IsExternal, SettingUp
  <2>6. Alike'
    BY <1>1, <2>2, <2>3, <2>4, Asked DEF Alike, SettingUp
  <2>7. Handlers'
    BY <1>1, <2>1, <2>2 DEF Handlers, Halting
  <2>8. KeptAlive'
    BY <1>1, <2>1, <2>2, <2>3 DEF KeptAlive, Halting
  <2> QED
    BY <2>3, <2>5, <2>6, <2>7, <2>8 DEF Control
<1>5. CASE Connect(r)
  <2>1. /\ Called(r, "connect") /\ mode' = [mode EXCEPT ![r] = "CONFIGURATION"] /\ Answers(r)
        /\ pc' = pc /\ outside' = outside
        /\ cfg' = [cfg EXCEPT ![r].external = \/ setup = "ALL_EXTERNAL"
                                              \/ setup = "MASTER_EXTERNAL" /\ r = 1,
                              ![r].prop = TRUE]
    BY <1>5, SettlesTo DEF Connect, Accepted
  <2>2. calls # <<>> /\ Now = "connect" /\ r \in Todo /\ pc[r] = "idle" /\ r \in calls[1].rps
    BY <1>1, <2>1, CalledIs
  <2>3. /\ Rounds' /\ setup' = setup
        /\ Todo # {r} => Now' = Now /\ Arg' = Arg /\ Todo' = Todo \ {r}
        /\ Todo = {r} => Now' = "triggerPropagation!" /\ Arg' = "OFF" /\ Todo' = {N}
    BY <1>1, <2>1, <2>2, AnswersThen
  <2>4. \A s \in RPs : /\ mode'[s] = IF s = r THEN "CONFIGURATION" ELSE mode[s]
                       /\ cfg'[s].trig = cfg[s].trig /\ cfg'[s].alive = cfg[s].alive
                       /\ s # r => cfg'[s] = cfg[s]
    BY <1>2, <2>1
  <2>5. /\ cfg'[r].prop
        /\ cfg'[r].external <=>
             (setup = "ALL_EXTERNAL" \/ (setup = "MASTER_EXTERNAL" /\ r = 1))
    BY <1>2, <2>1
  <2>6. Chain'
    BY <1>1, <1>2, <2>1, <2>2, <2>3, Members DEF Chain, Joined, IsExternal, SettingUp
  <2>7. Alike'
    BY <1>1, <2>2, <2>3, <2>4 DEF Alike, SettingUp
  <2>8. Handlers'
    BY <1>1, <2>1, <2>2 DEF Handlers, Halting
  <2>9. KeptAlive'
    BY <1>1, <1>2, <2>1, <2>2, <2>3, Members DEF KeptAlive, Halting
  <2> QED
    BY <2>3, <2>6, <2>7, <2>8, <2>9 DEF Control
<1>6. CASE RP_DAC_SetTriggerPropagation(r)
  <2>1. /\ Called(r, "triggerPropagation!") /\ Answers(r)
        /\ UNCHANGED <<pc, mode, outside>>
        /\ cfg' = [cfg EXCEPT ![r].prop = Arg = "ON"]
    BY <1>6, SettlesTo DEF RP_DAC_SetTriggerPropagation, Accepted
  <2>2. /\ calls # <<>> /\ Now = "triggerPropagation!" /\ r \in Todo /\ pc[r] = "idle"
        /\ r \in calls[1].rps
    BY <1>1, <2>1, CalledIs
  <2>3. Arg = "OFF" /\ Todo = {N} /\ r = N
    BY <1>1, <2>2, Asked
  <2>4. Rounds' /\ setup' = setup /\ Now' = "none" /\ Todo' = {}
    BY <1>1, <2>1, <2>2, <2>3, AnswersThen
  <2>5. \A s \in RPs : /\ cfg'[s].trig = cfg[s].trig /\ cfg'[s].alive = cfg[s].alive
                       /\ cfg'[s].external = cfg[s].external
                       /\ s # N => cfg'[s].prop = cfg[s].prop
                       /\ s = N => ~cfg'[s].prop
    BY <1>2, <2>1, <2>3
  <2>6. Chain'
    BY <1>1, <2>3, <2>4, <2>5, Asked, Members DEF Chain, Joined, IsExternal, SettingUp
  <2>7. Alike'
    BY <1>1, <2>1, <2>3, <2>4, Asked DEF Alike, SettingUp, Halting
  <2>8. Handlers'
    BY <1>1, <2>1, <2>2 DEF Handlers, Halting
  <2>9. KeptAlive'
    BY <1>1, <2>1, <2>2, <2>4 DEF KeptAlive, Halting
  <2> QED
    BY <2>4, <2>6, <2>7, <2>8, <2>9 DEF Control
<1>7. CASE RP_SetInstantResetMode(r)
  <2>1. /\ Called(r, "enableInstantReset!") /\ Answers(r)
        /\ UNCHANGED <<pc, mode, outside>>
        /\ cfg' = [cfg EXCEPT ![r].instant = Arg = "ON"]
    BY <1>7, SettlesTo DEF RP_SetInstantResetMode, Accepted
  <2>2. /\ calls # <<>> /\ Now = "enableInstantReset!" /\ r \in Todo /\ pc[r] = "idle"
        /\ r \in calls[1].rps
    BY <1>1, <2>1, CalledIs
  <2>3. /\ Rounds' /\ setup' = setup
        /\ Todo # {r} => Now' = Now /\ Arg' = Arg /\ Todo' = Todo \ {r}
        /\ Todo = {r} => Now' = "none" /\ Todo' = {}
    BY <1>1, <2>1, <2>2, AnswersThen
  <2>4. \A s \in RPs : /\ cfg'[s].trig = cfg[s].trig /\ cfg'[s].alive = cfg[s].alive
                       /\ cfg'[s].external = cfg[s].external /\ cfg'[s].prop = cfg[s].prop
    BY <1>2, <2>1
  <2>5. Chain'
    BY <1>1, <2>2, <2>3, <2>4 DEF Chain, Joined, IsExternal, SettingUp
  <2>6. Alike'
    BY <1>1, <2>1, <2>2, <2>3 DEF Alike, SettingUp, Halting
  <2>7. Handlers'
    BY <1>1, <2>1, <2>2 DEF Handlers, Halting
  <2>8. KeptAlive'
    BY <1>1, <2>1, <2>2, <2>3 DEF KeptAlive, Halting
  <2> QED
    BY <2>3, <2>5, <2>6, <2>7, <2>8 DEF Control
<1>8. CASE RP_ADC_StartPipelinedData(r)
  <2>1. /\ Called(r, "startPipelinedData") /\ mode' = [mode EXCEPT ![r] = "TRANSMISSION"]
        /\ mode[r] = "ACQUISITION" /\ Answers(r) /\ UNCHANGED <<pc, cfg, outside>>
    BY <1>8 DEF RP_ADC_StartPipelinedData, Accepted, Allowed
  <2>2. /\ calls # <<>> /\ Now = "startPipelinedData" /\ r \in Todo /\ pc[r] = "idle"
        /\ r \in calls[1].rps
    BY <1>1, <2>1, CalledIs
  <2>3. /\ Rounds' /\ setup' = setup
        /\ Todo # {r} => Now' = Now /\ Arg' = Arg /\ Todo' = Todo \ {r}
        /\ Todo = {r} => Now' = "none" /\ Todo' = {}
    BY <1>1, <2>1, <2>2, AnswersThen
  <2>4. \A s \in RPs : mode'[s] = IF s = r THEN "TRANSMISSION" ELSE mode[s]
    BY <1>2, <2>1
  <2>5. Chain'
    BY <1>1, <2>1, <2>2, <2>3 DEF Chain, Joined, IsExternal, SettingUp
  <2>6. Alike'
    BY <1>1, <2>1, <2>2, <2>3 DEF Alike, SettingUp, Halting
  <2>7. Handlers'
    BY <1>1, <2>1, <2>2 DEF Handlers, Halting
  <2>8. KeptAlive'
    BY <1>1, <2>1, <2>2, <2>3 DEF KeptAlive, Halting
  <2> QED
    BY <2>3, <2>5, <2>6, <2>7, <2>8 DEF Control
<1> QED
  BY <1>3, <1>4, <1>5, <1>6, <1>7, <1>8

\* Every RedPitaya is triggered with the head of the chain: the constructor has no
\* trigger to propagate, and leaves a chain that does.
LEMMA Followed ==
    ASSUME Types, Control
    PROVE  \A r \in RPs : Triggered[r] <=> Level
<1>1. /\ setup \in Setups /\ outside \in BOOLEAN
      /\ \A r \in RPs : cfg[r].external \in BOOLEAN /\ cfg[r].prop \in BOOLEAN
                        /\ cfg[r].trig \in BOOLEAN
  BY DEF Types, CfgType
<1>2. CASE SettingUp
  <2>1. ~outside /\ \A r \in RPs : ~cfg[r].trig
    BY <1>2 DEF Control, Chain
  <2>2. ~Level
    BY <2>1, Members DEF Level, LevelOf
  <2> QED
    BY <2>1, <2>2, AllOff DEF Triggered
<1>3. CASE ~SettingUp
  <2>1. \A r \in RPs : /\ r # 1 => ~cfg[r].trig
                       /\ IsExternal(cfg, r) /\ (cfg[r].prop <=> r < N)
    BY <1>3 DEF Control, Chain, Joined, SettingUp
  <2> QED
    BY <1>1, <2>1, AllFollow DEF Triggered, Level
<1> QED
  BY <1>2, <1>3

\* The handlers that turn the keep-alive reset and the trigger on and off keep
\* Control: ClearTrigger clears the master's only, and no writer is released before
\* that has been.
LEMMA HandlerStep ==
    ASSUME Types, Control, NEW r \in RPs,
           \/ RP_SetKeepAliveReset(r) \/ RP_SetMasterTrigger(r)
           \/ ClearTrigger(r) \/ Release(r) \/ Poll(r)
    PROVE  Control'
<1> USE DEF server, Unheard, writer, client
<1>1. Rounds /\ Chain /\ Alike /\ Handlers /\ KeptAlive
  BY DEF Control
<1>2. /\ mode \in [RPs -> Modes]
      /\ cfg \in [RPs -> [external : BOOLEAN, prop : BOOLEAN, trig : BOOLEAN,
                          alive : BOOLEAN, instant : BOOLEAN]]
      /\ pc \in [RPs -> {"idle", "clear", "release", "drain"}]
  BY DEF Types, CfgType
<1>3. CASE RP_SetKeepAliveReset(r)
  <2>1. Called(r, "keepAliveReset!") /\ mode[r] = "ACQUISITION"
    BY <1>3 DEF RP_SetKeepAliveReset, Accepted, Allowed
  <2>2. /\ calls # <<>> /\ Now = "keepAliveReset!" /\ r \in Todo /\ pc[r] = "idle"
        /\ r \in calls[1].rps
    BY <1>1, <2>1, CalledIs
  <2>3. CASE Arg = "ON"
    <3>1. /\ cfg' = [cfg EXCEPT ![r].alive = TRUE] /\ Answers(r)
          /\ UNCHANGED <<mode, pc, outside>>
      BY <1>3, <2>3, SettlesTo DEF RP_SetKeepAliveReset
    <3>2. /\ Rounds' /\ setup' = setup
          /\ Todo # {r} => Now' = Now /\ Arg' = Arg /\ Todo' = Todo \ {r}
          /\ Todo = {r} => Now' = "masterTrigger!" /\ Arg' = "OFF" /\ Todo' = {1}
      BY <1>1, <2>2, <2>3, <3>1, AnswersThen
    <3>3. \A s \in RPs : /\ cfg'[s].trig = cfg[s].trig /\ cfg'[s].external = cfg[s].external
                         /\ cfg'[s].prop = cfg[s].prop
                         /\ cfg'[s].alive = IF s = r THEN TRUE ELSE cfg[s].alive
      BY <1>2, <3>1
    <3>4. Chain'
      BY <1>1, <2>2, <3>1, <3>2 DEF Chain, Joined, IsExternal, SettingUp
    <3>5. Alike'
      BY <1>1, <2>2, <3>1, <3>2 DEF Alike, SettingUp, Halting
    <3>6. Handlers'
      BY <1>1, <2>3, <3>1 DEF Handlers
    <3>7. KeptAlive'
      BY <1>1, <1>2, <2>1, <2>2, <2>3, <3>1, <3>2 DEF KeptAlive, Halting
    <3> QED
      BY <3>2, <3>4, <3>5, <3>6, <3>7 DEF Control
  <2>4. CASE Arg # "ON"
    <3>1. /\ pc' = [pc EXCEPT ![r] = "release"] /\ UNCHANGED <<setup, calls, mode, cfg, outside>>
      BY <1>3, <2>4 DEF RP_SetKeepAliveReset, At
    <3>2. UNCHANGED <<Now, Todo, Arg>> /\ Rounds'
      BY <1>1, <3>1 DEF Now, Todo, Arg, Rounds
    <3>3. \A s \in RPs : pc'[s] = IF s = r THEN "release" ELSE pc[s]
      BY <1>2, <3>1
    <3>4. Chain'
      BY <1>1, <3>1, <3>2 DEF Chain, Joined, IsExternal, SettingUp
    <3>5. Alike'
      BY <1>1, <3>1, <3>2 DEF Alike, SettingUp, Halting
    <3>6. Handlers'
      BY <1>1, <2>1, <2>2, <2>4, <3>1, <3>2, Asked DEF Handlers, Halting
    <3>7. KeptAlive'
      BY <1>1, <2>1, <2>2, <2>4, <3>1, <3>2, Asked DEF KeptAlive, Halting
    <3> QED
      BY <3>2, <3>4, <3>5, <3>6, <3>7 DEF Control
  <2> QED
    BY <2>3, <2>4
<1>4. CASE RP_SetMasterTrigger(r)
  <2>1. Called(r, "masterTrigger!") /\ mode[r] = "ACQUISITION"
    BY <1>4 DEF RP_SetMasterTrigger, Accepted, Allowed
  <2>2. /\ calls # <<>> /\ Now = "masterTrigger!" /\ r \in Todo /\ pc[r] = "idle"
        /\ r \in calls[1].rps
    BY <1>1, <2>1, CalledIs
  <2>3. Todo = {1} /\ r = 1 /\ Arg \in {"ON", "OFF"}
    BY <1>1, <2>2, Asked
  <2>4. CASE Arg = "ON"
    <3>1. /\ cfg' = [cfg EXCEPT ![1].trig = TRUE] /\ Answers(r)
          /\ UNCHANGED <<mode, pc, outside>>
      BY <1>4, <2>3, <2>4, SettlesTo DEF RP_SetMasterTrigger
    <3>2. Rounds' /\ setup' = setup /\ Now' = "none" /\ Todo' = {}
      BY <1>1, <2>2, <2>3, <2>4, <3>1, AnswersThen
    <3>3. \A s \in RPs : /\ cfg'[s].trig = IF s = 1 THEN TRUE ELSE cfg[s].trig
                         /\ cfg'[s].external = cfg[s].external
                         /\ cfg'[s].prop = cfg[s].prop /\ cfg'[s].alive = cfg[s].alive
      BY <1>2, <3>1
    <3>4. Chain'
      BY <1>1, <2>2, <3>1, <3>2 DEF Chain, Joined, IsExternal, SettingUp
    <3>5. Alike'
      BY <1>1, <2>4, <3>1, <3>2, Asked DEF Alike, SettingUp, Halting
    <3>6. Handlers'
      BY <1>1, <2>4, <3>1 DEF Handlers
    <3>7. KeptAlive'
      BY <1>1, <2>2, <2>4, <3>1, <3>2, Members DEF Handlers, KeptAlive, Halting
    <3> QED
      BY <3>2, <3>4, <3>5, <3>6, <3>7 DEF Control
  <2>5. CASE Arg = "OFF"
    <3>1. /\ pc' = [pc EXCEPT ![1] = "clear"] /\ UNCHANGED <<setup, calls, mode, outside>>
          /\ cfg' = [cfg EXCEPT ![1].alive = TRUE]
      BY <1>4, <2>3, <2>5, SettlesTo DEF RP_SetMasterTrigger, At
    <3>2. UNCHANGED <<Now, Todo, Arg>> /\ Rounds'
      BY <1>1, <3>1 DEF Now, Todo, Arg, Rounds
    <3>3. \A s \in RPs : /\ cfg'[s].trig = cfg[s].trig /\ cfg'[s].external = cfg[s].external
                         /\ cfg'[s].prop = cfg[s].prop
                         /\ cfg'[s].alive = IF s = 1 THEN TRUE ELSE cfg[s].alive
                         /\ pc'[s] = IF s = 1 THEN "clear" ELSE pc[s]
      BY <1>2, <3>1
    <3>4. Chain'
      BY <1>1, <3>1, <3>2 DEF Chain, Joined, IsExternal, SettingUp
    <3>5. Alike'
      BY <1>1, <3>1, <3>2 DEF Alike, SettingUp, Halting
    <3>6. Handlers'
      BY <1>1, <2>1, <2>2, <2>5, <3>1, <3>2, Asked DEF Handlers, Halting
    <3>7. KeptAlive'
      BY <1>1, <2>1, <2>2, <2>5, <3>1, <3>2, Asked DEF KeptAlive, Halting
    <3> QED
      BY <3>2, <3>4, <3>5, <3>6, <3>7 DEF Control
  <2> QED
    BY <2>3, <2>4, <2>5
<1>5. CASE ClearTrigger(r)
  <2>1. /\ pc[r] = "clear" /\ pc' = [pc EXCEPT ![r] = "release"]
        /\ UNCHANGED <<setup, calls, mode, outside>>
        /\ cfg' = [cfg EXCEPT ![r].trig = FALSE]
    BY <1>5, SettlesTo DEF ClearTrigger, At
  <2>2. r \in Todo /\ Now = "masterTrigger!" /\ Arg = "OFF" /\ mode[r] = "ACQUISITION"
    BY <1>1, <2>1 DEF Handlers
  <2>3. Todo = {1} /\ r = 1
    BY <1>1, <2>2, Asked DEF Todo
  <2>4. UNCHANGED <<Now, Todo, Arg>> /\ Rounds'
    BY <1>1, <2>1 DEF Now, Todo, Arg, Rounds
  <2>5. \A s \in RPs : /\ cfg'[s].trig = IF s = 1 THEN FALSE ELSE cfg[s].trig
                       /\ cfg'[s].external = cfg[s].external
                       /\ cfg'[s].prop = cfg[s].prop /\ cfg'[s].alive = cfg[s].alive
                       /\ pc'[s] = IF s = 1 THEN "release" ELSE pc[s]
    BY <1>2, <2>1, <2>3
  <2>6. Chain'
    BY <1>1, <2>1, <2>4 DEF Chain, Joined, IsExternal, SettingUp
  <2>7. Alike'
    BY <1>1, <2>1, <2>4 DEF Alike, SettingUp, Halting
  <2>8. Handlers'
    BY <1>1, <2>1, <2>4 DEF Handlers, Halting
  <2>9. KeptAlive'
    BY <1>1, <1>2, <2>1, <2>4 DEF KeptAlive, Halting
  <2> QED
    BY <2>4, <2>6, <2>7, <2>8, <2>9 DEF Control
<1>6. CASE Poll(r) \/ Release(r)
  <2>1. /\ pc[r] \in {"release", "drain"} /\ mode' = mode /\ outside' = outside /\ setup' = setup
        /\ \/ pc' = [pc EXCEPT ![r] = "drain"] /\ UNCHANGED <<calls, cfg>>
           \/ pc' = pc /\ UNCHANGED <<calls, cfg>>
           \/ /\ pc' = [pc EXCEPT ![r] = "idle"] /\ Answers(r)
              /\ \/ cfg' = cfg /\ Triggered[r]
                 \/ cfg' = [cfg EXCEPT ![r].alive = FALSE]
    BY <1>6, SettlesTo DEF Poll, Release, At, Answers
  <2>2. r \in Todo /\ Halting /\ Arg = "OFF" /\ mode[r] = "ACQUISITION"
    BY <1>1, <2>1 DEF Handlers
  <2>3. CASE pc' = [pc EXCEPT ![r] = "drain"] /\ UNCHANGED <<calls, cfg>>
    <3>1. UNCHANGED <<Now, Todo, Arg>> /\ Rounds'
      BY <1>1, <2>1, <2>3 DEF Now, Todo, Arg, Rounds
    <3>2. \A s \in RPs : pc'[s] = IF s = r THEN "drain" ELSE pc[s]
      BY <1>2, <2>3
    <3>3. Chain'
      BY <1>1, <2>1, <2>3, <3>1 DEF Chain, Joined, IsExternal, SettingUp
    <3>4. Alike'
      BY <1>1, <2>1, <3>1 DEF Alike, SettingUp, Halting
    <3>5. Handlers'
      BY <1>1, <2>1, <3>1, <3>2 DEF Handlers, Halting
    <3>6. KeptAlive'
      BY <1>1, <2>1, <2>3, <3>1 DEF KeptAlive, Halting
    <3> QED
      BY <3>1, <3>3, <3>4, <3>5, <3>6 DEF Control
  <2>4. CASE pc' = pc /\ UNCHANGED <<calls, cfg>>
    <3>1. UNCHANGED <<Now, Todo, Arg>> /\ Rounds'
      BY <1>1, <2>1, <2>4 DEF Now, Todo, Arg, Rounds
    <3>2. Chain'
      BY <1>1, <2>1, <2>4, <3>1 DEF Chain, Joined, IsExternal, SettingUp
    <3>3. Alike'
      BY <1>1, <2>1, <3>1 DEF Alike, SettingUp, Halting
    <3>4. Handlers'
      BY <1>1, <2>1, <2>4, <3>1 DEF Handlers, Halting
    <3>5. KeptAlive'
      BY <1>1, <2>1, <2>4, <3>1 DEF KeptAlive, Halting
    <3> QED
      BY <3>1, <3>2, <3>3, <3>4, <3>5 DEF Control
  <2>5. CASE /\ pc' = [pc EXCEPT ![r] = "idle"] /\ Answers(r)
             /\ \/ cfg' = cfg /\ Triggered[r]
                \/ cfg' = [cfg EXCEPT ![r].alive = FALSE]
    <3>1. calls # <<>> /\ r \in calls[1].rps
      BY <2>2 DEF Todo
    <3>2. /\ Rounds'
          /\ Todo # {r} => Now' = Now /\ Arg' = Arg /\ Todo' = Todo \ {r}
          /\ Todo = {r} =>
               /\ Now = "masterTrigger!" =>
                      Now' = "keepAliveReset!" /\ Arg' = "OFF" /\ Todo' = RPs
               /\ Now = "keepAliveReset!" => Now' = "none" /\ Todo' = {}
      BY <1>1, <2>2, <2>5, <3>1, AnswersThen
    <3>3. Now = "masterTrigger!" => Todo = {1} /\ r = 1
      BY <1>1, <2>2, <3>1, Asked
    <3>4. \A s \in RPs : /\ cfg'[s].trig = cfg[s].trig /\ cfg'[s].external = cfg[s].external
                         /\ cfg'[s].prop = cfg[s].prop
                         /\ s # r => cfg'[s].alive = cfg[s].alive /\ pc'[s] = pc[s]
      BY <1>2, <2>5
    <3>5. pc'[r] = "idle" /\ (cfg'[r].alive => Triggered[r])
      BY <1>2, <2>5
    <3>6. ~cfg[1].trig
      <4>1. CASE Now = "masterTrigger!"
        BY <1>1, <2>1, <3>3, <4>1 DEF KeptAlive
      <4>2. CASE Now = "keepAliveReset!"
        BY <1>1, <1>2, <2>2, <4>2, Members DEF KeptAlive, Alike, Halting, Modes
      <4> QED
        BY <2>2, <4>1, <4>2 DEF Halting
    <3>7. setup # "MASTER_EXTERNAL" => ~Triggered[r]
      BY <1>1, <1>2, <2>2, <3>6, Followed DEF Level, LevelOf
    <3>8. Chain'
      BY <1>1, <2>1, <2>2, <3>2, <3>4 DEF Chain, Joined, IsExternal, SettingUp, Halting
    <3>9. Alike'
      BY <1>1, <2>1, <2>2, <3>2 DEF Alike, SettingUp, Halting
    <3>10. Handlers'
      BY <1>1, <2>1, <3>2, <3>4, <3>5 DEF Handlers, Halting
    <3>11. KeptAlive'
      BY <1>1, <2>1, <3>2, <3>4, <3>5, <3>7, Asked, Members
         DEF Handlers, KeptAlive, Halting
    <3> QED
      BY <3>2, <3>8, <3>9, <3>10, <3>11 DEF Control
  <2> QED
    BY <2>1, <2>3, <2>4, <2>5
<1> QED
  BY <1>3, <1>4, <1>5, <1>6

\* A new call keeps Control: no server is in TRANSMISSION.
LEMMA ClientStep ==
    ASSUME Types, Control, Quiet, Client
    PROVE  Control'
<1> USE DEF server, Unheard, writer, client
<1>1. Rounds /\ Chain /\ Alike /\ Handlers /\ KeptAlive
  BY DEF Control
<1>2. /\ mode \in [RPs -> Modes]
      /\ cfg \in [RPs -> [external : BOOLEAN, prop : BOOLEAN, trig : BOOLEAN,
                          alive : BOOLEAN, instant : BOOLEAN]]
      /\ pc \in [RPs -> {"idle", "clear", "release", "drain"}]
  BY DEF Types, CfgType
<1>3. /\ calls = <<>> /\ Now = "none" /\ Todo = {}
      /\ UNCHANGED <<setup, mode, pc, cfg, outside>>
  BY DEF Client, Call, StartTrigger, StopTrigger, ReadSamples, SetServerMode,
         EnableInstantReset, Now, Todo
<1>4. /\ calls' # <<>> /\ Now' = calls'[1].name /\ Arg' = calls'[1].arg
      /\ Todo' = calls'[1].rps /\ Rounds'
  <2> USE RoundIs, Queues
  <2>1. RPs \in (SUBSET RPs) \ {{}}
    BY Members
  <2>2. calls' # <<>> => Now' = calls'[1].name /\ Arg' = calls'[1].arg /\ Todo' = calls'[1].rps
    BY DEF Now, Arg, Todo
  <2>3. CASE StartTrigger
    BY <2>1, <2>2, <2>3 DEF StartTrigger, Call, Rounds
  <2>4. CASE StopTrigger
    BY <2>1, <2>2, <2>4 DEF StopTrigger, Call, Rounds, ClearRound, LastRound
  <2>5. CASE ReadSamples
    BY <2>1, <2>2, <2>5 DEF ReadSamples, Call, Rounds
  <2>6. ASSUME NEW m \in {"CONFIGURATION", "ACQUISITION"}, SetServerMode(m)
        PROVE  calls' # <<>> /\ Rounds'
    <3>1. calls' = <<Round("serverMode!", m, RPs)>>
      BY <2>6 DEF SetServerMode, Call
    <3> QED
      BY <2>1, <3>1 DEF Rounds
  <2>7. ASSUME NEW on \in {"ON", "OFF"}, EnableInstantReset(on)
        PROVE  calls' # <<>> /\ Rounds'
    <3>1. calls' = <<Round("enableInstantReset!", on, RPs)>>
      BY <2>7 DEF EnableInstantReset, Call
    <3> QED
      BY <2>1, <3>1 DEF Rounds
  <2> QED
    BY <2>2, <2>3, <2>4, <2>5, <2>6, <2>7 DEF Client
<1>5. /\ Now' \in {"masterTrigger!", "keepAliveReset!", "startPipelinedData", "serverMode!",
                   "enableInstantReset!"}
      /\ Now' = "masterTrigger!" => Arg' = "ON"
      /\ Now' = "keepAliveReset!" => Arg' = "ON" /\ Todo' = RPs
      /\ Now' = "serverMode!" => Todo' = RPs
  <2> USE RoundIs, Queues
  <2>1. CASE StartTrigger
    BY <1>4, <2>1 DEF StartTrigger, Call
  <2>2. CASE StopTrigger
    BY <1>4, <2>2 DEF StopTrigger, Call
  <2>3. CASE ReadSamples
    BY <1>4, <2>3 DEF ReadSamples, Call
  <2>4. CASE \E m \in {"CONFIGURATION", "ACQUISITION"} : SetServerMode(m)
    BY <1>4, <2>4 DEF SetServerMode, Call
  <2>5. CASE \E on \in {"ON", "OFF"} : EnableInstantReset(on)
    BY <1>4, <2>5 DEF EnableInstantReset, Call
  <2> QED
    BY <2>1, <2>2, <2>3, <2>4, <2>5 DEF Client
<1>6. Chain'
  BY <1>1, <1>3, <1>5 DEF Chain, Joined, IsExternal, SettingUp
<1>7. Alike'
  BY <1>1, <1>3, <1>5 DEF Alike, SettingUp, Quiet
<1>8. Handlers'
  BY <1>1, <1>3 DEF Handlers
<1>9. KeptAlive'
  BY <1>1, <1>3, <1>5 DEF KeptAlive, Halting
<1> QED
  BY <1>4, <1>6, <1>7, <1>8, <1>9 DEF Control

\* The other steps keep Control.
LEMMA OtherStep ==
    ASSUME Types, Control,
           \/ Tick
           \/ OutsideTrigger /\ calls = <<>>
           \/ \E r \in RPs : TransmissionEnds(r) \/ Writer(r) \/ InstantReset(r)
           \/ UNCHANGED vars
    PROVE  Control'
<1> USE DEF server, Unheard, writer, client
<1>1. Rounds /\ Chain /\ Alike /\ Handlers /\ KeptAlive
  BY DEF Control
<1>2. /\ mode \in [RPs -> Modes]
      /\ cfg \in [RPs -> [external : BOOLEAN, prop : BOOLEAN, trig : BOOLEAN,
                          alive : BOOLEAN, instant : BOOLEAN]]
      /\ pc \in [RPs -> {"idle", "clear", "release", "drain"}]
  BY DEF Types, CfgType
<1>3. UNCHANGED <<setup, calls, pc, cfg>>
  BY SettlesTo
     DEF Tick, OutsideTrigger, TransmissionEnds, Writer, BurstBegins, WriteWord,
                   InstantReset, vars
<1>4. UNCHANGED <<Now, Todo, Arg>> /\ Rounds'
  BY <1>1, <1>3 DEF Now, Todo, Arg, Rounds
<1>5. outside' = outside \/ Now = "none"
  BY SettlesTo
     DEF Tick, OutsideTrigger, TransmissionEnds, Writer, BurstBegins, WriteWord,
                   InstantReset, vars, Now
<1>6. \A s \in RPs : \/ mode'[s] = mode[s]
                     \/ mode[s] = "TRANSMISSION" /\ mode'[s] = "ACQUISITION"
  <2>1. CASE \E r \in RPs : TransmissionEnds(r)
    <3>1. PICK r \in RPs : mode[r] = "TRANSMISSION" /\ mode' = [mode EXCEPT ![r] = "ACQUISITION"]
      BY <2>1 DEF TransmissionEnds
    <3> QED
      BY <1>2, <3>1
  <2>2. CASE mode' = mode
    BY <2>2
  <2> QED
    BY <2>1, <2>2
       DEF Tick, OutsideTrigger, Writer, BurstBegins, WriteWord, InstantReset, vars
<1>7. Chain'
  BY <1>1, <1>3, <1>4, <1>5 DEF Chain, Joined, IsExternal, SettingUp
<1>8. Alike'
  BY <1>1, <1>4, <1>6 DEF Alike, SettingUp, Halting
<1>9. Handlers'
  BY <1>1, <1>3, <1>4, <1>6 DEF Handlers, Halting
<1>10. KeptAlive'
  BY <1>1, <1>3, <1>4, <1>6, Members DEF Alike, KeptAlive, Halting
<1> QED
  BY <1>4, <1>7, <1>8, <1>9, <1>10 DEF Control

\* Every step keeps Control.
LEMMA ControlStep ==
    ASSUME Types, Control, [CarefulNext]_vars
    PROVE  Control'
<1>1. \/ Client /\ Quiet
      \/ \E r \in RPs :
           \/ Refuse(r) \/ RP_SetServerMode(r) \/ Connect(r)
           \/ RP_DAC_SetTriggerPropagation(r) \/ RP_SetInstantResetMode(r)
           \/ RP_ADC_StartPipelinedData(r)
      \/ \E r \in RPs :
           \/ RP_SetKeepAliveReset(r) \/ RP_SetMasterTrigger(r)
           \/ ClearTrigger(r) \/ Release(r) \/ Poll(r)
      \/ Tick
      \/ OutsideTrigger /\ calls = <<>>
      \/ \E r \in RPs : TransmissionEnds(r) \/ Writer(r) \/ InstantReset(r)
      \/ UNCHANGED vars
  BY DEF CarefulNext, Server
<1> QED
  BY <1>1, ClientStep, CalledStep, HandlerStep, OtherStep

-----------------------------------------------------------------------------
(* Every step keeps the writers consistent, and the types.                 *)

\* A register write keeps the writers consistent if it stops none in a burst, and
\* starts none that was kept alive.
LEMMA Settling ==
    ASSUME Types, Writers, NEW c, NEW level, NEW pins, Settles(c, level, pins),
           setup' = setup,
           \A r \in RPs : TriggerState(c, level)[r] <=> LevelOf(c, level),
           \A r \in RPs : wvalid[r] => LevelOf(c, level) \/ c[r].alive,
           LevelOf(c, level) /\ ~Level => \A r \in RPs : ~cfg[r].alive
    PROVE  Writers'
<1> DEFINE on == LevelOf(c, level)
           runs(r) == on \/ c[r].alive
<1>1. /\ cfg' = c /\ (Level' <=> on)
      /\ \A r \in RPs : /\ fifo'[r] = IF runs(r) THEN fifo[r] ELSE 0
                        /\ addr'[r] = IF runs(r) THEN addr[r] ELSE 0
                        /\ wvalid'[r] <=> wvalid[r] /\ runs(r)
      /\ cut' = cut \cup {r \in RPs : wvalid[r] /\ ~runs(r)}
  <2>1. \A r \in RPs : (TriggerState(c, level)[r] \/ c[r].alive) <=> runs(r)
    OBVIOUS
  <2>2. cfg' = c /\ outside' = level
    BY DEF Settles
  <2>3. Level' <=> on
    BY <2>2 DEF Level, LevelOf
  <2> HIDE DEF runs, on
  <2> QED
    BY <2>1, <2>2, <2>3 DEF Settles
<1>2. \A r \in RPs : /\ fifo[r] \in Nat /\ addr[r] \in Nat /\ wvalid[r] \in BOOLEAN
                     /\ 0 % Burst = 0 /\ MaxWords \in Nat
  BY BurstCount, ClusterAssumption DEF Types
<1>3. \A r \in RPs : wvalid[r] => runs(r)
  OBVIOUS
<1>4. on => \A r, s \in RPs : addr[r] + fifo[r] = addr[s] + fifo[s]
  <2>1. CASE Level
    BY <2>1 DEF Writers
  <2>2. CASE ~Level
    BY <2>2, <1>2 DEF Writers
  <2> QED
    BY <2>1, <2>2
<1>5. \A r \in RPs : Level' \/ cfg'[r].alive \/ (fifo'[r] = 0 /\ addr'[r] = 0 /\ ~wvalid'[r])
  BY <1>1
<1>6. Level' => \A r, s \in RPs : addr'[r] + fifo'[r] = addr'[s] + fifo'[s]
  BY <1>1, <1>4
<1> HIDE DEF on, runs
<1>7. \A r \in RPs : IF wvalid'[r] THEN fifo'[r] + (addr'[r] % Burst) >= Burst
                                   ELSE addr'[r] % Burst = 0
  BY <1>1, <1>2, <1>3 DEF Writers
<1>8. \A r \in RPs : addr'[r] + fifo'[r] <= MaxWords
  BY <1>1, <1>2 DEF Writers
<1>9. cut' = {}
  BY <1>1, <1>3 DEF Writers
<1> QED
  BY <1>5, <1>6, <1>7, <1>8, <1>9 DEF Writers

\* The same, of the registers a step leaves.
LEMMA SettlingStep ==
    ASSUME Types, Types', Control', Writers, setup' = setup,
           NEW pins, Settles(cfg', outside', pins),
           \A r \in RPs : wvalid[r] => Level' \/ cfg'[r].alive,
           Level' /\ ~Level => \A r \in RPs : ~cfg[r].alive
    PROVE  Writers'
<1>1. Level' <=> LevelOf(cfg', outside')
  BY DEF Level, LevelOf
<1>2. \A r \in RPs : TriggerState(cfg', outside')[r] <=> LevelOf(cfg', outside')
  <2>1. /\ setup \in Setups /\ outside' \in BOOLEAN
        /\ \A r \in RPs : cfg'[r].external \in BOOLEAN /\ cfg'[r].prop \in BOOLEAN
                          /\ cfg'[r].trig \in BOOLEAN
    BY DEF Types, CfgType
  <2>2. CASE SettingUp'
    <3>1. ~outside' /\ \A r \in RPs : ~cfg'[r].trig
      BY <2>2 DEF Control, Chain
    <3>2. ~LevelOf(cfg', outside')
      BY <3>1, Members DEF LevelOf
    <3> QED
      BY <3>1, <3>2, AllOff
  <2>3. CASE ~SettingUp'
    <3>1. \A r \in RPs : /\ r # 1 => ~cfg'[r].trig
                         /\ IsExternal(cfg', r) /\ (cfg'[r].prop <=> r < N)
      BY <2>3 DEF Control, Chain, Joined, SettingUp, IsExternal
    <3> QED
      BY <2>1, <3>1, AllFollow
  <2> QED
    BY <2>2, <2>3
<1> QED
  BY <1>1, <1>2, Settling

\* A register write keeps the types.
LEMMA SettledTypes ==
    ASSUME Types, NEW c \in [RPs -> CfgType], NEW level \in BOOLEAN, NEW pins,
           Settles(c, level, pins), setup' = setup,
           mode' \in [RPs -> Modes],
           pc' \in [RPs -> {"idle", "clear", "release", "drain"}],
           wp_old' \in [RPs -> 0..MaxWords]
    PROVE  Types'
<1> DEFINE runs(r) == TriggerState(c, level)[r] \/ c[r].alive
<1>1. 0 \in 0..(Burst + 1) /\ 0 \in 0..MaxWords
  BY BurstCount, ClusterAssumption
<1>2. /\ fifo' = [r \in RPs |-> IF runs(r) THEN fifo[r] ELSE 0]
      /\ addr' = [r \in RPs |-> IF runs(r) THEN addr[r] ELSE 0]
      /\ wvalid' = [r \in RPs |-> wvalid[r] /\ runs(r)]
      /\ cut' = cut \cup {r \in RPs : wvalid[r] /\ ~runs(r)}
      /\ cfg' = c /\ outside' = level /\ output' = OutputOn(c, level, pins)
  BY DEF Settles
<1>3. output' \in [RPs -> BOOLEAN]
  BY <1>2 DEF OutputOn
<1>4. wvalid' \in [RPs -> BOOLEAN]
  BY <1>2
<1>5. fifo' \in [RPs -> 0..(Burst + 1)] /\ addr' \in [RPs -> 0..MaxWords] /\ cut' \subseteq RPs
  BY <1>1, <1>2 DEF Types
<1> QED
  BY <1>2, <1>3, <1>4, <1>5 DEF Types

\* Every step keeps the types.
LEMMA TypesStep ==
    ASSUME Types, Control, Writers, [CarefulNext]_vars
    PROVE  Types'
<1> USE DEF client, server, writer, Unheard
<1>1. /\ mode \in [RPs -> Modes] /\ cfg \in [RPs -> CfgType] /\ outside \in BOOLEAN
      /\ pc \in [RPs -> {"idle", "clear", "release", "drain"}]
      /\ wp_old \in [RPs -> 0..MaxWords] /\ addr \in [RPs -> 0..MaxWords]
      /\ fifo \in [RPs -> 0..(Burst + 1)] /\ wvalid \in [RPs -> BOOLEAN]
      /\ Burst \in Nat \ {0} /\ MaxWords \in Nat
  BY BurstCount, ClusterAssumption DEF Types
<1>2. \A r \in RPs : \A x \in BOOLEAN :
        /\ [cfg EXCEPT ![r].alive = x] \in [RPs -> CfgType]
        /\ [cfg EXCEPT ![r].trig = x] \in [RPs -> CfgType]
        /\ [cfg EXCEPT ![r].prop = x] \in [RPs -> CfgType]
        /\ [cfg EXCEPT ![r].instant = x] \in [RPs -> CfgType]
        /\ [cfg EXCEPT ![r].external = x, ![r].prop = TRUE] \in [RPs -> CfgType]
  <2> SUFFICES ASSUME NEW r \in RPs, NEW x \in BOOLEAN
               PROVE  /\ [cfg EXCEPT ![r].alive = x] \in [RPs -> CfgType]
                      /\ [cfg EXCEPT ![r].trig = x] \in [RPs -> CfgType]
                      /\ [cfg EXCEPT ![r].prop = x] \in [RPs -> CfgType]
                      /\ [cfg EXCEPT ![r].instant = x] \in [RPs -> CfgType]
                      /\ [cfg EXCEPT ![r].external = x, ![r].prop = TRUE] \in [RPs -> CfgType]
    OBVIOUS
  <2>1. /\ [cfg[r] EXCEPT !.alive = x] \in CfgType /\ [cfg[r] EXCEPT !.trig = x] \in CfgType
        /\ [cfg[r] EXCEPT !.prop = x] \in CfgType /\ [cfg[r] EXCEPT !.instant = x] \in CfgType
        /\ [cfg[r] EXCEPT !.external = x, !.prop = TRUE] \in CfgType
    BY <1>1 DEF CfgType
  <2>2. \A y \in CfgType : [cfg EXCEPT ![r] = y] \in [RPs -> CfgType]
    BY <1>1
  <2>3. [cfg EXCEPT ![r].external = x, ![r].prop = TRUE]
          = [cfg EXCEPT ![r] = [cfg[r] EXCEPT !.external = x, !.prop = TRUE]]
    BY <1>1
  <2> QED
    BY <2>1, <2>2, <2>3
<1>3. CASE UNCHANGED <<setup, mode, cfg, pc, wp_old, outside, output, fifo, addr, wvalid, cut>>
  BY <1>3 DEF Types
<1>4. CASE Client
  BY <1>3, <1>4 DEF Client, Call, StartTrigger, StopTrigger, ReadSamples, SetServerMode,
                    EnableInstantReset
<1>5. CASE Tick
  <2>1. /\ \A r \in RPs : Triggered[r] => fifo[r] <= Burst
        /\ fifo' = [r \in RPs |-> IF Triggered[r] THEN fifo[r] + 1 ELSE fifo[r]]
        /\ UNCHANGED <<setup, mode, cfg, pc, wp_old, outside, output, addr, wvalid, cut>>
    BY <1>5 DEF Tick
  <2>2. fifo' \in [RPs -> 0..(Burst + 1)]
    BY <1>1, <2>1
  <2> QED
    BY <2>1, <2>2 DEF Types
<1>6. CASE OutsideTrigger \/ \E r \in RPs : InstantReset(r)
  <2>1. UNCHANGED <<setup, mode, pc, wp_old>>
        /\ \E pins : Settles(cfg, outside, pins) \/ Settles(cfg, ~outside, pins)
    BY <1>6 DEF OutsideTrigger, InstantReset
  <2>2. (~outside) \in BOOLEAN
    OBVIOUS
  <2> QED
    BY <1>1, <2>1, <2>2, SettledTypes
<1>7. ASSUME NEW r \in RPs, TransmissionEnds(r)
      PROVE  Types'
  <2>1. mode' \in [RPs -> Modes]
    BY <1>1, <1>7 DEF TransmissionEnds, Modes
  <2> QED
    BY <1>7, <2>1 DEF TransmissionEnds, Types
<1>8. ASSUME NEW r \in RPs, BurstBegins(r)
      PROVE  Types'
  <2>1. wvalid' \in [RPs -> BOOLEAN]
    BY <1>1, <1>8 DEF BurstBegins
  <2> QED
    BY <1>8, <2>1 DEF BurstBegins, Types
<1>9. ASSUME NEW r \in RPs, WriteWord(r)
      PROVE  Types'
  <2>1. fifo[r] + (addr[r] % Burst) >= Burst /\ addr[r] + fifo[r] <= MaxWords
    BY <1>9 DEF WriteWord, Writers
  <2>2. addr[r] \in Nat /\ fifo[r] \in Nat
    BY <1>1
  <2>3. addr[r] % Burst \in Nat /\ addr[r] % Burst < Burst
    BY <2>2, BurstCount
  <2>4. fifo[r] - 1 \in 0..(Burst + 1) /\ addr[r] + 1 \in 0..MaxWords
    BY <1>1, <2>1, <2>2, <2>3
  <2>5. fifo' \in [RPs -> 0..(Burst + 1)] /\ addr' \in [RPs -> 0..MaxWords]
    BY <1>1, <1>9, <2>4 DEF WriteWord
  <2>6. (addr'[r] % Burst = 0 => fifo'[r] >= Burst) \in BOOLEAN
    OBVIOUS
  <2>7. wvalid' \in [RPs -> BOOLEAN]
    BY <1>1, <1>9, <2>6 DEF WriteWord
  <2> QED
    BY <1>9, <2>5, <2>7 DEF WriteWord, Types
<1>10. ASSUME NEW r \in RPs, Refuse(r)
      PROVE  Types'
  BY <1>3, <1>10 DEF Refuse, Answers
<1>11. ASSUME NEW r \in RPs, RP_SetServerMode(r) \/ RP_ADC_StartPipelinedData(r)
       PROVE  Types'
  <2>1. /\ mode' = [mode EXCEPT ![r] = Arg] \/ mode' = [mode EXCEPT ![r] = "TRANSMISSION"]
        /\ UNCHANGED <<setup, cfg, pc, wp_old, outside, output, fifo, addr, wvalid, cut>>
        /\ RP_SetServerMode(r) \/ mode' = [mode EXCEPT ![r] = "TRANSMISSION"]
    BY <1>11 DEF RP_SetServerMode, RP_ADC_StartPipelinedData, Answers
  <2>2. RP_SetServerMode(r) => Arg \in Modes
    <3>1. RP_SetServerMode(r) => calls # <<>> /\ Now = "serverMode!"
      BY CalledIs DEF RP_SetServerMode, Accepted, Control
    <3> QED
      BY <3>1, Asked DEF Control, Modes
  <2>3. mode' \in [RPs -> Modes]
    BY <1>1, <2>1, <2>2 DEF Modes
  <2> QED
    BY <2>1, <2>3 DEF Types
<1>12. ASSUME NEW r \in RPs, Connect(r)
       PROVE  Types'
  <2> DEFINE x == setup = "ALL_EXTERNAL" \/ (setup = "MASTER_EXTERNAL" /\ r = 1)
  <2>1. /\ mode' = [mode EXCEPT ![r] = "CONFIGURATION"] /\ UNCHANGED <<setup, pc, wp_old>>
        /\ Settles([cfg EXCEPT ![r].external = x, ![r].prop = TRUE], outside, {})
    BY <1>12 DEF Connect, Answers
  <2>2. x \in BOOLEAN
    OBVIOUS
  <2> HIDE DEF x
  <2>3. [cfg EXCEPT ![r].external = x, ![r].prop = TRUE] \in [RPs -> CfgType]
    BY <1>2, <2>2
  <2>4. mode' \in [RPs -> Modes]
    BY <1>1, <2>1 DEF Modes
  <2> QED
    BY <1>1, <2>1, <2>3, <2>4, SettledTypes
<1>13. ASSUME NEW r \in RPs,
              RP_DAC_SetTriggerPropagation(r) \/ RP_SetInstantResetMode(r)
       PROVE  Types'
  <2>1. /\ UNCHANGED <<setup, mode, pc, wp_old>>
        /\ \/ Settles([cfg EXCEPT ![r].prop = (Arg = "ON")], outside, {})
           \/ Settles([cfg EXCEPT ![r].instant = (Arg = "ON")], outside, {})
    BY <1>13 DEF RP_DAC_SetTriggerPropagation, RP_SetInstantResetMode, Answers
  <2>2. (Arg = "ON") \in BOOLEAN
    OBVIOUS
  <2>3. /\ [cfg EXCEPT ![r].prop = (Arg = "ON")] \in [RPs -> CfgType]
        /\ [cfg EXCEPT ![r].instant = (Arg = "ON")] \in [RPs -> CfgType]
    BY <1>2, <2>2
  <2> QED
    BY <1>1, <2>1, <2>3, SettledTypes
<1>14. ASSUME NEW r \in RPs, RP_SetKeepAliveReset(r) \/ RP_SetMasterTrigger(r) \/ ClearTrigger(r)
       PROVE  Types'
  <2>1. /\ UNCHANGED <<setup, mode, wp_old>>
        /\ \/ pc' = pc \/ pc' = [pc EXCEPT ![r] = "release"]
           \/ pc' = [pc EXCEPT ![r] = "clear"]
        /\ \/ Settles([cfg EXCEPT ![r].alive = TRUE], outside, {})
           \/ Settles([cfg EXCEPT ![r].trig = TRUE], outside, {})
           \/ Settles([cfg EXCEPT ![r].trig = FALSE], outside, {})
           \/ UNCHANGED <<cfg, outside, output, fifo, addr, wvalid, cut>>
    BY <1>14 DEF RP_SetKeepAliveReset, RP_SetMasterTrigger, ClearTrigger, Answers, At
  <2>2. pc' \in [RPs -> {"idle", "clear", "release", "drain"}]
    BY <1>1, <2>1
  <2>3. CASE UNCHANGED <<cfg, outside, output, fifo, addr, wvalid, cut>>
    BY <2>1, <2>2, <2>3 DEF Types
  <2>4. /\ [cfg EXCEPT ![r].alive = TRUE] \in [RPs -> CfgType]
        /\ [cfg EXCEPT ![r].trig = TRUE] \in [RPs -> CfgType]
        /\ [cfg EXCEPT ![r].trig = FALSE] \in [RPs -> CfgType]
    BY <1>2
  <2> QED
    BY <1>1, <2>1, <2>2, <2>3, <2>4, SettledTypes
<1>15. ASSUME NEW r \in RPs, Release(r) \/ Poll(r)
       PROVE  Types'
  <2>1. /\ UNCHANGED <<setup, mode>>
        /\ pc' = pc \/ pc' = [pc EXCEPT ![r] = "idle"] \/ pc' = [pc EXCEPT ![r] = "drain"]
        /\ wp_old' = wp_old \/ wp_old' = [wp_old EXCEPT ![r] = addr[r]]
        /\ \/ Settles([cfg EXCEPT ![r].alive = FALSE], outside, {})
           \/ UNCHANGED <<cfg, outside, output, fifo, addr, wvalid, cut>>
    BY <1>15 DEF Release, Poll, Answers, At
  <2>2. /\ pc' \in [RPs -> {"idle", "clear", "release", "drain"}]
        /\ wp_old' \in [RPs -> 0..MaxWords]
    BY <1>1, <2>1
  <2>3. CASE UNCHANGED <<cfg, outside, output, fifo, addr, wvalid, cut>>
    BY <2>1, <2>2, <2>3 DEF Types
  <2>4. [cfg EXCEPT ![r].alive = FALSE] \in [RPs -> CfgType]
    BY <1>2
  <2> QED
    BY <1>1, <2>1, <2>2, <2>3, <2>4, SettledTypes
<1>16. CASE UNCHANGED vars
  BY <1>3, <1>16 DEF vars
<1> QED
  BY <1>4, <1>5, <1>6, <1>7, <1>8, <1>9, <1>10, <1>11, <1>12, <1>13, <1>14, <1>15, <1>16
     DEF CarefulNext, Server, Writer

\* When the handler has still to clear the master's trigger every writer is kept
\* alive.
LEMMA ClearsAlive ==
    ASSUME Types, Control, NEW r \in RPs, pc[r] = "clear"
    PROVE  \A s \in RPs : cfg[s].alive
<1>1. /\ r \in Todo /\ mode[r] = "ACQUISITION" /\ Arg = "OFF" /\ Halting
      /\ Now = "masterTrigger!"
  BY DEF Control, Handlers
<1>2. r = 1
  <2>1. calls # <<>>
    BY <1>1 DEF Now
  <2> QED
    BY <1>1, <2>1, Asked DEF Control
<1>3. \A s \in RPs : mode[s] = "ACQUISITION"
  <2>1. \A s \in RPs : mode[s] # "CONFIGURATION" /\ mode[s] # "TRANSMISSION"
    BY <1>1 DEF Control, Alike
  <2> QED
    BY <2>1 DEF Types, Modes
<1> QED
  BY <1>1, <1>2, <1>3 DEF Control, KeptAlive

\* The trigger at the head of the chain changes with the outside trigger, in
\* ClearTrigger, and when the client starts it.
LEMMA LevelMoves ==
    ASSUME Types, Control, [CarefulNext]_vars
    PROVE  /\ setup' = setup
           /\ \/ outside' = outside
              \/ outside' = ~outside /\ \A r \in RPs : cfg[r].alive = outside
           /\ cfg[1].trig /\ ~cfg'[1].trig => \E r \in RPs : pc[r] = "clear"
           /\ ~cfg[1].trig /\ cfg'[1].trig => Now = "masterTrigger!" /\ Arg = "ON"
<1> USE DEF client, server, writer, Unheard
<1>1. cfg \in [RPs -> CfgType] /\ 1 \in RPs
  BY Members DEF Types
<1>2. CASE UNCHANGED <<setup, outside, cfg>>
  BY <1>2
<1>3. CASE Client \/ Tick \/ UNCHANGED vars
  BY <1>2, <1>3 DEF Client, Call, StartTrigger, StopTrigger, ReadSamples, SetServerMode,
                    EnableInstantReset, Tick, vars
<1>4. CASE OutsideTrigger /\ calls = <<>> /\ \A r \in RPs : cfg[r].alive = outside
  BY <1>4, SettlesTo DEF OutsideTrigger
<1>5. ASSUME NEW r \in RPs, \/ Refuse(r) \/ RP_SetServerMode(r) \/ RP_ADC_StartPipelinedData(r)
                            \/ TransmissionEnds(r) \/ Release(r) \/ Writer(r)
      PROVE  UNCHANGED <<setup, outside, cfg>>
  BY <1>5 DEF Refuse, RP_SetServerMode, RP_ADC_StartPipelinedData, TransmissionEnds,
              Release, Answers, Writer, BurstBegins, WriteWord
<1>6. ASSUME NEW r \in RPs, InstantReset(r)
      PROVE  UNCHANGED <<setup, outside, cfg>>
  BY <1>6, SettlesTo DEF InstantReset
<1>7. ASSUME NEW r \in RPs,
             \/ Connect(r) \/ RP_DAC_SetTriggerPropagation(r) \/ RP_SetInstantResetMode(r)
             \/ RP_SetKeepAliveReset(r) \/ Poll(r)
             \/ RP_SetMasterTrigger(r) /\ Arg # "ON"
      PROVE  setup' = setup /\ outside' = outside /\ cfg'[1].trig = cfg[1].trig
  <2>1. \/ cfg' = [cfg EXCEPT ![r].external = \/ setup = "ALL_EXTERNAL"
                                              \/ setup = "MASTER_EXTERNAL" /\ r = 1,
                              ![r].prop = TRUE]
        \/ cfg' = [cfg EXCEPT ![r].prop = (Arg = "ON")]
        \/ cfg' = [cfg EXCEPT ![r].instant = (Arg = "ON")]
        \/ cfg' = [cfg EXCEPT ![r].alive = TRUE]
        \/ cfg' = [cfg EXCEPT ![r].alive = FALSE]
        \/ cfg' = cfg
    BY <1>7, SettlesTo
       DEF Connect, RP_DAC_SetTriggerPropagation, RP_SetInstantResetMode,
                           RP_SetKeepAliveReset, Poll, RP_SetMasterTrigger
  <2>2. UNCHANGED <<setup, outside>>
    BY <1>7, SettlesTo
       DEF Connect, RP_DAC_SetTriggerPropagation, RP_SetInstantResetMode,
                           RP_SetKeepAliveReset, Poll, RP_SetMasterTrigger, Answers
  <2> QED
    BY <1>1, <2>1, <2>2 DEF CfgType
<1>8. ASSUME NEW r \in RPs, RP_SetMasterTrigger(r), Arg = "ON"
      PROVE  /\ UNCHANGED <<setup, outside>> /\ Now = "masterTrigger!"
             /\ cfg[1].trig => cfg'[1].trig
  <2>1. Now = "masterTrigger!"
    BY <1>8, CalledIs DEF RP_SetMasterTrigger, Accepted, Control
  <2>2. UNCHANGED <<setup, outside>> /\ cfg' = [cfg EXCEPT ![r].trig = TRUE]
    BY <1>8, SettlesTo DEF RP_SetMasterTrigger, Answers
  <2> QED
    BY <1>1, <2>1, <2>2 DEF CfgType
<1>9. ASSUME NEW r \in RPs, ClearTrigger(r)
      PROVE  /\ UNCHANGED <<setup, outside>> /\ pc[r] = "clear"
             /\ cfg'[1].trig => cfg[1].trig
  <2>1. UNCHANGED <<setup, outside>> /\ pc[r] = "clear" /\ cfg' = [cfg EXCEPT ![r].trig = FALSE]
    BY <1>9, SettlesTo DEF ClearTrigger, At
  <2> QED
    BY <1>1, <2>1 DEF CfgType
<1>10. CASE \E r \in RPs : Server(r) \/ RP_ADC_StartPipelinedData(r)
                          \/ TransmissionEnds(r) \/ Writer(r) \/ InstantReset(r)
  <2>1. PICK r \in RPs : Server(r) \/ RP_ADC_StartPipelinedData(r)
                         \/ TransmissionEnds(r) \/ Writer(r) \/ InstantReset(r)
    BY <1>10
  <2> HIDE DEF client, server, writer, Unheard
  <2>2. CASE UNCHANGED <<setup, outside, cfg>>
    BY <1>2, <2>2
  <2>3. CASE RP_SetMasterTrigger(r)
    BY <1>7, <1>8, <2>3
  <2>4. CASE ClearTrigger(r)
    BY <1>9, <2>4
  <2>5. CASE \/ Connect(r) \/ RP_DAC_SetTriggerPropagation(r) \/ RP_SetInstantResetMode(r)
             \/ RP_SetKeepAliveReset(r) \/ Poll(r)
    BY <1>7, <2>5
  <2> QED
    BY <1>5, <1>6, <2>1, <2>2, <2>3, <2>4, <2>5 DEF Server
<1> QED
  BY <1>3, <1>4, <1>10 DEF CarefulNext

\* A trigger begins with no writer kept alive.
LEMMA LevelRises ==
    ASSUME Types, Control, [CarefulNext]_vars, ~Level, Level'
    PROVE  \A r \in RPs : ~cfg[r].alive
<1>1. CASE setup = "MASTER_EXTERNAL"
  BY <1>1, LevelMoves DEF Level, LevelOf, Types
<1>2. CASE setup # "MASTER_EXTERNAL"
  <2>1. ~cfg[1].trig /\ cfg'[1].trig
    BY <1>2, LevelMoves DEF Level, LevelOf
  <2>2. Now = "masterTrigger!" /\ Arg = "ON"
    BY <2>1, LevelMoves
  <2> QED
    BY <1>2, <2>2 DEF Control, KeptAlive, Halting
<1> QED
  BY <1>1, <1>2

\* A trigger is cleared with every writer kept alive.
LEMMA TrigFalls ==
    ASSUME Types, Control, [CarefulNext]_vars
    PROVE  [cfg[1].trig /\ ~cfg'[1].trig => \A r \in RPs : cfg[r].alive]_vars
<1> SUFFICES ASSUME cfg[1].trig, ~cfg'[1].trig
             PROVE  \A r \in RPs : cfg[r].alive
  OBVIOUS
<1>1. PICK r \in RPs : pc[r] = "clear"
  BY LevelMoves
<1> QED
  BY <1>1, ClearsAlive

\* Every step keeps the writers consistent.
LEMMA WritersStep ==
    ASSUME Types, Types', Control, Control', Writers, [CarefulNext]_vars
    PROVE  Writers'
<1> USE DEF client, server, writer, Unheard
<1>1. /\ cfg \in [RPs -> CfgType] /\ outside \in BOOLEAN
      /\ \A r \in RPs : /\ mode[r] \in Modes /\ addr[r] \in Nat /\ fifo[r] \in Nat
                        /\ wvalid[r] \in BOOLEAN
      /\ fifo \in [RPs -> 0..(Burst + 1)] /\ addr \in [RPs -> 0..MaxWords]
      /\ wvalid \in [RPs -> BOOLEAN]
      /\ Burst \in Nat \ {0} /\ MaxWords \in Nat /\ 1 \in RPs
  <2>1. Burst \in Nat \ {0} /\ MaxWords \in Nat
    BY ClusterAssumption
  <2>2. /\ fifo \in [RPs -> 0..(Burst + 1)] /\ addr \in [RPs -> 0..MaxWords]
        /\ wvalid \in [RPs -> BOOLEAN] /\ mode \in [RPs -> Modes]
    BY DEF Types
  <2>3. \A r \in RPs : mode[r] \in Modes /\ addr[r] \in Nat /\ fifo[r] \in Nat
                       /\ wvalid[r] \in BOOLEAN
    BY <2>1, <2>2
  <2> QED
    BY <2>1, <2>2, <2>3, Members DEF Types
<1>2. \A r \in RPs : wvalid[r] => Level \/ cfg[r].alive
  BY DEF Writers
<1>3. CASE UNCHANGED <<setup, cfg, outside, fifo, addr, wvalid, cut>>
  BY <1>3 DEF Writers, Level, LevelOf
<1>4. CASE Client
  BY <1>3, <1>4 DEF Client, Call, StartTrigger, StopTrigger, ReadSamples, SetServerMode,
                    EnableInstantReset
<1>5. CASE Tick
  <2>1. Level /\ \A r \in RPs : Triggered[r]
    BY <1>5, Followed DEF Tick
  <2>2. /\ \A r \in RPs : /\ addr[r] + fifo[r] < MaxWords
                          /\ fifo'[r] = fifo[r] + 1
        /\ UNCHANGED <<setup, cfg, outside, addr, wvalid, cut>>
    BY <1>5, <2>1 DEF Tick
  <2>3. Level'
    BY <2>1, <2>2 DEF Level, LevelOf
  <2>4. \A r \in RPs : addr[r] % Burst \in Nat
    BY <1>1, BurstCount
  <2>5. \A r \in RPs : IF wvalid'[r] THEN fifo'[r] + (addr'[r] % Burst) >= Burst
                                     ELSE addr'[r] % Burst = 0
    BY <1>1, <2>2, <2>4 DEF Writers
  <2>6. \A r, s \in RPs : addr'[r] + fifo'[r] = addr'[s] + fifo'[s]
    BY <1>1, <2>1, <2>2 DEF Writers
  <2>7. \A r \in RPs : addr'[r] + fifo'[r] <= MaxWords
    BY <1>1, <2>2
  <2> QED
    BY <2>2, <2>3, <2>5, <2>6, <2>7 DEF Writers
<1>6. ASSUME NEW r \in RPs, BurstBegins(r)
      PROVE  Writers'
  <2>1. /\ ~wvalid[r] /\ fifo[r] >= Burst
        /\ \A s \in RPs : wvalid'[s] <=> (s = r \/ wvalid[s])
        /\ UNCHANGED <<setup, cfg, outside, fifo, addr, cut>>
    BY <1>1, <1>6 DEF BurstBegins, BurstIsThere
  <2>2. Level \/ cfg[r].alive
    BY <1>1, <2>1 DEF Writers
  <2>3. Level' <=> Level
    BY <2>1 DEF Level, LevelOf
  <2>4. addr[r] % Burst = 0
    BY <2>1 DEF Writers
  <2>5. \A s \in RPs : IF wvalid'[s] THEN fifo'[s] + (addr'[s] % Burst) >= Burst
                                     ELSE addr'[s] % Burst = 0
    BY <1>1, <2>1, <2>4 DEF Writers
  <2> QED
    BY <2>1, <2>2, <2>3, <2>5 DEF Writers
<1>7. ASSUME NEW r \in RPs, WriteWord(r)
      PROVE  Writers'
  <2>1. /\ wvalid[r] /\ UNCHANGED <<setup, cfg, outside, cut>>
        /\ \A s \in RPs : /\ fifo'[s] = IF s = r THEN fifo[s] - 1 ELSE fifo[s]
                          /\ addr'[s] = IF s = r THEN addr[s] + 1 ELSE addr[s]
                          /\ s # r => wvalid'[s] = wvalid[s]
        /\ wvalid'[r] <=> (addr'[r] % Burst = 0 => fifo'[r] >= Burst)
    BY <1>1, <1>7 DEF WriteWord
  <2>2. Level' <=> Level
    BY <2>1 DEF Level, LevelOf
  <2>3. Level \/ cfg[r].alive
    BY <1>2, <2>1
  <2>4. \A s \in RPs : addr'[s] + fifo'[s] = addr[s] + fifo[s]
    BY <1>1, <2>1
  <2>5. /\ fifo[r] + (addr[r] % Burst) >= Burst
        /\ (addr[r] + 1) % Burst = IF addr[r] % Burst = Burst - 1 THEN 0
                                   ELSE (addr[r] % Burst) + 1
        /\ addr[r] % Burst \in Nat
    BY <1>1, <2>1, BurstCount DEF Writers
  <2>6. IF wvalid'[r] THEN fifo'[r] + (addr'[r] % Burst) >= Burst ELSE addr'[r] % Burst = 0
    <3>1. addr'[r] % Burst = (addr[r] + 1) % Burst /\ fifo'[r] = fifo[r] - 1
      BY <2>1
    <3>2. CASE addr[r] % Burst = Burst - 1
      BY <1>1, <2>1, <2>5, <3>1, <3>2
    <3>3. CASE addr[r] % Burst # Burst - 1
      BY <1>1, <2>1, <2>5, <3>1, <3>3
    <3> QED
      BY <3>2, <3>3
  <2>7. \A s \in RPs : s # r => IF wvalid'[s] THEN fifo'[s] + (addr'[s] % Burst) >= Burst
                                              ELSE addr'[s] % Burst = 0
    BY <2>1 DEF Writers
  <2>8. \A s \in RPs : Level' \/ cfg'[s].alive \/ (fifo'[s] = 0 /\ addr'[s] = 0 /\ ~wvalid'[s])
    BY <2>1, <2>2, <2>3 DEF Writers
  <2>9. Level' => \A s, t \in RPs : addr'[s] + fifo'[s] = addr'[t] + fifo'[t]
    BY <2>2, <2>4 DEF Writers
  <2>10. \A s \in RPs : addr'[s] + fifo'[s] <= MaxWords
    BY <2>4 DEF Writers
  <2>11. cut' = {}
    BY <2>1 DEF Writers
  <2> QED
    BY <2>6, <2>7, <2>8, <2>9, <2>10, <2>11 DEF Writers
<1>8. ASSUME NEW pins, Settles(cfg', outside', pins), setup' = setup, Level' <=> Level,
             \A r \in RPs : \/ cfg'[r].alive <=> cfg[r].alive
                            \/ cfg'[r].alive
                            \/ ~wvalid[r]
      PROVE  Writers'
  BY <1>2, <1>8, SettlingStep
<1>9. CASE OutsideTrigger /\ calls = <<>> /\ \A r \in RPs : cfg[r].alive = outside
  <2>1. /\ setup = "MASTER_EXTERNAL" /\ setup' = setup /\ cfg' = cfg /\ outside' = ~outside
        /\ Settles(cfg', outside', {})
    BY <1>9, SettlesTo DEF OutsideTrigger
  <2>2. (Level <=> outside) /\ (Level' <=> ~outside)
    BY <2>1 DEF Level, LevelOf
  <2>3. \A r \in RPs : cfg[r].alive <=> outside
    BY <1>9
  <2> QED
    BY <1>2, <2>1, <2>2, <2>3, SettlingStep
<1>10. ASSUME NEW r \in RPs, InstantReset(r)
      PROVE  Writers'
  <2>1. setup' = setup /\ cfg' = cfg /\ outside' = outside /\ Settles(cfg', outside', {r})
    BY <1>10, SettlesTo DEF InstantReset
  <2>2. Level' <=> Level
    BY <2>1 DEF Level, LevelOf
  <2> QED
    BY <1>8, <2>1, <2>2
<1>11. ASSUME NEW r \in RPs, \/ Refuse(r) \/ RP_SetServerMode(r) \/ RP_ADC_StartPipelinedData(r)
                             \/ TransmissionEnds(r) \/ Release(r)
       PROVE  Writers'
  BY <1>3, <1>11
     DEF Refuse, RP_SetServerMode, RP_ADC_StartPipelinedData, TransmissionEnds,
                     Release, Answers
<1>12. ASSUME NEW r \in RPs,
              Connect(r) \/ RP_DAC_SetTriggerPropagation(r) \/ RP_SetInstantResetMode(r)
       PROVE  Writers'
  <2>1. setup' = setup /\ outside' = outside /\ Settles(cfg', outside', {})
    BY <1>12, SettlesTo
       DEF Connect, RP_DAC_SetTriggerPropagation, RP_SetInstantResetMode, Answers
  <2>2. \/ cfg' = [cfg EXCEPT ![r].external = \/ setup = "ALL_EXTERNAL"
                                              \/ setup = "MASTER_EXTERNAL" /\ r = 1,
                              ![r].prop = TRUE]
        \/ cfg' = [cfg EXCEPT ![r].prop = (Arg = "ON")]
        \/ cfg' = [cfg EXCEPT ![r].instant = (Arg = "ON")]
    BY <1>12, SettlesTo
       DEF Connect, RP_DAC_SetTriggerPropagation, RP_SetInstantResetMode
  <2>3. \A s \in RPs : cfg'[s].trig = cfg[s].trig /\ cfg'[s].alive = cfg[s].alive
    BY <1>1, <2>2 DEF CfgType
  <2>4. Level' <=> Level
    BY <1>1, <2>1, <2>3 DEF Level, LevelOf
  <2> QED
    BY <1>8, <2>1, <2>3, <2>4
<1>13. ASSUME NEW r \in RPs, RP_SetKeepAliveReset(r)
       PROVE  Writers'
  <2>1. CASE Arg = "ON"
    <3>1. setup' = setup /\ outside' = outside /\ Settles(cfg', outside', {})
          /\ cfg' = [cfg EXCEPT ![r].alive = TRUE]
      BY <1>13, <2>1, SettlesTo DEF RP_SetKeepAliveReset, Answers
    <3>2. \A s \in RPs : /\ cfg'[s].trig = cfg[s].trig
                         /\ cfg'[s].alive = IF s = r THEN TRUE ELSE cfg[s].alive
      BY <1>1, <3>1 DEF CfgType
    <3>3. Level' <=> Level
      BY <1>1, <3>1, <3>2 DEF Level, LevelOf
    <3> QED
      BY <1>8, <3>1, <3>2, <3>3
  <2>2. CASE Arg # "ON"
    BY <1>3, <1>13, <2>2 DEF RP_SetKeepAliveReset
  <2> QED
    BY <2>1, <2>2
<1>14. ASSUME NEW r \in RPs, RP_SetMasterTrigger(r)
       PROVE  Writers'
  <2>1. calls # <<>> /\ Now = "masterTrigger!"
    BY <1>14, CalledIs DEF RP_SetMasterTrigger, Accepted, Control
  <2>2. Arg \in {"ON", "OFF"} /\ Todo = {1}
    BY <2>1, Asked DEF Control
  <2>3. CASE Arg = "ON"
    <3>1. setup' = setup /\ outside' = outside /\ Settles(cfg', outside', {})
          /\ cfg' = [cfg EXCEPT ![r].trig = TRUE]
      BY <1>14, <2>3, SettlesTo DEF RP_SetMasterTrigger, Answers
    <3>2. r = 1
      BY <1>14, <2>2, CalledIs DEF RP_SetMasterTrigger, Accepted, Control
    <3>3. \A s \in RPs : cfg'[s].alive = cfg[s].alive
      BY <1>1, <3>1 DEF CfgType
    <3>4. Level => Level'
      BY <1>1, <3>1, <3>2 DEF Level, LevelOf, CfgType
    <3>5. Level' /\ ~Level => setup # "MASTER_EXTERNAL"
      BY <3>1 DEF Level, LevelOf
    <3>6. Level' /\ ~Level => \A s \in RPs : ~cfg[s].alive
      BY <2>1, <2>3, <3>5 DEF Control, KeptAlive, Halting
    <3> QED
      BY <1>2, <3>1, <3>3, <3>4, <3>6, SettlingStep
  <2>4. CASE Arg = "OFF"
    <3>1. setup' = setup /\ outside' = outside /\ Settles(cfg', outside', {})
          /\ cfg' = [cfg EXCEPT ![r].alive = TRUE]
      BY <1>14, <2>4, SettlesTo DEF RP_SetMasterTrigger
    <3>2. \A s \in RPs : /\ cfg'[s].trig = cfg[s].trig
                         /\ cfg'[s].alive = IF s = r THEN TRUE ELSE cfg[s].alive
      BY <1>1, <3>1 DEF CfgType
    <3>3. Level' <=> Level
      BY <1>1, <3>1, <3>2 DEF Level, LevelOf
    <3> QED
      BY <1>8, <3>1, <3>2, <3>3
  <2> QED
    BY <2>2, <2>3, <2>4
<1>15. ASSUME NEW r \in RPs, ClearTrigger(r)
       PROVE  Writers'
  <2>1. /\ pc[r] = "clear" /\ setup' = setup /\ outside' = outside
        /\ Settles(cfg', outside', {}) /\ cfg' = [cfg EXCEPT ![r].trig = FALSE]
    BY <1>15, SettlesTo DEF ClearTrigger, At
  <2>2. \A s \in RPs : cfg[s].alive
    BY <2>1, ClearsAlive
  <2>3. /\ \A s \in RPs : cfg'[s].alive = cfg[s].alive
        /\ cfg'[1].trig => cfg[1].trig
    BY <1>1, <2>1 DEF CfgType
  <2>4. Level' => Level
    BY <2>1, <2>3 DEF Level, LevelOf
  <2> QED
    BY <2>1, <2>2, <2>3, <2>4, SettlingStep
<1>16. ASSUME NEW r \in RPs, Poll(r)
       PROVE  Writers'
  <2>1. CASE UNCHANGED <<setup, cfg, outside, fifo, addr, wvalid, cut>>
    BY <1>3, <2>1
  <2>2. CASE Settles([cfg EXCEPT ![r].alive = FALSE], outside, {}) /\ setup' = setup
    <3>1. ~wvalid[r]
      BY <1>16 DEF Poll, WriterIdle
    <3>2. cfg' = [cfg EXCEPT ![r].alive = FALSE] /\ outside' = outside
          /\ Settles(cfg', outside', {})
      BY <2>2, SettlesTo
    <3>3. \A s \in RPs : /\ cfg'[s].trig = cfg[s].trig
                         /\ s # r => cfg'[s].alive = cfg[s].alive
      BY <1>1, <3>2 DEF CfgType
    <3>4. Level' <=> Level
      BY <1>1, <2>2, <3>2, <3>3 DEF Level, LevelOf
    <3> QED
      BY <1>8, <2>2, <3>1, <3>2, <3>3, <3>4
  <2> QED
    BY <1>16, <2>1, <2>2 DEF Poll, Answers
<1>17. CASE UNCHANGED vars
  BY <1>3, <1>17 DEF vars
<1> QED
  BY <1>4, <1>5, <1>6, <1>7, <1>9, <1>10, <1>11, <1>12, <1>13, <1>14, <1>15, <1>16,
     <1>17
     DEF CarefulNext, Server, Writer

-----------------------------------------------------------------------------
(* The results.                                                            *)

\* The invariant holds initially.
LEMMA Initially ==
    ASSUME Init
    PROVE  IInv
<1>1. 0 \in 0..(Burst + 1) /\ 0 \in 0..MaxWords /\ MaxWords \in Nat /\ 0 <= MaxWords
  BY BurstCount, ClusterAssumption
<1>2. PICK external, prop \in BOOLEAN :
        cfg = [r \in RPs |-> [external |-> external, prop |-> prop, trig |-> FALSE,
                              alive |-> FALSE, instant |-> FALSE]]
  BY DEF Init
<1>3. Types
  <2>1. cfg \in [RPs -> CfgType]
    BY <1>2 DEF CfgType
  <2> QED
    BY <1>1, <2>1 DEF Init, Types, Modes
<1>4. Rounds /\ Now = "connect" /\ Todo = RPs /\ Arg = "ON"
  <2>1. RPs \in (SUBSET RPs) \ {{}}
    BY Members
  <2>2. calls = <<Round("connect", "ON", RPs), PropRound>>
    BY DEF Init, PropRound
  <2> QED
    BY <2>1, <2>2, RoundIs, Queues DEF Rounds, Now, Todo, Arg
<1>5. \A r \in RPs : ~cfg[r].trig /\ ~cfg[r].alive
  BY <1>2
<1>6. Chain
  BY <1>4, <1>5, Members DEF Chain, Init
<1>7. Alike /\ Handlers
  BY <1>4, Members DEF Alike, Handlers, Halting, Init
<1>8. KeptAlive
  BY <1>4, <1>5, Members DEF KeptAlive, Halting, Init
<1>9. Writers
  <2>1. ~Level
    BY <1>5, Members DEF Level, LevelOf, Init
  <2>2. 0 % Burst = 0
    BY BurstCount
  <2> QED
    BY <1>1, <2>1, <2>2 DEF Writers, Init
<1> QED
  BY <1>3, <1>4, <1>6, <1>7, <1>8, <1>9 DEF IInv, Control

\* The invariant holds in every state.
LEMMA Invariance == CarefulSpec => []IInv
<1>1. IInv /\ [CarefulNext]_vars => IInv'
  BY TypesStep, ControlStep, WritersStep DEF IInv
<1> QED
  BY <1>1, Initially, PTL DEF CarefulSpec

\* Every variable keeps its type, the rounds of commands included.
THEOREM TypeCorrect == CarefulSpec => []TypeOK
<1>1. IInv => TypeOK
  <2> SUFFICES ASSUME IInv PROVE TypeOK
    OBVIOUS
  <2>1. CASE calls = <<>>
    <3>1. Len(calls) = 0 /\ 1..0 = {}
      BY <2>1
    <3> QED
      BY <3>1 DEF IInv, Types, CfgType, TypeOK
  <2>2. CASE calls # <<>>
    BY <2>2, Heads DEF IInv, Control, Types, CfgType, TypeOK
  <2> QED
    BY <2>1, <2>2
<1> QED
  BY <1>1, Invariance, PTL

\* No writer of the cluster is reset in the middle of a burst
\* (axis_ram_writer.v): setMasterTrigger and setKeepAliveReset of the servers and
\* the client's order of its rounds hold every one until it is done.
THEOREM NoBurstIsCut == CarefulSpec => []BurstsComplete
<1>1. IInv => BurstsComplete
  BY DEF IInv, Writers, BurstsComplete
<1> QED
  BY <1>1, Invariance, PTL

\* RedPitayas that sample have taken the same number of samples: their write
\* pointers are one clock for the client (Cluster.jl).
THEOREM PointersAgree == CarefulSpec => []InStep
<1>1. IInv => InStep
  BY Followed DEF IInv, Writers, InStep
<1> QED
  BY <1>1, Invariance, PTL

\* Every RedPitaya of the cluster is triggered or none is, whatever the setup and
\* the length of the chain (reset_manager.v).
THEOREM TriggersTogether == CarefulSpec => []Uniform
<1>1. IInv => Uniform
  BY Followed DEF IInv, Uniform
<1> QED
  BY <1>1, Invariance, PTL

\* A step that begins a trigger finds the writers reset.
LEMMA FreshStep ==
    ASSUME IInv, IInv', Uniform, Uniform', [CarefulNext]_vars
    PROVE  [\A r \in RPs : ~Triggered[r] /\ Triggered'[r] => addr[r] + fifo[r] = 0]_vars
<1> SUFFICES ASSUME NEW r \in RPs, ~Level, Level'
             PROVE  addr[r] + fifo[r] = 0
  BY DEF Uniform
<1>1. ~cfg[r].alive
  BY LevelRises DEF IInv
<1> QED
  BY <1>1 DEF IInv, Writers

\* A trigger finds the writers reset (reset_manager.v): the first frame of an
\* acquisition begins with the trigger.
THEOREM BeginsFresh == CarefulSpec => StartsFresh
<1>1. IInv /\ IInv' /\ Uniform /\ Uniform' /\ [CarefulNext]_vars
        => [\A r \in RPs : ~Triggered[r] /\ Triggered'[r] => addr[r] + fifo[r] = 0]_vars
  BY FreshStep
<1> QED
  BY <1>1, Invariance, TriggersTogether, PTL DEF CarefulSpec, StartsFresh

\* The master's trigger goes off only with every writer of the cluster kept alive,
\* which the documentation of masterTrigger! promises (Cluster.jl).
THEOREM AliveBeforeClear == CarefulSpec => KeptAliveFirst
<1>1. IInv /\ [CarefulNext]_vars =>
        [cfg[1].trig /\ ~cfg'[1].trig => \A r \in RPs : cfg[r].alive]_vars
  BY TrigFalls DEF IInv
<1> QED
  BY <1>1, Invariance, PTL DEF CarefulSpec, KeptAliveFirst
=============================================================================
