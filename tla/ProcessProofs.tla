---------------------------- MODULE ProcessProofs ----------------------------
(* Proofs about the process, for any number of restarts: what main makes of   *)
(* the err it shares with the probes goroutine, and what the restarts do to   *)
(* the contexts they share.                                                   *)
EXTENDS Process, FiniteSetTheorems, SequenceTheorems, TLAPS

------------------------------------------------------------------------------
(* The programs *)

Dos == {"parse", "call", "fatal", "warn", "ready", "serve", "probesErr", "probesCheck", "packet",
        "check", "cancel", "clear"}
Names == {"ids", "secret", "kubeTimeout", "config", "kube", "serverVersion", "permissions",
          "provider", "timeouts", "logLevel", "dynamic", "cacheSync", "minorVersion", "start",
          "probes", "restart", "sources", "sinks"}
Exits == {Op("exit", "failed"), Op("exit", "restarted")}
Ops == [do : Dos, of : Names] \cup Exits

LEMMA OpIsOp ==
    /\ \A do \in Dos, of \in Names : Op(do, of) \in Ops
    /\ Op("exit", "failed") \in Ops /\ Op("exit", "restarted") \in Ops
BY DEF Op, Ops, Exits

\* Only an exit ends, and it says how.
LEMMA ExitOps ==
    ASSUME NEW op \in Ops
    PROVE  op.do = "exit" => op.of \in {"failed", "restarted"}
<1>1. CASE op \in Exits
    BY <1>1 DEF Exits, Op
<1>2. CASE op \in [do : Dos, of : Names]
    BY <1>2 DEF Dos
<1> QED BY <1>1, <1>2 DEF Ops

LEMMA RestartOps ==
    /\ RestartProgram \in Seq(Ops) /\ Len(RestartProgram) = 8
    /\ RestartProgram[1] = Op("packet", "restart")
    /\ RestartProgram[2] = Op("check", "sources") /\ RestartProgram[3] = Op("cancel", "sources")
    /\ RestartProgram[4] = Op("clear", "sources")
    /\ RestartProgram[5] = Op("check", "sinks") /\ RestartProgram[6] = Op("cancel", "sinks")
    /\ RestartProgram[7] = Op("clear", "sinks") /\ RestartProgram[8] = Op("exit", "restarted")
<1>1. /\ Op("packet", "restart") \in Ops /\ Op("exit", "restarted") \in Ops
      /\ Op("check", "sources") \in Ops /\ Op("cancel", "sources") \in Ops /\ Op("clear", "sources") \in Ops
      /\ Op("check", "sinks") \in Ops /\ Op("cancel", "sinks") \in Ops /\ Op("clear", "sinks") \in Ops
    BY OpIsOp DEF Dos, Names
<1> QED BY <1>1 DEF RestartProgram

\* Which operations of a restart do what.
LEMMA RestartDoes ==
    \A i \in 1..8 :
        LET op == RestartProgram[i]
        IN  /\ op.do = "packet" => i = 1
            /\ op.do = "check" => (i = 2 /\ op.of = "sources") \/ (i = 5 /\ op.of = "sinks")
            /\ op.do = "cancel" => (i = 3 /\ op.of = "sources") \/ (i = 6 /\ op.of = "sinks")
            /\ op.do = "clear" => (i = 4 /\ op.of = "sources") \/ (i = 7 /\ op.of = "sinks")
            /\ op.do = "exit" => i = 8
<1>1. /\ RestartProgram[1].do = "packet" /\ RestartProgram[8].do = "exit"
      /\ RestartProgram[2].do = "check" /\ RestartProgram[2].of = "sources"
      /\ RestartProgram[3].do = "cancel" /\ RestartProgram[3].of = "sources"
      /\ RestartProgram[4].do = "clear" /\ RestartProgram[4].of = "sources"
      /\ RestartProgram[5].do = "check" /\ RestartProgram[5].of = "sinks"
      /\ RestartProgram[6].do = "cancel" /\ RestartProgram[6].of = "sinks"
      /\ RestartProgram[7].do = "clear" /\ RestartProgram[7].of = "sinks"
    BY RestartOps DEF Op
<1>2. \A i \in 1..8 : i = 1 \/ i = 2 \/ i = 3 \/ i = 4 \/ i = 5 \/ i = 6 \/ i = 7 \/ i = 8
    OBVIOUS
<1> QED BY <1>1, <1>2

LEMMA ProbesOps == ProbesProgram \in Seq(Ops) /\ Fatal \in Seq(Ops)
<1>1. /\ Op("serve", "probes") \in Ops /\ Op("probesErr", "probes") \in Ops
      /\ Op("probesCheck", "probes") \in Ops /\ Op("exit", "failed") \in Ops
    BY OpIsOp DEF Dos, Names
<1> QED BY <1>1 DEF ProbesProgram, Fatal

LEMMA MainOps == MainProgram \in Seq(Ops) /\ Len(MainProgram) = 23
<1>1. /\ Op("parse", "ids") \in Ops /\ Op("call", "secret") \in Ops
      /\ Op("fatal", "secret") \in Ops /\ Op("parse", "kubeTimeout") \in Ops
      /\ Op("call", "config") \in Ops /\ Op("call", "kube") \in Ops
      /\ Op("fatal", "kube") \in Ops /\ Op("call", "serverVersion") \in Ops
      /\ Op("warn", "serverVersion") \in Ops /\ Op("call", "permissions") \in Ops
      /\ Op("warn", "permissions") \in Ops /\ Op("call", "provider") \in Ops
    BY OpIsOp DEF Dos, Names
<1>2. /\ Op("warn", "provider") \in Ops /\ Op("parse", "timeouts") \in Ops
      /\ Op("parse", "logLevel") \in Ops /\ Op("call", "dynamic") \in Ops
      /\ Op("call", "cacheSync") \in Ops /\ Op("fatal", "cacheSync") \in Ops
      /\ Op("call", "minorVersion") \in Ops /\ Op("warn", "minorVersion") \in Ops
      /\ Op("ready", "probes") \in Ops /\ Op("call", "start") \in Ops
      /\ Op("fatal", "start") \in Ops
    BY OpIsOp DEF Dos, Names
<1> QED BY <1>1, <1>2 DEF MainProgram

\* What main relies on: a call that must succeed is followed by its check, but
\* for the config, which the next call dereferences; after "ready" there is only
\* Agent.Start.
Checked(i) ==
    LET op == MainProgram[i]
    IN  /\ op.do # "exit"
        /\ op.do = "ready" <=> i = 21
        /\ op.do = "call" => (op.of = "start" <=> i > 21)
        /\ (op.do = "call" /\ op.of \in {"secret", "kube", "cacheSync"})
           => MainProgram[i + 1].do = "fatal"
        /\ (op.do = "call" /\ op.of = "config")
           => MainProgram[i + 1].do = "call" /\ MainProgram[i + 1].of = "kube"

LEMMA MainChecks == \A i \in 1..23 : Checked(i)
<1>1. /\ MainProgram[1].do = "parse" /\ MainProgram[2].do = "call" /\ MainProgram[3].do = "fatal"
      /\ MainProgram[4].do = "parse" /\ MainProgram[5].do = "call" /\ MainProgram[6].do = "call"
      /\ MainProgram[7].do = "fatal" /\ MainProgram[8].do = "call" /\ MainProgram[9].do = "warn"
      /\ MainProgram[10].do = "call" /\ MainProgram[11].do = "warn" /\ MainProgram[12].do = "call"
      /\ MainProgram[13].do = "warn" /\ MainProgram[14].do = "parse" /\ MainProgram[15].do = "parse"
      /\ MainProgram[16].do = "call" /\ MainProgram[17].do = "call" /\ MainProgram[18].do = "fatal"
      /\ MainProgram[19].do = "call" /\ MainProgram[20].do = "warn" /\ MainProgram[21].do = "ready"
      /\ MainProgram[22].do = "call" /\ MainProgram[23].do = "fatal"
    BY DEF MainProgram, Op
<1>2. /\ MainProgram[1].of = "ids" /\ MainProgram[2].of = "secret"
      /\ MainProgram[3].of = "secret" /\ MainProgram[4].of = "kubeTimeout"
      /\ MainProgram[5].of = "config" /\ MainProgram[6].of = "kube"
      /\ MainProgram[7].of = "kube" /\ MainProgram[8].of = "serverVersion"
      /\ MainProgram[9].of = "serverVersion" /\ MainProgram[10].of = "permissions"
      /\ MainProgram[11].of = "permissions" /\ MainProgram[12].of = "provider"
      /\ MainProgram[13].of = "provider" /\ MainProgram[14].of = "timeouts"
      /\ MainProgram[15].of = "logLevel" /\ MainProgram[16].of = "dynamic"
      /\ MainProgram[17].of = "cacheSync" /\ MainProgram[18].of = "cacheSync"
      /\ MainProgram[19].of = "minorVersion" /\ MainProgram[20].of = "minorVersion"
      /\ MainProgram[21].of = "probes" /\ MainProgram[22].of = "start"
      /\ MainProgram[23].of = "start"
    BY DEF MainProgram, Op
<1>3. Checked(1) /\ Checked(2) /\ Checked(3) /\ Checked(4) /\ Checked(5) /\ Checked(6)
    BY <1>1, <1>2 DEF Checked
<1>4. Checked(7) /\ Checked(8) /\ Checked(9) /\ Checked(10) /\ Checked(11) /\ Checked(12)
    BY <1>1, <1>2 DEF Checked
<1>5. Checked(13) /\ Checked(14) /\ Checked(15) /\ Checked(16) /\ Checked(17) /\ Checked(18)
    BY <1>1, <1>2 DEF Checked
<1>6. Checked(19) /\ Checked(20) /\ Checked(21) /\ Checked(22) /\ Checked(23)
    BY <1>1, <1>2 DEF Checked
<1>7. \A i \in 1..23 :
         \/ i = 1 \/ i = 2 \/ i = 3 \/ i = 4 \/ i = 5 \/ i = 6 \/ i = 7 \/ i = 8 \/ i = 9 \/ i = 10
         \/ i = 11 \/ i = 12 \/ i = 13 \/ i = 14 \/ i = 15 \/ i = 16 \/ i = 17 \/ i = 18 \/ i = 19
         \/ i = 20 \/ i = 21 \/ i = 22 \/ i = 23
    OBVIOUS
<1> QED BY <1>3, <1>4, <1>5, <1>6, <1>7

\* What is left of program p from its i-th operation on.
From(p, i) == SubSeq(p, i, Len(p))

LEMMA FromFacts ==
    ASSUME NEW p \in Seq(Ops), NEW i \in 1 .. Len(p) + 1
    PROVE  /\ From(p, i) \in Seq(Ops) /\ Len(From(p, i)) = Len(p) + 1 - i
           /\ (From(p, i) # <<>>) => i \in 1 .. Len(p)
           /\ i <= Len(p) => Head(From(p, i)) = p[i] /\ Tail(From(p, i)) = From(p, i + 1)
           /\ i + 3 <= Len(p) => SubSeq(From(p, i), 4, Len(From(p, i))) = From(p, i + 3)
<1>1. Len(p) \in Nat /\ i \in Int /\ \A j \in i .. Len(p) : p[j] \in Ops
    OBVIOUS
<1>2. From(p, i) \in Seq(Ops) /\ Len(From(p, i)) = Len(p) + 1 - i
    BY <1>1, SubSeqProperties DEF From
<1>3. (From(p, i) # <<>>) => i \in 1 .. Len(p)
    BY <1>1, <1>2
<1>4. ASSUME i <= Len(p) PROVE Head(From(p, i)) = p[i] /\ Tail(From(p, i)) = From(p, i + 1)
    <2>1. i \in 1 .. Len(p) /\ Len(p) \in i .. Len(p)
        BY <1>1, <1>4
    <2> QED BY <2>1, HeadTailOfSubSeq DEF From
<1>5. ASSUME i + 3 <= Len(p) PROVE SubSeq(From(p, i), 4, Len(From(p, i))) = From(p, i + 3)
    <2>1. i \in 1 .. Len(p) + 1 /\ Len(p) \in i - 1 .. Len(p)
        BY <1>1, <1>5
    <2>2. 4 \in 1 .. (Len(p) - i + 2) /\ Len(p) + 1 - i \in 4 - 1 .. (Len(p) - i + 1)
        BY <1>1, <1>5
    <2>3. SubSeq(SubSeq(p, i, Len(p)), 4, Len(p) + 1 - i) = SubSeq(p, i + 4 - 1, i + (Len(p) + 1 - i) - 1)
        BY <2>1, <2>2, SubSeqOfSubSeq
    <2>4. i + 4 - 1 = i + 3 /\ i + (Len(p) + 1 - i) - 1 = Len(p)
        BY <1>1
    <2> QED BY <1>2, <2>3, <2>4 DEF From
<1> QED BY <1>2, <1>3, <1>4, <1>5

------------------------------------------------------------------------------
(* The inductive invariant *)

\* The operation restart r is at: 1 before the packet, 9 when it has ended.
At(r) == 9 - Len(todo[r])

InPrograms ==
    /\ todo \in [Goroutines -> Seq(Ops)]
    /\ \A r \in Restarts : At(r) \in 1..9 /\ todo[r] = From(RestartProgram, At(r))

\* A restart gets beyond the call of a cancel function only if it, or another,
\* has made the call; a function is nil only if a restart is beyond clearing it.
Contexts ==
    /\ \A r \in Restarts : (At(r) >= 4 => "sources" \in cancelled)
                           /\ (At(r) >= 7 => "sinks" \in cancelled)
    /\ "sources" \notin cancel => \E r \in Restarts : At(r) >= 5
    /\ "sinks" \notin cancel => \E r \in Restarts : At(r) >= 8

Dying == todo[Main] # <<>> /\ Head(todo[Main]).do = "exit"

\* The i-th operation of main ends the process: it is a check, with an error in
\* err, or it dereferences the nil config.
MustStop(i) ==
    \/ MainProgram[i].do = "fatal" /\ err # "nil"
    \/ MainProgram[i].do = "call" /\ MainProgram[i].of = "kube" /\ "config" \in failures

\* main is at its i-th operation, which ends it after a failure that it must not miss.
MainAt(i) ==
    /\ todo[Main] = From(MainProgram, i)
    /\ isReady <=> i > 21
    /\ failures \cap MustSucceed # {} => i <= 23 /\ MustStop(i)

MainRight == Running => Dying \/ \E i \in 1..24 : MainAt(i)

ProcInv ==
    /\ ProcTypeOK /\ InPrograms /\ Contexts /\ SinksStopLast /\ LoneRestartNoPanic
    /\ MainRight /\ FailureNotMissed /\ (started => isReady)

------------------------------------------------------------------------------
(* How a step moves a goroutine *)

LEMMA Moves ==
    ASSUME InPrograms, NEW g \in Goroutines, NEW rest \in Seq(Ops),
           todo' = [todo EXCEPT ![g] = rest]
    PROVE  /\ todo' \in [Goroutines -> Seq(Ops)]
           /\ todo'[g] = rest
           /\ \A h \in Goroutines \ {g} : todo'[h] = todo[h]
BY DEF InPrograms

LEMMA HeadIsOp ==
    ASSUME InPrograms, NEW g \in Goroutines, todo[g] # <<>>
    PROVE  /\ Head(todo[g]) \in Ops /\ Tail(todo[g]) \in Seq(Ops)
           /\ (Head(todo[g]).do = "exit" => Head(todo[g]).of \in {"failed", "restarted"})
<1>1. PICK q \in Seq(Ops) : q = todo[g]
    BY DEF InPrograms
<1>2. Head(q) \in Ops /\ Tail(q) \in Seq(Ops)
    BY <1>1
<1> QED BY <1>1, <1>2, ExitOps

LEMMA DoneMoves ==
    ASSUME InPrograms, NEW g \in Goroutines, todo[g] # <<>>, Then(g, <<>>)
    PROVE  todo' = [todo EXCEPT ![g] = Tail(todo[g])]
<1>1. Tail(todo[g]) \in Seq(Ops)
    BY HeadIsOp
<1>2. <<>> \o Tail(todo[g]) = Tail(todo[g])
    BY <1>1, ConcatEmptySeq
<1> QED BY <1>2 DEF Then, InPrograms

\* Fatal comes before anything else.
LEMMA FatalMoves ==
    ASSUME InPrograms, NEW g \in Goroutines, todo[g] # <<>>, Then(g, Fatal)
    PROVE  /\ todo' = [todo EXCEPT ![g] = Fatal \o Tail(todo[g])]
           /\ Fatal \o Tail(todo[g]) \in Seq(Ops)
           /\ Fatal \o Tail(todo[g]) # <<>>
           /\ Head(Fatal \o Tail(todo[g])).do = "exit"
<1>1. PICK t \in Seq(Ops) : t = Tail(todo[g])
    BY HeadIsOp
<1>2. Fatal \in Seq(Ops) /\ Len(Fatal) = 1 /\ Fatal[1].do = "exit"
    BY ProbesOps DEF Fatal, Op
<1>3. /\ Fatal \o t \in Seq(Ops) /\ Len(Fatal \o t) = 1 + Len(t)
      /\ (Fatal \o t)[1] = Fatal[1]
    BY <1>2, ConcatProperties
<1>4. Fatal \o t # <<>> /\ Head(Fatal \o t) = Fatal[1]
    BY <1>3
<1> QED BY <1>1, <1>2, <1>3, <1>4 DEF Then, InPrograms

\* A restart is inside its program.
LEMMA RestartIs ==
    ASSUME InPrograms, NEW r \in Restarts, todo[r] # <<>>
    PROVE  /\ At(r) \in 1..8 /\ Head(todo[r]) = RestartProgram[At(r)]
           /\ Tail(todo[r]) = From(RestartProgram, At(r) + 1)
           /\ At(r) <= 5 => SubSeq(todo[r], 4, Len(todo[r])) = From(RestartProgram, At(r) + 3)
<1>1. PICK i \in 1..9 : i = At(r) /\ todo[r] = From(RestartProgram, i)
    BY DEF InPrograms
<1>2. RestartProgram \in Seq(Ops) /\ Len(RestartProgram) = 8
    BY RestartOps
<1>3. i \in 1 .. Len(RestartProgram) + 1
    BY <1>2
<1>4. /\ From(RestartProgram, i) # <<>> => i \in 1..8
      /\ i <= 8 => /\ Head(From(RestartProgram, i)) = RestartProgram[i]
                   /\ Tail(From(RestartProgram, i)) = From(RestartProgram, i + 1)
      /\ i + 3 <= 8 => SubSeq(From(RestartProgram, i), 4, Len(From(RestartProgram, i)))
                         = From(RestartProgram, i + 3)
    BY <1>2, <1>3, FromFacts
<1> QED BY <1>1, <1>4

LEMMA RestartGoes ==
    ASSUME InPrograms, NEW r \in Restarts, NEW j \in 1..9,
           todo' = [todo EXCEPT ![r] = From(RestartProgram, j)]
    PROVE  /\ InPrograms' /\ todo'[Main] = todo[Main]
           /\ At(r)' = j /\ \A x \in Restarts \ {r} : At(x)' = At(x)
<1> USE GoroutinesAssumption
<1>1. r \in Goroutines /\ Main \in Goroutines /\ Main # r /\ Restarts \subseteq Goroutines
    BY DEF Goroutines
<1>2. RestartProgram \in Seq(Ops) /\ Len(RestartProgram) = 8
    BY RestartOps
<1>3. From(RestartProgram, j) \in Seq(Ops) /\ Len(From(RestartProgram, j)) = 9 - j
    <2>1. j \in 1 .. Len(RestartProgram) + 1
        BY <1>2
    <2>2. Len(RestartProgram) + 1 - j = 9 - j
        BY <1>2
    <2> QED BY <1>2, <2>1, <2>2, FromFacts
<1>4. /\ todo' \in [Goroutines -> Seq(Ops)] /\ todo'[r] = From(RestartProgram, j)
      /\ \A h \in Goroutines \ {r} : todo'[h] = todo[h]
    BY <1>1, <1>3, Moves
<1>5. At(r)' = j /\ \A x \in Restarts \ {r} : At(x)' = At(x)
    BY <1>1, <1>3, <1>4 DEF At
<1>6. InPrograms'
    BY <1>1, <1>4, <1>5 DEF InPrograms
<1> QED BY <1>1, <1>4, <1>5, <1>6

\* The steps of the others leave main where it is, with its failures.
LEMMA MainFrame ==
    ASSUME ProcInv, UNCHANGED <<failures, isReady, started>>, todo'[Main] = todo[Main],
           err' \in {err, "probes"}, Running' => Running
    PROVE  MainRight' /\ FailureNotMissed' /\ (started' => isReady')
<1>1. FailureNotMissed' /\ (started' => isReady')
    BY DEF ProcInv, FailureNotMissed
<1>2. ASSUME NEW i \in 1..24, MainAt(i) PROVE MainAt(i)'
    BY <1>2 DEF MainAt, MustStop
<1>3. Dying => Dying'
    BY DEF Dying
<1>4. MainRight
    BY DEF ProcInv
<1> QED BY <1>1, <1>2, <1>3, <1>4 DEF MainRight

\* The steps of main and of the probes goroutine leave the restarts where they are.
LEMMA RestartFrame ==
    ASSUME ProcInv, UNCHANGED ctxVars, todo' \in [Goroutines -> Seq(Ops)],
           \A r \in Restarts : todo'[r] = todo[r]
    PROVE  InPrograms' /\ Contexts' /\ SinksStopLast'
<1>1. \A r \in Restarts : At(r)' = At(r)
    BY DEF At
<1>2. InPrograms'
    BY <1>1 DEF ProcInv, InPrograms
<1>3. UNCHANGED <<cancel, cancelled>>
    BY DEF ctxVars
<1>4. Contexts' /\ SinksStopLast'
    BY <1>1, <1>3 DEF ProcInv, Contexts, SinksStopLast
<1> QED BY <1>2, <1>4

LEMMA OneMoves ==
    ASSUME InPrograms, NEW g \in {Main, Probes}, NEW rest \in Seq(Ops),
           todo' = [todo EXCEPT ![g] = rest]
    PROVE  /\ todo' \in [Goroutines -> Seq(Ops)] /\ todo'[g] = rest
           /\ \A r \in Restarts : todo'[r] = todo[r]
           /\ g = Probes => todo'[Main] = todo[Main]
<1>1. g \in Goroutines /\ Main \in Goroutines /\ Restarts \subseteq Goroutines
    BY DEF Goroutines
<1>2. Main # Probes /\ g \notin Restarts
    BY GoroutinesAssumption
<1> QED BY <1>1, <1>2, Moves

LEMMA ProbesKeeps ==
    ASSUME ProcInv, ServeFails \/ ProbesErr \/ ProbesCheck
    PROVE  ProcInv'
<1>1. /\ Running /\ todo[Probes] # <<>> /\ Probes \in Goroutines /\ InPrograms
      /\ UNCHANGED <<failures, isReady, started, cancel, cancelled, ended>> /\ err' \in {err, "probes"}
    BY DEF ServeFails, ProbesErr, ProbesCheck, Next, mainVars, ctxVars, Goroutines, ProcInv
<1>2. Then(Probes, <<>>) \/ Then(Probes, Fatal)
    BY DEF ServeFails, ProbesErr, ProbesCheck, Done
<1>3. PICK rest \in Seq(Ops) : todo' = [todo EXCEPT ![Probes] = rest]
    BY <1>1, <1>2, DoneMoves, FatalMoves, HeadIsOp
<1>4. /\ todo' \in [Goroutines -> Seq(Ops)] /\ todo'[Main] = todo[Main]
      /\ \A r \in Restarts : todo'[r] = todo[r]
    BY <1>1, <1>3, OneMoves
<1>5. MainRight' /\ FailureNotMissed' /\ (started' => isReady')
    BY <1>1, <1>4, MainFrame
<1>6. InPrograms' /\ Contexts' /\ SinksStopLast'
    BY <1>1, <1>4, RestartFrame DEF ctxVars
<1>7. ProcTypeOK'
    BY <1>1 DEF ProcInv, ProcTypeOK
<1>8. LoneRestartNoPanic'
    BY <1>1 DEF LoneRestartNoPanic, Running
<1> QED BY <1>5, <1>6, <1>7, <1>8 DEF ProcInv

\* Two restarts have begun.
LEMMA TwoBegun ==
    ASSUME InPrograms, NEW r \in Restarts, NEW x \in Restarts, r # x, At(r) >= 2, At(x) >= 2
    PROVE  Cardinality({y \in Restarts : Begun(y)}) > 1
<1> DEFINE B == {y \in Restarts : Begun(y)}
<1>1. \A y \in Restarts : Len(todo[y]) \in Nat
    BY DEF InPrograms, Goroutines
<1>2. r \in B /\ x \in B
    BY <1>1, RestartOps DEF Begun, At
<1>3. IsFiniteSet(B) /\ Cardinality(B) \in Nat
    BY GoroutinesAssumption, FS_Subset, FS_CardinalityType
<1>4. IsFiniteSet({r}) /\ Cardinality({r}) = 1
    BY FS_Singleton
<1>5. IsFiniteSet({r} \cup {x}) /\ Cardinality({r} \cup {x}) = 2
    BY <1>4, FS_AddElement
<1>6. Cardinality({r} \cup {x}) <= Cardinality(B)
    BY <1>2, <1>3, FS_Subset
<1> HIDE DEF B
<1>7. Cardinality(B) > 1
    BY <1>3, <1>5, <1>6
<1> QED BY <1>7 DEF B

LEMMA RestartMoves ==
    ASSUME ProcInv, NEW r \in Restarts, NEW j \in 1..9, j > At(r), UNCHANGED mainVars,
           todo' = [todo EXCEPT ![r] = From(RestartProgram, j)], Running,
           cancel' \cup cancelled' = {"sources", "sinks"}, cancelled \subseteq cancelled',
           j >= 4 => "sources" \in cancelled', j >= 7 => "sinks" \in cancelled',
           "sources" \in cancel \ cancel' => j >= 5, "sinks" \in cancel \ cancel' => j >= 8,
           SinksStopLast', LoneRestartNoPanic',
           ended' \in {"no", "failed", "restarted", "panic", "outOfRange"}
    PROVE  ProcInv'
<1>1. InPrograms /\ ProcTypeOK /\ Contexts
    BY DEF ProcInv
<1>2. /\ InPrograms' /\ todo'[Main] = todo[Main] /\ At(r)' = j
      /\ \A x \in Restarts \ {r} : At(x)' = At(x)
    BY <1>1, RestartGoes
<1>3. At(r) \in 1..9
    BY <1>1 DEF InPrograms
<1>4. UNCHANGED <<err, failures, isReady, started>>
    BY DEF mainVars
<1>5. MainRight' /\ FailureNotMissed' /\ (started' => isReady')
    BY <1>2, <1>4, MainFrame
<1>6. ProcTypeOK'
    BY <1>1, <1>4 DEF ProcTypeOK
<1>7. \A x \in Restarts : (At(x)' >= 4 => "sources" \in cancelled') /\ (At(x)' >= 7 => "sinks" \in cancelled')
    BY <1>1, <1>2 DEF Contexts
<1>8. ASSUME "sources" \notin cancel' PROVE \E x \in Restarts : At(x)' >= 5
    <2>1. CASE "sources" \in cancel
        BY <1>2, <1>8, <2>1
    <2>2. CASE "sources" \notin cancel
        <3>1. PICK x \in Restarts : At(x) >= 5
            BY <1>1, <2>2 DEF Contexts
        <3>2. At(x)' >= 5
            BY <1>2, <1>3, <3>1
        <3> QED BY <3>2
    <2> QED BY <2>1, <2>2
<1>9. ASSUME "sinks" \notin cancel' PROVE \E x \in Restarts : At(x)' >= 8
    <2>1. CASE "sinks" \in cancel
        BY <1>2, <1>9, <2>1
    <2>2. CASE "sinks" \notin cancel
        <3>1. PICK x \in Restarts : At(x) >= 8
            BY <1>1, <2>2 DEF Contexts
        <3>2. At(x)' >= 8
            BY <1>2, <1>3, <3>1
        <3> QED BY <3>2
    <2> QED BY <2>1, <2>2
<1>10. Contexts'
    BY <1>7, <1>8, <1>9 DEF Contexts
<1> QED BY <1>2, <1>5, <1>6, <1>10 DEF ProcInv

\* The packet comes, and a check finds the function or skips what is done.
LEMMA RestartGoesOn ==
    ASSUME ProcInv, NEW r \in Restarts, RestartPacket(r) \/ StopCheck(r)
    PROVE  ProcInv'
<1>1. InPrograms /\ Contexts /\ SinksStopLast /\ cancel \cup cancelled = {"sources", "sinks"}
    BY DEF ProcInv, ProcTypeOK
<1>2. /\ Running /\ todo[r] # <<>> /\ r \in Goroutines /\ Len(todo[r]) \in Nat
      /\ UNCHANGED mainVars /\ UNCHANGED <<cancel, cancelled, ended>>
    BY <1>1 DEF RestartPacket, StopCheck, Next, Goroutines, ctxVars, InPrograms
<1>3. PICK i \in 1..8 :
         /\ i = At(r) /\ Head(todo[r]) = RestartProgram[i]
         /\ Tail(todo[r]) = From(RestartProgram, i + 1)
         /\ i <= 5 => SubSeq(todo[r], 4, Len(todo[r])) = From(RestartProgram, i + 3)
    BY <1>1, <1>2, RestartIs
<1>4. SinksStopLast' /\ LoneRestartNoPanic'
    BY <1>1, <1>2 DEF SinksStopLast, LoneRestartNoPanic, Running
<1>5. (i >= 4 => "sources" \in cancelled) /\ (i >= 7 => "sinks" \in cancelled)
    BY <1>1, <1>3 DEF Contexts
<1>6. /\ cancel' \cup cancelled' = {"sources", "sinks"} /\ cancelled \subseteq cancelled'
      /\ "sources" \notin cancel \ cancel' /\ "sinks" \notin cancel \ cancel' /\ ended' = "no"
    BY <1>1, <1>2 DEF Running
<1>7. CASE RestartPacket(r)
    <2>1. i = 1
        BY <1>3, <1>7, RestartDoes DEF RestartPacket, Next
    <2>2. todo' = [todo EXCEPT ![r] = From(RestartProgram, i + 1)]
        <3>1. Then(r, <<>>)
            BY <1>7 DEF RestartPacket, Done
        <3> QED BY <1>1, <1>2, <1>3, <3>1, DoneMoves
    <2>3. i + 1 \in 1..9 /\ i + 1 > At(r) /\ ~(i + 1 >= 4) /\ ~(i + 1 >= 7)
        BY <1>3, <2>1
    <2> QED BY <1>2, <1>4, <1>6, <2>2, <2>3, RestartMoves
<1>8. CASE StopCheck(r)
    <2>1. (i = 2 /\ RestartProgram[i].of = "sources") \/ (i = 5 /\ RestartProgram[i].of = "sinks")
        BY <1>3, <1>8, RestartDoes DEF StopCheck, Next
    <2>2. CASE RestartProgram[i].of \in cancel
        <3>1. todo' = [todo EXCEPT ![r] = From(RestartProgram, i + 1)]
            BY <1>1, <1>3, <1>8, <2>2 DEF StopCheck, InPrograms
        <3>2. i + 1 \in 1..9 /\ i + 1 > At(r) /\ ~(i + 1 >= 7) /\ (i + 1 >= 4 => "sources" \in cancelled')
            BY <1>2, <1>3, <1>5, <2>1
        <3> QED BY <1>2, <1>4, <1>6, <3>1, <3>2, RestartMoves
    <2>3. CASE RestartProgram[i].of \notin cancel
        <3>1. todo' = [todo EXCEPT ![r] = From(RestartProgram, i + 3)]
            <4>1. todo' = [todo EXCEPT ![r] = SubSeq(todo[r], 4, Len(todo[r]))]
                BY <1>1, <1>3, <1>8, <2>3 DEF StopCheck, InPrograms
            <4>2. i <= 5
                BY <2>1
            <4> QED BY <1>3, <4>1, <4>2
        <3>2. /\ i + 3 \in 1..9 /\ i + 3 > At(r)
              /\ i + 3 >= 4 => "sources" \in cancelled'
              /\ i + 3 >= 7 => "sinks" \in cancelled'
            BY <1>1, <1>2, <1>3, <1>5, <2>1, <2>3
        <3> QED BY <1>2, <1>4, <1>6, <3>1, <3>2, RestartMoves
    <2> QED BY <2>2, <2>3
<1> QED BY <1>7, <1>8

\* The call of a function that is nil takes another restart that has cleared it.
LEMMA StopCancelKeeps ==
    ASSUME ProcInv, NEW r \in Restarts, StopCancel(r)
    PROVE  ProcInv'
<1>1. InPrograms /\ Contexts /\ SinksStopLast /\ cancel \cup cancelled = {"sources", "sinks"}
    BY DEF ProcInv, ProcTypeOK
<1>2. /\ Running /\ todo[r] # <<>> /\ r \in Goroutines
      /\ UNCHANGED mainVars /\ cancel' = cancel /\ Then(r, <<>>)
    BY DEF StopCancel, Next, Goroutines, Done
<1>3. PICK i \in 1..8 :
         /\ i = At(r) /\ Head(todo[r]) = RestartProgram[i]
         /\ Tail(todo[r]) = From(RestartProgram, i + 1)
    BY <1>1, <1>2, RestartIs
<1>4. PICK ctx : ctx = RestartProgram[i].of
    OBVIOUS
<1>5. (i = 3 /\ ctx = "sources") \/ (i = 6 /\ ctx = "sinks")
    BY <1>3, <1>4, RestartDoes DEF StopCancel, Next
<1>6. /\ cancelled' = IF ctx \in cancel THEN cancelled \cup {ctx} ELSE cancelled
      /\ ended' = IF ctx \in cancel THEN ended ELSE "panic"
    BY <1>3, <1>4 DEF StopCancel
<1>7. todo' = [todo EXCEPT ![r] = From(RestartProgram, i + 1)]
    BY <1>1, <1>2, <1>3, DoneMoves
<1>8. /\ cancelled \subseteq cancelled' /\ ctx \in cancelled'
      /\ cancel' \cup cancelled' = {"sources", "sinks"}
    BY <1>1, <1>2, <1>5, <1>6
<1>9. i >= 4 => "sources" \in cancelled
    BY <1>1, <1>3 DEF Contexts
<1>10. SinksStopLast'
    BY <1>1, <1>5, <1>6, <1>8, <1>9 DEF SinksStopLast
<1>11. LoneRestartNoPanic'
    <2> SUFFICES ASSUME ended' = "panic"
                 PROVE  Cardinality({y \in Restarts : Begun(y)}') > 1
        BY DEF LoneRestartNoPanic
    <2>1. ctx \notin cancel
        BY <1>2, <1>6 DEF Running
    <2>2. \E x \in Restarts : At(x) >= i + 2
        <3>1. CASE i = 3 /\ ctx = "sources"
            <4>1. PICK x \in Restarts : At(x) >= 5
                BY <1>1, <2>1, <3>1 DEF Contexts
            <4> QED BY <3>1, <4>1
        <3>2. CASE i = 6 /\ ctx = "sinks"
            <4>1. PICK x \in Restarts : At(x) >= 8
                BY <1>1, <2>1, <3>2 DEF Contexts
            <4> QED BY <3>2, <4>1
        <3> QED BY <1>5, <3>1, <3>2
    <2>3. PICK x \in Restarts : At(x) >= i + 2
        BY <2>2
    <2>4. At(x) \in Int /\ At(r) = i /\ At(r) \in Int /\ i >= 2
        BY <1>1, <1>3, <1>5 DEF InPrograms
    <2>5. r # x /\ At(r) >= 2 /\ At(x) >= 2
        BY <2>3, <2>4
    <2>6. Cardinality({y \in Restarts : Begun(y)}) > 1
        BY <1>1, <2>5, TwoBegun
    <2>7. \A y \in Restarts : Begun(y)' <=> Begun(y)
        <3>1. i + 1 \in 1..9
            OBVIOUS
        <3>2. At(r)' = i + 1 /\ InPrograms' /\ \A y \in Restarts \ {r} : At(y)' = At(y)
            BY <1>1, <1>7, <3>1, RestartGoes
        <3>3. \A y \in Restarts : Len(todo[y]) \in Nat /\ Len(todo'[y]) \in Nat
            BY <1>1, <3>2 DEF InPrograms, Goroutines
        <3>4. \A y \in Restarts : (Begun(y) <=> At(y) > 1) /\ (Begun(y)' <=> At(y)' > 1)
            BY <3>3, RestartOps DEF Begun, At
        <3>5. At(r) > 1 /\ At(r)' > 1
            BY <2>4, <3>2
        <3> QED BY <3>2, <3>4, <3>5
    <2>8. {y \in Restarts : Begun(y)}' = {y \in Restarts : Begun(y)}
        BY <2>7
    <2> QED BY <2>6, <2>8
<1>12. /\ i + 1 \in 1..9 /\ i + 1 > At(r)
       /\ i + 1 >= 4 => "sources" \in cancelled'
       /\ i + 1 >= 7 => "sinks" \in cancelled'
    BY <1>3, <1>5, <1>8, <1>9
<1>13. ended' \in {"no", "panic"}
    BY <1>2, <1>6 DEF Running
<1> QED BY <1>2, <1>7, <1>8, <1>10, <1>11, <1>12, <1>13, RestartMoves

LEMMA StopClearKeeps ==
    ASSUME ProcInv, NEW r \in Restarts, StopClear(r)
    PROVE  ProcInv'
<1>1. InPrograms /\ Contexts /\ SinksStopLast /\ cancel \cup cancelled = {"sources", "sinks"}
    BY DEF ProcInv, ProcTypeOK
<1>2. /\ Running /\ todo[r] # <<>> /\ r \in Goroutines
      /\ UNCHANGED mainVars /\ UNCHANGED <<cancelled, ended>> /\ Then(r, <<>>)
    BY DEF StopClear, Next, Goroutines, Done
<1>3. PICK i \in 1..8 :
         /\ i = At(r) /\ Head(todo[r]) = RestartProgram[i]
         /\ Tail(todo[r]) = From(RestartProgram, i + 1)
    BY <1>1, <1>2, RestartIs
<1>4. PICK ctx : ctx = RestartProgram[i].of
    OBVIOUS
<1>5. (i = 4 /\ ctx = "sources") \/ (i = 7 /\ ctx = "sinks")
    BY <1>3, <1>4, RestartDoes DEF StopClear, Next
<1>6. cancel' = cancel \ {ctx}
    BY <1>3, <1>4 DEF StopClear
<1>7. todo' = [todo EXCEPT ![r] = From(RestartProgram, i + 1)]
    BY <1>1, <1>2, <1>3, DoneMoves
<1>8. "sources" \in cancelled /\ (i = 7 => "sinks" \in cancelled)
    BY <1>1, <1>3, <1>5 DEF Contexts
<1>9. /\ i + 1 \in 1..9 /\ i + 1 > At(r) /\ cancel' \cup cancelled' = {"sources", "sinks"}
      /\ i + 1 >= 4 => "sources" \in cancelled'
      /\ i + 1 >= 7 => "sinks" \in cancelled'
      /\ "sources" \in cancel \ cancel' => i + 1 >= 5
      /\ "sinks" \in cancel \ cancel' => i + 1 >= 8
    BY <1>1, <1>2, <1>3, <1>5, <1>6, <1>8
<1>10. SinksStopLast' /\ LoneRestartNoPanic' /\ ended' = "no"
    BY <1>1, <1>2 DEF SinksStopLast, LoneRestartNoPanic, Running
<1> QED BY <1>2, <1>7, <1>9, <1>10, RestartMoves

------------------------------------------------------------------------------
(* main *)

LEMMA MainIs ==
    ASSUME ProcInv, NEW do, Next(Main, do), do # "exit"
    PROVE  \E i \in 1..23 :
               /\ MainAt(i) /\ Checked(i)
               /\ Head(todo[Main]) = MainProgram[i] /\ MainProgram[i].do = do
               /\ Tail(todo[Main]) = From(MainProgram, i + 1)
<1>1. Running /\ todo[Main] # <<>> /\ Head(todo[Main]).do = do /\ ~Dying
    BY DEF Next, Dying
<1>2. PICK i \in 1..24 : MainAt(i)
    BY <1>1 DEF ProcInv, MainRight
<1>3. todo[Main] = From(MainProgram, i)
    BY <1>2 DEF MainAt
<1>4. MainProgram \in Seq(Ops) /\ Len(MainProgram) = 23
    BY MainOps
<1>5. i \in 1 .. Len(MainProgram) + 1
    BY <1>4
<1>6. /\ (From(MainProgram, i) # <<>>) => i \in 1 .. Len(MainProgram)
      /\ i <= Len(MainProgram) => /\ Head(From(MainProgram, i)) = MainProgram[i]
                                  /\ Tail(From(MainProgram, i)) = From(MainProgram, i + 1)
    BY <1>4, <1>5, FromFacts
<1>7. i \in 1..23
    BY <1>1, <1>3, <1>4, <1>6
<1>8. Head(todo[Main]) = MainProgram[i] /\ Tail(todo[Main]) = From(MainProgram, i + 1)
    BY <1>3, <1>4, <1>6, <1>7
<1>9. Checked(i)
    BY <1>7, MainChecks
<1> QED BY <1>1, <1>2, <1>7, <1>8, <1>9

LEMMA MainMoves ==
    ASSUME ProcInv, todo[Main] # <<>>, Then(Main, <<>>)
    PROVE  /\ todo' \in [Goroutines -> Seq(Ops)] /\ \A r \in Restarts : todo'[r] = todo[r]
           /\ todo'[Main] = Tail(todo[Main])
<1>1. InPrograms /\ Main \in Goroutines
    BY DEF ProcInv, Goroutines
<1>2. todo' = [todo EXCEPT ![Main] = Tail(todo[Main])] /\ Tail(todo[Main]) \in Seq(Ops)
    BY <1>1, DoneMoves, HeadIsOp
<1> QED BY <1>1, <1>2, OneMoves

\* main goes on from its i-th operation.
LEMMA MainGoesOn ==
    ASSUME ProcInv, Running, todo[Main] # <<>>, NEW i \in 1..23,
           Tail(todo[Main]) = From(MainProgram, i + 1), Then(Main, <<>>),
           UNCHANGED ctxVars, ended' = ended, err' \in {"nil", "main", "probes"},
           failures' \subseteq {MainProgram[k].of : k \in 1..Len(MainProgram)},
           isReady' <=> i + 1 > 21, started' => isReady',
           failures' \cap MustSucceed = {} \/ (i + 1 <= 21 /\ MustStop(i + 1)')
    PROVE  ProcInv'
<1>1. /\ todo' \in [Goroutines -> Seq(Ops)] /\ todo'[Main] = From(MainProgram, i + 1)
      /\ \A r \in Restarts : todo'[r] = todo[r]
    BY MainMoves
<1>2. InPrograms' /\ Contexts' /\ SinksStopLast'
    BY <1>1, RestartFrame
<1>3. MainAt(i + 1)' /\ i + 1 \in 1..24
    <2>1. failures' \cap MustSucceed # {} => i + 1 <= 23 /\ MustStop(i + 1)'
        <3>1. i + 1 <= 21 => i + 1 <= 23
            OBVIOUS
        <3> QED BY <3>1, Zenon
    <2>2. i + 1 \in 1..24
        OBVIOUS
    <2>3. isReady' <=> i + 1 > 21
        OBVIOUS
    <2> QED BY <1>1, <2>1, <2>2, <2>3, Zenon DEF MainAt
<1>4. MainRight'
    BY <1>3 DEF MainRight
<1>5. FailureNotMissed'
    <2>1. ASSUME isReady' PROVE ~(i + 1 <= 21)
        BY <2>1
    <2> QED BY <2>1 DEF FailureNotMissed
<1>6. ProcTypeOK'
    BY DEF ProcInv, ProcTypeOK, ctxVars
<1>7. LoneRestartNoPanic'
    BY DEF LoneRestartNoPanic, Running
<1> QED BY <1>2, <1>4, <1>5, <1>6, <1>7 DEF ProcInv

LEMMA MainDies ==
    ASSUME ProcInv, Running, todo[Main] # <<>>, Then(Main, Fatal), UNCHANGED <<mainVars, ctxVars, ended>>
    PROVE  ProcInv'
<1>1. todo' \in [Goroutines -> Seq(Ops)] /\ Dying' /\ \A r \in Restarts : todo'[r] = todo[r]
    <2>1. InPrograms /\ Main \in Goroutines
        BY DEF ProcInv, Goroutines
    <2>2. PICK q \in Seq(Ops) :
             todo' = [todo EXCEPT ![Main] = q] /\ q # <<>> /\ Head(q).do = "exit"
        BY <2>1, FatalMoves
    <2>3. /\ todo' \in [Goroutines -> Seq(Ops)] /\ todo'[Main] = q
          /\ \A r \in Restarts : todo'[r] = todo[r]
        BY <2>1, <2>2, OneMoves
    <2> QED BY <2>2, <2>3 DEF Dying
<1>2. InPrograms' /\ Contexts' /\ SinksStopLast'
    BY <1>1, RestartFrame
<1>3. UNCHANGED <<err, failures, isReady, started, cancel, cancelled>>
    BY DEF mainVars, ctxVars
<1>4. MainRight' /\ FailureNotMissed' /\ (started' => isReady')
    BY <1>1, <1>3 DEF MainRight, FailureNotMissed, ProcInv
<1>5. ProcTypeOK'
    BY <1>3 DEF ProcInv, ProcTypeOK
<1>6. LoneRestartNoPanic'
    BY DEF LoneRestartNoPanic, Running
<1> QED BY <1>2, <1>4, <1>5, <1>6 DEF ProcInv

LEMMA CallReturnsKeeps ==
    ASSUME ProcInv, NEW ok \in BOOLEAN, CallReturns(ok)
    PROVE  ProcInv'
<1>1. /\ Next(Main, "call") /\ Running /\ todo[Main] # <<>> /\ Then(Main, <<>>)
      /\ UNCHANGED <<isReady, started, ended>> /\ UNCHANGED ctxVars
    BY DEF CallReturns, Next, Done
<1>2. PICK i \in 1..23 :
         /\ MainAt(i) /\ Checked(i)
         /\ Head(todo[Main]) = MainProgram[i] /\ MainProgram[i].do = "call"
         /\ Tail(todo[Main]) = From(MainProgram, i + 1)
    BY <1>1, MainIs
<1>3. PICK name : name = MainProgram[i].of
    OBVIOUS
<1>4. /\ name # "start" /\ Dereferences(name) \cap failures = {}
      /\ err' = (IF ok THEN "nil" ELSE "main")
      /\ failures' = failures \/ (~ok /\ failures' = failures \cup {name})
    BY <1>2, <1>3 DEF CallReturns
<1>5. i <= 20
    BY <1>2, <1>3, <1>4 DEF Checked
<1>6. failures \cap MustSucceed = {}
    <2>1. CASE failures \cap MustSucceed # {}
        <3>1. name = "kube" /\ "config" \in failures
            BY <1>2, <1>3, <2>1 DEF MainAt, MustStop
        <3>2. Dereferences(name) = {"config"}
            BY <3>1 DEF Dereferences
        <3> QED BY <1>4, <3>1, <3>2
    <2> QED BY <2>1
<1>7. ASSUME failures' \cap MustSucceed # {} PROVE MustStop(i + 1)'
    <2>1. ~ok /\ failures' = failures \cup {name} /\ name \in MustSucceed
        BY <1>4, <1>6, <1>7
    <2>2. err' = "main"
        BY <1>4, <2>1
    <2> QED BY <1>2, <1>3, <2>1, <2>2 DEF Checked, MustSucceed, MustStop
<1>8. ~isReady /\ ~started
    BY <1>2, <1>5 DEF MainAt, ProcInv
<1>9. failures' \subseteq {MainProgram[k].of : k \in 1..Len(MainProgram)}
    <2>1. failures \subseteq {MainProgram[k].of : k \in 1..Len(MainProgram)}
        BY DEF ProcInv, ProcTypeOK
    <2>2. name \in {MainProgram[k].of : k \in 1..Len(MainProgram)}
        BY <1>3, MainOps
    <2> QED BY <1>4, <2>1, <2>2
<1>10. err' \in {"nil", "main", "probes"}
    BY <1>4
<1>11. i + 1 <= 21 /\ (isReady' <=> i + 1 > 21) /\ (started' => isReady')
    BY <1>1, <1>5, <1>8
<1> QED BY <1>1, <1>2, <1>7, <1>9, <1>10, <1>11, MainGoesOn

\* The checks, the flags and "ready": main passes one only without a failure.
LEMMA MainPasses ==
    ASSUME ProcInv, NEW do \in {"fatal", "warn", "parse", "ready"}, Next(Main, do), Then(Main, <<>>),
           do = "fatal" => err = "nil", isReady' <=> (do = "ready" \/ isReady),
           UNCHANGED <<err, failures, started, ended>>, UNCHANGED ctxVars
    PROVE  ProcInv'
<1>1. Running /\ todo[Main] # <<>> /\ do # "exit"
    BY DEF Next
<1>2. PICK i \in 1..23 :
         /\ MainAt(i) /\ Checked(i)
         /\ Head(todo[Main]) = MainProgram[i] /\ MainProgram[i].do = do
         /\ Tail(todo[Main]) = From(MainProgram, i + 1)
    BY <1>1, MainIs
<1>3. failures \cap MustSucceed = {}
    BY <1>2 DEF MainAt, MustStop
<1>4. do = "ready" <=> i = 21
    BY <1>2 DEF Checked
<1>5. isReady <=> i > 21
    BY <1>2 DEF MainAt
<1>6. (isReady' <=> i + 1 > 21) /\ (started' => isReady')
    BY <1>4, <1>5 DEF ProcInv
<1>7. /\ failures' \subseteq {MainProgram[k].of : k \in 1..Len(MainProgram)}
      /\ err' \in {"nil", "main", "probes"} /\ failures' \cap MustSucceed = {}
    BY <1>3 DEF ProcInv, ProcTypeOK
<1> QED BY <1>1, <1>2, <1>6, <1>7, MainGoesOn

LEMMA MainChecksKeep ==
    ASSUME ProcInv, CheckFatal \/ CheckWarn \/ SetReady \/ \E ok \in BOOLEAN : ParseFlag(ok)
    PROVE  ProcInv'
<1>1. CASE CheckFatal
    <2>1. Next(Main, "fatal") /\ UNCHANGED <<mainVars, ctxVars, ended>> /\ Running /\ todo[Main] # <<>>
        BY <1>1 DEF CheckFatal, Next
    <2>2. CASE err = "nil"
        <3>1. Then(Main, <<>>) /\ UNCHANGED <<err, failures, started, ended>> /\ isReady' = isReady
            BY <1>1, <2>2 DEF CheckFatal, mainVars
        <3> QED BY <2>1, <2>2, <3>1, MainPasses
    <2>3. CASE err # "nil"
        <3>1. Then(Main, Fatal)
            BY <1>1, <2>3 DEF CheckFatal
        <3> QED BY <2>1, <3>1, MainDies
    <2> QED BY <2>2, <2>3
<1>2. CASE CheckWarn
    <2>1. /\ Next(Main, "warn") /\ Then(Main, <<>>) /\ UNCHANGED ctxVars
          /\ UNCHANGED <<err, failures, started, ended>> /\ isReady' = isReady
        BY <1>2 DEF CheckWarn, Done, mainVars
    <2> QED BY <2>1, MainPasses
<1>3. CASE SetReady
    <2>1. /\ Next(Main, "ready") /\ Then(Main, <<>>) /\ UNCHANGED ctxVars
          /\ UNCHANGED <<err, failures, started, ended>> /\ isReady' = TRUE
        BY <1>3 DEF SetReady, Done
    <2> QED BY <2>1, MainPasses
<1>4. ASSUME NEW ok \in BOOLEAN, ParseFlag(ok) PROVE ProcInv'
    <2>1. Next(Main, "parse") /\ UNCHANGED <<mainVars, ctxVars, ended>> /\ Running /\ todo[Main] # <<>>
        BY <1>4 DEF ParseFlag, Next
    <2>2. CASE ok
        <3>1. Then(Main, <<>>) /\ UNCHANGED <<err, failures, started, ended>> /\ isReady' = isReady
            BY <1>4, <2>2 DEF ParseFlag, mainVars
        <3> QED BY <2>1, <3>1, MainPasses
    <2>3. CASE ~ok
        <3>1. Then(Main, Fatal)
            BY <1>4, <2>3 DEF ParseFlag
        <3> QED BY <2>1, <3>1, MainDies
    <2> QED BY <2>2, <2>3
<1> QED BY <1>1, <1>2, <1>3, <1>4

\* A call that panics.
LEMMA MainEnds ==
    ASSUME ProcInv, CallPanics \/ CallOutOfRange
    PROVE  ProcInv'
<1>1. /\ UNCHANGED <<todo, err, failures, isReady, started, cancel, cancelled>>
      /\ ended' \in {"panic", "outOfRange"}
    BY DEF CallPanics, CallOutOfRange, mainVars, ctxVars
<1>2. InPrograms' /\ Contexts' /\ SinksStopLast'
    BY <1>1, RestartFrame DEF ProcInv, InPrograms, ctxVars
<1>3. MainRight' /\ FailureNotMissed' /\ (started' => isReady')
    BY <1>1 DEF MainRight, Running, FailureNotMissed, ProcInv
<1>4. ProcTypeOK'
    BY <1>1 DEF ProcInv, ProcTypeOK
<1>5. LoneRestartNoPanic'
    <2>1. CASE CallPanics
        BY <1>1, <2>1 DEF CallPanics, Dereferences, LoneRestartNoPanic
    <2>2. CASE CallOutOfRange
        BY <2>2 DEF CallOutOfRange, LoneRestartNoPanic
    <2> QED BY <2>1, <2>2
<1> QED BY <1>2, <1>3, <1>4, <1>5 DEF ProcInv

LEMMA StartKeeps ==
    ASSUME ProcInv, AgentStart \/ AgentStartFails
    PROVE  ProcInv'
<1>1. Next(Main, "call") /\ Running /\ todo[Main] # <<>> /\ UNCHANGED <<failures, isReady, ended>>
      /\ UNCHANGED ctxVars
    BY DEF AgentStart, AgentStartFails, Next
<1>2. PICK i \in 1..23 :
         /\ MainAt(i) /\ Checked(i)
         /\ Head(todo[Main]) = MainProgram[i] /\ MainProgram[i].do = "call"
         /\ Tail(todo[Main]) = From(MainProgram, i + 1)
    BY <1>1, MainIs
<1>3. CASE AgentStart
    <2>1. UNCHANGED <<todo, err>> /\ Head(todo[Main]).of = "start"
        BY <1>3 DEF AgentStart
    <2>2. isReady
        BY <1>2, <2>1 DEF MainAt, Checked
    <2>3. MainRight' /\ FailureNotMissed'
        <3>1. MainAt(i)'
            BY <1>1, <1>2, <2>1 DEF MainAt, MustStop
        <3> QED BY <1>1, <3>1 DEF MainRight, FailureNotMissed, ProcInv
    <2>4. InPrograms' /\ Contexts' /\ SinksStopLast'
        BY <1>1, <2>1, RestartFrame DEF ProcInv, InPrograms
    <2>5. ProcTypeOK' /\ LoneRestartNoPanic'
        BY <1>1, <2>1 DEF ProcInv, ProcTypeOK, LoneRestartNoPanic, Running, ctxVars
    <2> QED BY <1>1, <2>2, <2>3, <2>4, <2>5 DEF ProcInv
<1>4. CASE AgentStartFails
    <2>1. started /\ started' = started /\ err' = "main" /\ Then(Main, <<>>)
        BY <1>4 DEF AgentStartFails, Done
    <2>2. isReady /\ failures \cap MustSucceed = {}
        BY <2>1 DEF ProcInv, FailureNotMissed
    <2>3. i > 21
        BY <1>2, <2>2 DEF MainAt
    <2>4. /\ failures' \subseteq {MainProgram[k].of : k \in 1..Len(MainProgram)}
          /\ (isReady' <=> i + 1 > 21) /\ failures' \cap MustSucceed = {}
        BY <1>1, <2>2, <2>3 DEF ProcInv, ProcTypeOK
    <2> QED BY <1>1, <1>2, <2>1, <2>2, <2>4, MainGoesOn
<1> QED BY <1>3, <1>4

\* os.Exit: nothing happens afterwards.
LEMMA ExitKeeps ==
    ASSUME ProcInv, NEW g \in Goroutines, Exit(g)
    PROVE  ProcInv'
<1>1. /\ Running /\ todo[g] # <<>> /\ Head(todo[g]).do = "exit" /\ ended' = Head(todo[g]).of
      /\ Then(g, <<>>) /\ UNCHANGED mainVars /\ UNCHANGED ctxVars /\ InPrograms
    BY DEF Exit, Next, Done, ProcInv
<1>2. ended' \in {"failed", "restarted"}
    BY <1>1, HeadIsOp
<1>3. UNCHANGED <<err, failures, isReady, started, cancel, cancelled>>
    BY <1>1 DEF mainVars, ctxVars
<1>4. LoneRestartNoPanic'
    BY <1>2 DEF LoneRestartNoPanic
<1>5. todo' = [todo EXCEPT ![g] = Tail(todo[g])] /\ Tail(todo[g]) \in Seq(Ops)
    BY <1>1, DoneMoves, HeadIsOp
<1>6. CASE g \in Restarts
    <2>1. PICK i \in 1..8 :
             /\ i = At(g) /\ Head(todo[g]) = RestartProgram[i]
             /\ Tail(todo[g]) = From(RestartProgram, i + 1)
        BY <1>1, <1>6, RestartIs
    <2>2. i = 8
        BY <1>1, <2>1, RestartDoes
    <2>3. i + 1 \in 1..9 /\ i + 1 > At(g)
        BY <2>1
    <2>4. "sources" \in cancelled /\ "sinks" \in cancelled
        <3>1. (At(g) >= 4 => "sources" \in cancelled) /\ (At(g) >= 7 => "sinks" \in cancelled)
            BY <1>6 DEF ProcInv, Contexts
        <3>2. At(g) = 8
            BY <2>1, <2>2
        <3> QED BY <3>1, <3>2
    <2>5. SinksStopLast' /\ cancel' \cup cancelled' = {"sources", "sinks"}
        BY <1>3 DEF ProcInv, SinksStopLast, ProcTypeOK
    <2> QED BY <1>1, <1>2, <1>3, <1>4, <1>5, <1>6, <2>1, <2>3, <2>4, <2>5, RestartMoves
<1>7. CASE g \in {Main, Probes}
    <2>1. todo' \in [Goroutines -> Seq(Ops)] /\ \A r \in Restarts : todo'[r] = todo[r]
        BY <1>1, <1>5, <1>7, OneMoves
    <2>2. InPrograms' /\ Contexts' /\ SinksStopLast'
        BY <1>1, <2>1, RestartFrame
    <2>3. MainRight' /\ FailureNotMissed' /\ (started' => isReady')
        BY <1>2, <1>3 DEF MainRight, Running, FailureNotMissed, ProcInv
    <2>4. ProcTypeOK'
        BY <1>2, <1>3 DEF ProcInv, ProcTypeOK
    <2> QED BY <1>4, <2>2, <2>3, <2>4 DEF ProcInv
<1> QED BY <1>6, <1>7 DEF Goroutines

------------------------------------------------------------------------------
LEMMA ProcInvInit == ProcInit => ProcInv
<1> SUFFICES ASSUME ProcInit PROVE ProcInv
    OBVIOUS
<1> USE GoroutinesAssumption
<1>1. /\ RestartProgram \in Seq(Ops) /\ Len(RestartProgram) = 8
      /\ MainProgram \in Seq(Ops) /\ Len(MainProgram) = 23 /\ ProbesProgram \in Seq(Ops)
    BY RestartOps, MainOps, ProbesOps
<1>2. todo \in [Goroutines -> Seq(Ops)]
    BY <1>1 DEF ProcInit
<1>3. todo[Main] = MainProgram /\ \A r \in Restarts : todo[r] = RestartProgram
    BY DEF ProcInit, Goroutines
<1>4. From(RestartProgram, 1) = RestartProgram /\ From(MainProgram, 1) = MainProgram
    BY <1>1, SubSeqFull DEF From
<1>5. \A r \in Restarts : At(r) = 1
    <2>1. \A r \in Restarts : Len(todo[r]) = 8
        BY <1>1, <1>3
    <2>2. 9 - 8 = 1
        OBVIOUS
    <2> QED BY <2>1, <2>2 DEF At
<1>6. InPrograms
    BY <1>2, <1>3, <1>4, <1>5 DEF InPrograms
<1>7. Contexts /\ SinksStopLast
    BY <1>5 DEF Contexts, SinksStopLast, ProcInit
<1>8. MainRight
    <2>1. MainAt(1)
        BY <1>3, <1>4 DEF MainAt, ProcInit
    <2> QED BY <2>1 DEF MainRight
<1>9. ProcTypeOK /\ LoneRestartNoPanic /\ FailureNotMissed /\ (started => isReady)
    BY DEF ProcTypeOK, LoneRestartNoPanic, FailureNotMissed, ProcInit
<1> QED BY <1>6, <1>7, <1>8, <1>9 DEF ProcInv

LEMMA ProcInvStep == ProcInv /\ [ProcNext]_procVars => ProcInv'
<1> SUFFICES ASSUME ProcInv, [ProcNext]_procVars PROVE ProcInv'
    OBVIOUS
<1>1. CASE UNCHANGED procVars
    <2>1. UNCHANGED <<todo, err, failures, isReady, started, cancel, cancelled, ended>>
        BY <1>1 DEF procVars, mainVars, ctxVars
    <2>2. MainRight' /\ FailureNotMissed' /\ (started' => isReady')
        BY <2>1, MainFrame DEF Running
    <2>3. InPrograms' /\ Contexts' /\ SinksStopLast'
        BY <2>1, RestartFrame DEF ProcInv, InPrograms, ctxVars
    <2>4. ProcTypeOK' /\ LoneRestartNoPanic'
        BY <2>1 DEF ProcInv, ProcTypeOK, LoneRestartNoPanic, Begun
    <2> QED BY <2>2, <2>3, <2>4 DEF ProcInv
<1>2. CASE \E g \in Goroutines : Exit(g)
    BY <1>2, ExitKeeps
<1>3. CASE MainStep \/ AgentStartFails
    BY <1>3, CallReturnsKeeps, MainChecksKeep, MainEnds, StartKeeps DEF MainStep
<1>4. CASE ServeFails \/ ProbesErr \/ ProbesCheck
    BY <1>4, ProbesKeeps
<1>5. ASSUME NEW r \in Restarts, RestartPacket(r) \/ RestartStep(r) PROVE ProcInv'
    BY <1>5, RestartGoesOn, StopCancelKeeps, StopClearKeeps DEF RestartStep
<1> QED BY <1>1, <1>2, <1>3, <1>4, <1>5 DEF ProcNext

LEMMA ProcInvAlways == ProcSpec => []ProcInv
BY ProcInvInit, ProcInvStep, PTL DEF ProcSpec

\* The variables keep their types, and a cancel function that is nil was called,
\* however many restarts go through stopSources and stopSinks at a time.
THEOREM ProcTypeCorrect == ProcSpec => []ProcTypeOK
<1>1. ProcInv => ProcTypeOK
    BY DEF ProcInv
<1> QED BY <1>1, ProcInvAlways, PTL

\* The agent is ready only when no call that main must not survive has failed,
\* whenever the probes goroutine writes to the err of main.
THEOREM FailureNeverMissed == ProcSpec => []FailureNotMissed
<1>1. ProcInv => FailureNotMissed
    BY DEF ProcInv
<1> QED BY <1>1, ProcInvAlways, PTL

\* A restart alone never calls a nil cancel function: a panic takes two, or a nil
\* client of main.
THEOREM LoneRestartNeverPanics == ProcSpec => []LoneRestartNoPanic
<1>1. ProcInv => LoneRestartNoPanic
    BY DEF ProcInv
<1> QED BY <1>1, ProcInvAlways, PTL

\* The sinks are cancelled only after the sources, for any number of restarts.
THEOREM SinksAlwaysStopLast == ProcSpec => []SinksStopLast
<1>1. ProcInv => SinksStopLast
    BY DEF ProcInv
<1> QED BY <1>1, ProcInvAlways, PTL
=============================================================================
