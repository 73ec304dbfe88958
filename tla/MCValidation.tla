---------------------------- MODULE MCValidation ----------------------------
(***************************************************************************)
(* How blocks are made and what makes them valid, side by side for one     *)
(* model checking run: the trees of commitments and of transactions, the   *)
(* script interpreter, Equihash, the chain of headers, the choice of a     *)
(* block's transactions, the miner threads and getblocktemplate's long     *)
(* polls.  sel, chosen at the start, says which one a behaviour is about,  *)
(* and the variables of the others are Off.                                *)
(***************************************************************************)
EXTENDS Integers, FiniteSets, Sequences, TLC

CONSTANTS
    TreeWorlds, Lists, Bad,
    Base, nMaxNumSize, MaxSmall, MaxOps, MaxStack, LOCKTIME_THRESHOLD, Signs, StrictDER, LowS, DefinedHashtype,
    CanonicalKeys, Redeem, ScriptWorlds,
    ByteBits, WordBits, TruncBits, HashWorlds,
    Width, powLimit, nPowAveragingWindow, nPowMaxAdjustDown, nPowMaxAdjustUp, nPowTargetSpacing, nMedianTimeSpan,
    DenseLocator, MaxFuture, HeaderWorlds,
    PoolWorlds, MAX_BLOCK_SIGOPS, MAX_BLOCK_SIZE, HeaderSize, CoinbaseSigOps, Kilo, FreeThreshold, minRelayTxFee,
    Subsidy,
    Threads, MaxBlocks, MaxTips, MaxUpdates,
    Off

VARIABLES
    sel,
    limits, tree, witnesses, count,
    vtx, message, proved,
    input, scriptSig, scriptPubKey, first, machine, before,
    eh, H,
    hw, index, bestHeader, vChain,
    pw, vecPriority, setDependsOn, chosen, nBlockSize, nBlockSigOps, nFees, fSortedByFee, coinbase,
    tip, signals, peers, miner, cancelSolver,
    nUpdated, cached, poll, fRPCRunning

Tree     == INSTANCE CommitmentTree WITH None <- Off
Merkle   == INSTANCE BlockMerkle
Scripts  == INSTANCE Script
Hash     == INSTANCE Equihash
Headers  == INSTANCE HeaderChain WITH Null <- Off
Assembly == INSTANCE BlockAssembly WITH vtx <- chosen
Mine     == INSTANCE Mining WITH Miners <- Threads, m <- miner
Polling  == INSTANCE LongPoll WITH Pollers <- Threads, Null <- Off

treeVars     == <<limits, tree, witnesses, count>>
merkleVars   == <<vtx, message, proved>>
scriptVars   == <<input, scriptSig, scriptPubKey, first, machine, before>>
hashVars     == <<eh, H>>
headerVars   == <<hw, index, bestHeader, vChain>>
assemblyVars == <<pw, vecPriority, setDependsOn, chosen, nBlockSize, nBlockSigOps, nFees, fSortedByFee, coinbase>>
mineVars     == <<signals, peers, miner, cancelSolver>>
pollVars     == <<nUpdated, cached, poll, fRPCRunning>>
validationVars == <<sel, treeVars, merkleVars, scriptVars, hashVars, headerVars, assemblyVars, tip, mineVars, pollVars>>

TreeOff     == limits = Off /\ tree = Off /\ witnesses = Off /\ count = Off
MerkleOff   == vtx = Off /\ message = Off /\ proved = Off
ScriptOff   ==
    input = Off /\ scriptSig = Off /\ scriptPubKey = Off /\ first = Off /\ machine = Off /\ before = Off
HashOff     == eh = Off /\ H = Off
HeaderOff   == hw = Off /\ index = Off /\ bestHeader = Off /\ vChain = Off
AssemblyOff ==
    /\ pw = Off /\ vecPriority = Off /\ setDependsOn = Off /\ chosen = Off /\ nBlockSize = Off /\ nBlockSigOps = Off
    /\ nFees = Off /\ fSortedByFee = Off /\ coinbase = Off
MineOff     == signals = Off /\ peers = Off /\ miner = Off /\ cancelSolver = Off
PollOff     == nUpdated = Off /\ cached = Off /\ poll = Off /\ fRPCRunning = Off

Init ==
    /\ sel \in {"tree", "merkle", "script", "hash", "header", "assembly", "mine", "poll"}
    /\ IF sel = "tree"     THEN Tree!Init     ELSE TreeOff
    /\ IF sel = "merkle"   THEN Merkle!Init   ELSE MerkleOff
    /\ IF sel = "script"   THEN Scripts!Init  ELSE ScriptOff
    /\ IF sel = "hash"     THEN Hash!Init     ELSE HashOff
    /\ IF sel = "header"   THEN Headers!Init  ELSE HeaderOff
    /\ IF sel = "assembly" THEN Assembly!Init ELSE AssemblyOff
    /\ IF sel = "mine"     THEN Mine!Init     ELSE MineOff
    /\ IF sel = "poll"     THEN Polling!Init  ELSE PollOff
    /\ sel \notin {"mine", "poll"} => tip = Off

\* What a step of one component leaves alone.
Only(own) ==
    /\ UNCHANGED sel
    /\ own # "tree"     => UNCHANGED treeVars
    /\ own # "merkle"   => UNCHANGED merkleVars
    /\ own # "script"   => UNCHANGED scriptVars
    /\ own # "hash"     => UNCHANGED hashVars
    /\ own # "header"   => UNCHANGED headerVars
    /\ own # "assembly" => UNCHANGED assemblyVars
    /\ own # "mine"     => UNCHANGED mineVars
    /\ own # "poll"     => UNCHANGED pollVars
    /\ own \notin {"mine", "poll"} => UNCHANGED tip

Next ==
    \/ sel = "tree"     /\ Tree!Next     /\ Only("tree")
    \/ sel = "merkle"   /\ Merkle!Next   /\ Only("merkle")
    \/ sel = "script"   /\ Scripts!Next  /\ Only("script")
    \/ sel = "hash"     /\ Hash!Next     /\ Only("hash")
    \/ sel = "header"   /\ Headers!Next  /\ Only("header")
    \/ sel = "assembly" /\ Assembly!Next /\ Only("assembly")
    \/ sel = "mine"     /\ Mine!Next     /\ Only("mine")
    \/ sel = "poll"     /\ Polling!Next  /\ Only("poll")

\* The fairness of the two specifications that have one.
ThreadStep(t) ==
    \/ sel = "mine" /\ Mine!MinerStep(t) /\ Only("mine")
    \/ sel = "poll" /\ Polling!PollStep(t) /\ Only("poll")
SignalStep == sel = "mine" /\ (\E b \in signals : Mine!NotifyBlockTip(b)) /\ Only("mine")

Spec ==
    /\ Init /\ [][Next]_validationVars
    /\ WF_validationVars(SignalStep) /\ \A t \in Threads : WF_validationVars(ThreadStep(t))

-----------------------------------------------------------------------------
(* The properties are those of the modules.                                *)

\* The note commitment tree, its witnesses, a block's Merkle root and the partial trees for light clients
\* prove what they are made for, and nothing else.
TreesProve ==
    /\ sel = "tree" => Tree!WitnessesAuthenticate
    /\ sel = "merkle" => Merkle!RootsBindTransactions /\ Merkle!PartialTreesProve

\* EvalScript does what a script says, and a verification flag only ever rejects.
ScriptsMeanWhatTheySay ==
    sel = "script" =>
        /\ Scripts!ScriptsAreStructured /\ Scripts!StacksAreAsPictured
        /\ Scripts!MultisigIsMatching /\ Scripts!FlagsOnlyReject

\* The solvers of Equihash find what the check accepts, and headers find their ancestors, demand the work
\* they should and have a median time that advances.
ProofOfWorkIsSound ==
    /\ sel = "hash" => Hash!SolversFindTheSolutions /\ Hash!ChecksAcceptTheSolutions
    /\ sel = "header" => Headers!AncestorsAreFound /\ Headers!RequiredWorkIsSound /\ Headers!MedianTimeAdvances

\* A new block is valid and leaves nothing out without a reason; a miner whose block is stale is told, and
\* getblocktemplate keeps no template that is not over the block it says.
TemplatesAreSound ==
    /\ sel = "assembly" => Assembly!TemplateIsValid /\ Assembly!LeftOutForAReason
    /\ sel = "mine" => Mine!StaleWorkIsCancelled
    /\ sel = "poll" => Polling!TemplatesAreCurrent

\* A miner that works on a stale block or is interrupted, a long poll over an old tip.
Behind(t) ==
    \/ sel = "mine" /\ (miner[t].stop \/ (miner[t].pc = "solve" /\ miner[t].prev # tip))
    \/ sel = "poll" /\ poll[t].pc # "idle" /\ poll[t].watched # tip

\* Miners leave a stale block and end when they are interrupted, and a long poll is answered when the tip
\* moves, although its notification may be missed.
MinersKeepUp == \A t \in Threads : Behind(t) ~> ~Behind(t)

-----------------------------------------------------------------------------
(* Values for the constants of Validation.                                 *)

-----------------------------------------------------------------------------
(* CommitmentTree, BlockMerkle: trees of up to 2^4 leaves; all short lists  *)
(* of two transactions, lists without repetition, and lists whose end is   *)
(* repeated the way the tree repeats it.                                   *)

MCTreeWorlds ==
    {[depth |-> 3, witnesses |-> 2, reloads |-> 1], [depth |-> 4, witnesses |-> 1, reloads |-> 1],
     [depth |-> 1, witnesses |-> 2, reloads |-> 1]}
MCLists ==
    (UNION {[1..n -> 1..2] : n \in 1..5}) \cup {[i \in 1..n |-> i] : n \in 1..7}
        \cup {<<1, 2, 3, 4, 5, 6, 5, 6>>, <<1, 2, 3, 4, 5, 5>>, <<1, 2, 3, 3>>}

-----------------------------------------------------------------------------
(* Script: bytes have two bits.  Three keys and their signatures, with all *)
(* encodings right, a high S, and a hash type that is not defined.         *)

Push(e) == [op |-> "push", data |-> e, how |-> IF e = <<>> THEN "OP_0" ELSE "direct"]
LongPush(e) == [op |-> "push", data |-> e, how |-> "PUSHDATA"]
N(n) == [op |-> "OP_N", data |-> n]
Op(x) == [op |-> x]
Ops(S) == {Op(x) : x \in S}
Pushes(S) == {Push(e) : e \in S}

k1 == <<9, 1>>
k2 == <<9, 2>>
k3 == <<8, 3>>
s1 == <<7, 1>>
s2 == <<7, 2>>
s3 == <<6, 3>>
sx == <<5, 3>>
MCSigns == {<<s1, k1>>, <<s2, k2>>, <<s3, k3>>}
MCStrictDER == {s1, s2, s3}
MCLowS == {s1, s3}
MCDefinedHashtype == {s1, s2}
MCCanonicalKeys == {k1, k2}

r1 == <<3, 1>>
r2 == <<3, 2>>
MCRedeem ==
    (<<>> :> <<>>) @@ (r1 :> <<Push(k1), Op("OP_CHECKSIG")>>)
        @@ (r2 :> <<N(1), Push(k3), Push(k2), N(2), Op("OP_CHECKMULTISIG")>>)

ScriptWorld(sig, pub, flags) == [sig |-> sig, pub |-> pub, flags |-> flags, tx |-> [nLockTime |-> 3, final |-> FALSE]]
StackOps ==
    {"OP_2DROP", "OP_2DUP", "OP_3DUP", "OP_2OVER", "OP_2ROT", "OP_2SWAP", "OP_DROP", "OP_DUP", "OP_NIP", "OP_OVER",
     "OP_ROT", "OP_SWAP", "OP_TUCK"}
Hash160(e) == <<Base + 4>> \o e    \* the fourth of HashOps

\* Numbers; conditionals; the stack; signatures; redeem scripts; lock times.
MCScriptWorlds ==
    {ScriptWorld(<<Pushes(UNION {[1..n -> 0..3] : n \in 0..3})>>, <<Ops({"OP_NOP", "OP_1ADD", "OP_NEGATE", "OP_ABS"})>>,
                 {"MINIMALDATA"}),
     ScriptWorld(<<Pushes({<<>>, <<1>>, <<2>>}), Pushes({<<>>, <<1>>})>>,
                 [i \in 1..5 |-> IF i = 1 THEN Ops({"OP_IF", "OP_NOTIF", "OP_ELSE", "OP_RETURN"})
                                 ELSE Ops({"OP_IF", "OP_ELSE", "OP_ENDIF", "OP_CAT"}) \cup {N(1)}],
                 {}),
     ScriptWorld([i \in 1..6 |-> {N(i)}],
                 <<{Push(<<>>), N(1), N(2)} \cup Ops(StackOps \cup {"OP_TOALTSTACK", "OP_IFDUP", "OP_DEPTH", "OP_SIZE"}),
                   Ops(StackOps \cup {"OP_PICK", "OP_ROLL", "OP_FROMALTSTACK"})>>, {}),
     ScriptWorld(<<Pushes({<<>>, <<1>>}), Pushes({s1, s2, s3, sx}), Pushes({s1, s2})>>,
                 <<{N(1), N(2)}, Pushes({k1, k2, k3}), Pushes({k1, k2, k3}), {N(2), Push(k2)},
                   {N(3), Op("OP_CHECKMULTISIG")}, Ops({"OP_CHECKMULTISIG", "OP_CHECKMULTISIGVERIFY"})>>,
                 {"LOW_S", "STRICTENC", "NULLDUMMY"}),
     ScriptWorld(<<{Push(<<>>), Push(s1), Op("OP_NOP")}, {Push(s1), Push(s2), Push(s3), N(1), LongPush(s1)},
                   {Push(r1), Push(r2), Push(<<>>), LongPush(r1)}>>,
                 <<Ops({"OP_HASH160", "OP_HASH256"}), Pushes({Hash160(r) : r \in {r1, r2, <<>>}}),
                   Ops({"OP_EQUAL"})>>,
                 {"P2SH", "CLEANSTACK", "SIGPUSHONLY", "STRICTENC", "MINIMALDATA", "NULLDUMMY"}),
     ScriptWorld(<<{N(-1), N(1), N(3), N(4), LongPush(<<1>>), Push(<<1, 0>>)}>>,
                 <<Ops({"OP_CHECKLOCKTIMEVERIFY", "OP_NOP1", "OP_NOP"}), Ops({"OP_VERIFY", "OP_SIZE"}), {N(1)}>>,
                 {"CHECKLOCKTIMEVERIFY", "DISCOURAGE_UPGRADABLE_NOPS", "MINIMALDATA", "P2SH", "CLEANSTACK"})}

-----------------------------------------------------------------------------
(* Equihash: hashes that collide often, so that there are solutions.       *)

MCHashWorlds ==
    {[K |-> 2, CollisionBitLength |-> 2,
      choices |-> [i \in 0..7 |-> CASE i \in {0, 4} -> {<<0, 1, 1>>}
                                    [] i = 1 -> {<<0, 1, 3>>, <<1, 2, 1>>}
                                    [] i \in {2, 5} -> {<<0, 2, 3>>, <<1, 0, 1>>}
                                    [] OTHER -> {<<0, 2, 3>>, <<1, 0, 1>>, <<1, 2, 3>>}]],
     [K |-> 3, CollisionBitLength |-> 2,
      choices |-> [i \in 0..7 |-> IF i < 2 THEN {<<0, 1, 1, 1>>} ELSE IF i < 4 THEN {<<1, 2, 1, 1>>}
                                  ELSE {<<2, 1, 0, 1>>, <<2, 1, 1, 1>>}]]}

-----------------------------------------------------------------------------
(* HeaderChain: times that jump forwards and back, long chains, wide       *)
(* trees, a checkpoint.                                                    *)

HeaderWorld(steps, spread, n, checkpoint, tips) ==
    [steps |-> steps, spread |-> spread, n |-> n, checkpoint |-> checkpoint, tips |-> tips]
MCHeaderWorlds ==
    {HeaderWorld({-1, 1, 3, 8}, 1, 7, 0, FALSE), HeaderWorld({1, 20}, 1, 11, 0, FALSE),
     HeaderWorld({3}, 4, 6, 0, TRUE), HeaderWorld({3}, 2, 10, 3, TRUE)}

-----------------------------------------------------------------------------
(* BlockAssembly: two transactions, a child of both and a child of one,    *)
(* with fees, sizes, sigops and deltas that decide what goes in.           *)

Tx(vin, vout, size, sigops, p2sh) ==
    [vin |-> vin, js |-> 0, vout |-> vout, size |-> size, sigops |-> sigops, p2sh |-> p2sh, feeDelta |-> 0,
     prioDelta |-> 0, final |-> TRUE, valid |-> TRUE]
PoolCoins ==
    (<<"c", 1>> :> [nValue |-> 8, nConf |-> 1]) @@ (<<"c", 2>> :> [nValue |-> 12, nConf |-> 2])
        @@ (<<"c", 3>> :> [nValue |-> 6, nConf |-> 0])
Pools ==
    {("a" :> Tx({<<"c", 1>>}, <<4, 2>>, 2, 1, p1))
        @@ ("b" :> [Tx({<<"c", 2>>}, <<12 - fee>>, size, 1, 0) EXCEPT !.valid = ok])
        @@ ("d" :> [Tx({<<"a", 1>>, <<"b", 1>>}, <<2>>, 2, 0, p2) EXCEPT !.feeDelta = delta, !.js = 1])
        @@ ("e" :> [Tx({<<"c", 3>>, <<"a", 2>>}, <<7>>, 1, 1, 1) EXCEPT !.final = ok \/ fee = 0, !.prioDelta = delta]) :
        fee \in {0, 2}, p1 \in {0, 1}, size \in {1, 3}, ok \in BOOLEAN, delta \in {0, 3}, p2 \in {0, 2}}
MCPoolWorlds ==
    {[pool |-> p, coins |-> PoolCoins, nBlockMaxSize |-> o[1], nBlockPrioritySize |-> o[2], nBlockMinSize |-> o[3]] :
        p \in Pools, o \in {<<9, 0, 0>>, <<6, 4, 3>>, <<8, 5, 9>>, <<20, 20, 4>>}}
=============================================================================
