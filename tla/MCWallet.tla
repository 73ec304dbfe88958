------------------------------ MODULE MCWallet ------------------------------
(***************************************************************************)
(* The parts of the wallet side by side, for one model checking run:       *)
(* NoteWitness, the two machines of WalletKeys, and SendMany.  sel, chosen  *)
(* at the start, says which one a behaviour is about.  The variables of     *)
(* WalletKeys stay as they are at first in the behaviours of the others,    *)
(* and those of the others are Off.                                         *)
(***************************************************************************)
EXTENDS WalletKeys, Naturals, FiniteSets, Sequences, SequencesExt

CONSTANTS
    Worlds, Notes, Mine, WITNESS_CACHE_SIZE,
    Payments, dustThreshold, ZC_NUM_JS_INPUTS, ZC_NUM_JS_OUTPUTS,
    Off

ASSUME WalletAssumption == KeysAssumption /\ UnlockAssumption

VARIABLES
    sel,
    world, chain, goal, noteData, node, chainDisk, walletDisk,
    payment, pay, tx, zIn, zOut, jsChange, previousCommitments

Witness == INSTANCE NoteWitness WITH wallet <- noteData, up <- node
Many    == INSTANCE SendMany WITH pc <- payment

witnessVars == <<world, chain, goal, noteData, node, chainDisk, walletDisk>>
payVars     == <<payment, pay, tx, zIn, zOut, jsChange, previousCommitments>>
walletVars  == <<sel, witnessVars, vars, unlockVars, payVars>>

WitnessOff ==
    /\ world = Off /\ chain = Off /\ goal = Off /\ noteData = Off /\ node = Off /\ chainDisk = Off
    /\ walletDisk = Off
UnlockOff == UnlockInit /\ changes = CHOOSE c \in MayChange : TRUE
ManyOff ==
    /\ payment = Off /\ pay = Off /\ tx = Off /\ zIn = Off /\ zOut = Off /\ jsChange = Off
    /\ previousCommitments = Off

WalletInit ==
    /\ Init
    /\ \/ sel = "witness" /\ Witness!Init /\ UnlockOff /\ ManyOff
       \/ sel = "keys" /\ WitnessOff /\ UnlockOff /\ ManyOff
       \/ sel = "unlock" /\ UnlockInit /\ WitnessOff /\ ManyOff
       \/ sel = "pay" /\ Many!Init /\ WitnessOff /\ UnlockOff

WalletNext ==
    \/ sel = "witness" /\ Witness!Next /\ UNCHANGED <<sel, vars, unlockVars, payVars>>
    \/ sel = "keys" /\ Next /\ UNCHANGED <<sel, witnessVars, unlockVars, payVars>>
    \/ sel = "unlock" /\ UnlockNext /\ UNCHANGED <<sel, witnessVars, vars, payVars>>
    \/ sel = "pay" /\ Many!Next /\ UNCHANGED <<sel, witnessVars, vars, unlockVars>>

WalletSpec == WalletInit /\ [][WalletNext]_walletVars

\* The note witnesses alone.
WitnessSpec == (WalletInit /\ sel = "witness") /\ [][WalletNext]_walletVars

-----------------------------------------------------------------------------
(* The properties are those of the modules; KeysAreSafe and                *)
(* UnlockedIsTimed are those of WalletKeys.                                *)

\* No assertion fails, the cached witnesses are those of the chain, and every note of the wallet
\* in the chain can be spent.
WitnessesMatchChain ==
    sel = "witness" => Witness!AssertionsHold /\ Witness!WitnessesMatchChain /\ Witness!NotesHaveWitnesses
\* What the comment on nWitnessCacheSize in IncrementNoteWitnesses says: connecting blocks again after
\* a crash leaves the cached witnesses right.
ReconnectingKeepsWitnesses == sel = "witness" => Witness!WitnessesMatchChain
\* The JoinSplits of a payment are valid, everybody gets the right amount, and a payment that can be
\* made is made.
PaymentIsExact == sel = "pay" => Many!JoinSplitsAreValid /\ Many!PaymentIsExact /\ Many!AffordablePaymentsSucceed

-----------------------------------------------------------------------------
(* Values for the constants of Wallet.                                     *)

-----------------------------------------------------------------------------
(* NoteWitness: trees of blocks.  n and m are notes of the wallet, the     *)
(* others are not.                                                         *)

Line == {<<"a1", "a2", "a3", "a4">>}
Fork == {<<"a1", "a2", "a3">>, <<"a1", "b2", "b3", "b4">>}
NotesOf == [a1 |-> <<"x", "n">>, a2 |-> <<"m">>, a3 |-> <<"y">>, a4 |-> <<"p">>,
            b2 |-> <<"z">>, b3 |-> <<"m", "y">>, b4 |-> <<"p">>]
Ours == {"n", "m"}

\* One chain and any restart; a reorganisation and restarts that rescan everything.
Sound == {[branches |-> Line, restarts |-> {"plain", "rescan"}],
          [branches |-> Fork, restarts |-> {"rescan"}]}

\* A reorganisation and plain restarts.
ForkAndRestart == {[branches |-> Fork, restarts |-> {"plain"}]}

-----------------------------------------------------------------------------
(* SendMany: up to four notes or two UTXOs, up to three shielded and one   *)
(* transparent recipient, a fee of one.                                    *)

Falling(s) == \A i \in 1..Len(s) - 1 : s[i] >= s[i + 1]
NotesFor(s) == [i \in 1..Len(s) |-> [value |-> s[i], note |-> <<0, i>>]]
UtxosFor(s) == [i \in 1..Len(s) |-> [value |-> s[i][1], coinbase |-> s[i][2]]]
Due(names, s) == [i \in 1..Len(s) |-> [to |-> names[i], value |-> s[i]]]

PaymentsFrom(from, coins, amounts) ==
    {[from |-> from, coins |-> c, touts |-> Due(<<"t1">>, t), zouts |-> Due(<<"z1", "z2", "z3">>, z),
      fee |-> 1] : c \in coins, t \in {<<>>, <<2>>}, z \in SeqOf(amounts, 3)}

\* Six notes: a chain of JoinSplits that ends, and another one.
SomePayments ==
    {p \in PaymentsFrom("z", {NotesFor(s) : s \in {x \in SeqOf({1, 2, 4}, 4) : Falling(x)}}, {0, 1, 3})
           \cup PaymentsFrom("z", {NotesFor(<<1, 1, 1, 1, 1, 1>>)}, {1, 2})
           \cup PaymentsFrom("t", {UtxosFor(s) : s \in SeqOf({1, 3} \X BOOLEAN, 2)}, {0, 1, 3})
        : p.touts # <<>> \/ p.zouts # <<>>}
=============================================================================
