------------------------------- MODULE Script -------------------------------
(***************************************************************************)
(* The script interpreter (script/interpreter.cpp): EvalScript's stack     *)
(* machine with its conditionals, numbers and signature checks, and        *)
(* VerifyScript with pay-to-script-hash and the verification flags.        *)
(*                                                                         *)
(* A byte is a digit below Base (256 in the code), a stack element a       *)
(* sequence of bytes.  A hash is its argument behind a byte of its own.    *)
(* Keys and signatures are elements too: which signature is one of which   *)
(* key, and which encodings are strict, are constants.  A serialised       *)
(* redeem script is an element that Redeem maps to its operations.  An     *)
(* operation is [op, data, how]: how says which form of push puts the data *)
(* there (OP_0, one byte of length, or a PUSHDATA).  The limits are        *)
(* constants.                                                              *)
(***************************************************************************)
EXTENDS Integers, Sequences, FiniteSets, FiniteSetsExt, SequencesExt

CONSTANTS
    Base,               \* of a byte: 256
    nMaxNumSize,        \* bytes of a number an operation may take: 4
    MaxSmall,           \* OP_1 .. OP_16 push the numbers up to it: 16
    MaxOps, MaxStack,   \* 201 and 1000
    LOCKTIME_THRESHOLD,
    Signs,              \* pairs <<signature, key>> that verify
    StrictDER, LowS, DefinedHashtype, CanonicalKeys, \* the elements with these encodings
    Redeem,             \* element -> script: what it is as a serialised script
    ScriptWorlds        \* [sig, pub |-> sequences of sets: the operations each place chooses from,
                        \*  flags |-> the flags that may be set, tx |-> [nLockTime, final]]

VARIABLES
    input,      \* the world chosen
    scriptSig, scriptPubKey, \* the operations so far
    first,      \* set of flags -> the machine when scriptSig has ended; <<>> before
    machine,    \* set of flags -> the machine of the script being run
    before      \* the machine without flags before its last operation

vars == <<input, scriptSig, scriptPubKey, first, machine, before>>

SignBit == Base \div 2
vchFalse == <<>>
vchTrue  == <<1>>
Bool(b)  == IF b THEN vchTrue ELSE vchFalse

-----------------------------------------------------------------------------
(* CScriptNum (script/script.h) and CastToBool.                            *)

CastToBool(e) == \E i \in DOMAIN e : e[i] # 0 /\ ~(i = Len(e) /\ e[i] = SignBit)

RECURSIVE Digits(_)
Digits(n) == IF n = 0 THEN <<>> ELSE <<n % Base>> \o Digits(n \div Base)

serialize(n) ==
    LET abs == Digits(IF n < 0 THEN -n ELSE n)
        top == abs[Len(abs)]
    IN IF n = 0 THEN <<>>
       ELSE IF top >= SignBit THEN Append(abs, IF n < 0 THEN SignBit ELSE 0)
       ELSE IF n < 0 THEN [abs EXCEPT ![Len(abs)] = top + SignBit]
       ELSE abs

RECURSIVE Value(_)
Value(e) == IF e = <<>> THEN 0 ELSE Head(e) + Base * Value(Tail(e))

set_vch(e) ==
    IF e = <<>> THEN 0
    ELSE LET top == e[Len(e)]
         IN IF top >= SignBit THEN -Value([e EXCEPT ![Len(e)] = top - SignBit]) ELSE Value(e)

\* The constructor throws unless this holds.
NumOK(e, fRequireMinimal, size) ==
    /\ Len(e) <= size
    /\ fRequireMinimal /\ e # <<>> /\ e[Len(e)] % SignBit = 0 =>
          Len(e) > 1 /\ e[Len(e) - 1] >= SignBit

-----------------------------------------------------------------------------
(* The machine: s is [stack, alt, vfExec, nOpCount, err].                  *)

Start(stack) == [stack |-> stack, alt |-> <<>>, vfExec |-> <<>>, nOpCount |-> 0, err |-> "OK"]
Fail(s, e)   == [s EXCEPT !.err = e]

\* stacktop(-i), and the stack without its i topmost elements.
top(s, i)  == s.stack[Len(s.stack) + 1 - i]
Below(s, i) == SubSeq(s.stack, 1, Len(s.stack) - i)
Tops(s, i) == SubSeq(s.stack, Len(s.stack) + 1 - i, Len(s.stack))
Has(s, n)  == Len(s.stack) >= n
Push(s, e) == [s EXCEPT !.stack = Append(@, e)]
Replace(s, n, es) == [s EXCEPT !.stack = Below(s, n) \o es]

Conditionals == {"OP_IF", "OP_NOTIF", "OP_VERIF", "OP_VERNOTIF", "OP_ELSE", "OP_ENDIF"}
Disabled     == {"OP_CAT", "OP_CODESEPARATOR"}
Pushes       == {"push", "OP_N", "OP_RESERVED"}   \* the operations up to OP_16
Nops         == {"OP_NOP1", "OP_NOP3"}
fExec(s)     == \A i \in DOMAIN s.vfExec : s.vfExec[i]

\* Mutant: a conditional in a branch that is not executed is not counted.
OpIfSkipped(s, o) ==
    IF ~fExec(s) THEN s
    ELSE IF ~Has(s, 1) THEN Fail(s, "UNBALANCED_CONDITIONAL")
    ELSE [Replace(s, 1, <<>>) EXCEPT !.vfExec = Append(@, CastToBool(top(s, 1)) = (o.op = "OP_IF"))]

OpIf(s, o) ==
    IF ~fExec(s) THEN [s EXCEPT !.vfExec = Append(@, FALSE)]
    ELSE IF ~Has(s, 1) THEN Fail(s, "UNBALANCED_CONDITIONAL")
    ELSE [Replace(s, 1, <<>>) EXCEPT !.vfExec = Append(@, CastToBool(top(s, 1)) = (o.op = "OP_IF"))]

OpElse(s) ==
    IF s.vfExec = <<>> THEN Fail(s, "UNBALANCED_CONDITIONAL")
    ELSE [s EXCEPT !.vfExec[Len(s.vfExec)] = ~@]

OpEndif(s) ==
    IF s.vfExec = <<>> THEN Fail(s, "UNBALANCED_CONDITIONAL")
    ELSE [s EXCEPT !.vfExec = SubSeq(@, 1, Len(@) - 1)]

CheckLockTime(n, tx) ==
    /\ (tx.nLockTime < LOCKTIME_THRESHOLD) = (n < LOCKTIME_THRESHOLD)
    /\ n <= tx.nLockTime
    /\ ~tx.final

OpCheckLockTimeVerify(s, f) ==
    IF "CHECKLOCKTIMEVERIFY" \notin f
    THEN IF "DISCOURAGE_UPGRADABLE_NOPS" \in f THEN Fail(s, "DISCOURAGE_UPGRADABLE_NOPS") ELSE s
    ELSE IF ~Has(s, 1) THEN Fail(s, "INVALID_STACK_OPERATION")
    ELSE IF ~NumOK(top(s, 1), "MINIMALDATA" \in f, nMaxNumSize + 1) THEN Fail(s, "UNKNOWN_ERROR")
    ELSE IF set_vch(top(s, 1)) < 0 THEN Fail(s, "NEGATIVE_LOCKTIME")
    ELSE IF ~CheckLockTime(set_vch(top(s, 1)), input.tx) THEN Fail(s, "UNSATISFIED_LOCKTIME")
    ELSE s

\* The result of a check, and what its VERIFY form makes of it.
Checked(s, n, ok, verify, e) ==
    IF ~verify THEN Replace(s, n, <<Bool(ok)>>)
    ELSE IF ok THEN Replace(s, n, <<>>) ELSE Fail(s, e)

-----------------------------------------------------------------------------
(* Stack operations: how many elements each needs, and what it does.       *)

Needs ==
    [OP_TOALTSTACK |-> 1, OP_2DROP |-> 2, OP_2DUP |-> 2, OP_3DUP |-> 3, OP_2OVER |-> 4, OP_2ROT |-> 6,
     OP_2SWAP |-> 4, OP_IFDUP |-> 1, OP_DEPTH |-> 0, OP_DROP |-> 1, OP_DUP |-> 1, OP_NIP |-> 2, OP_OVER |-> 2,
     OP_ROT |-> 3, OP_SWAP |-> 2, OP_TUCK |-> 2, OP_SIZE |-> 1]

\* swap(stacktop(-i), stacktop(-j)); erase and insert before stack.end() - i.
Swap(s, i, j) ==
    LET n == Len(s.stack)
    IN [s EXCEPT !.stack[n + 1 - i] = top(s, j), !.stack[n + 1 - j] = top(s, i)]
Erase(s, i)     == [s EXCEPT !.stack = RemoveAt(@, Len(@) + 1 - i)]
Insert(s, i, e) == [s EXCEPT !.stack = InsertAt(@, Len(@) + 1 - i, e)]

StackOp(s, op) ==
    CASE op = "OP_TOALTSTACK" -> [Replace(s, 1, <<>>) EXCEPT !.alt = Append(@, top(s, 1))]
      [] op = "OP_2DROP"      -> Replace(s, 2, <<>>)
      [] op = "OP_2DUP"       -> Push(Push(s, top(s, 2)), top(s, 1))
      [] op = "OP_3DUP"       -> Push(Push(Push(s, top(s, 3)), top(s, 2)), top(s, 1))
      [] op = "OP_2OVER"      -> Push(Push(s, top(s, 4)), top(s, 3))
      [] op = "OP_2ROT"       -> Push(Push(Erase(Erase(s, 6), 5), top(s, 6)), top(s, 5))
      [] op = "OP_2SWAP"      -> Swap(Swap(s, 4, 2), 3, 1)
      [] op = "OP_IFDUP"      -> IF CastToBool(top(s, 1)) THEN Push(s, top(s, 1)) ELSE s
      [] op = "OP_DEPTH"      -> Push(s, serialize(Len(s.stack)))
      [] op = "OP_DROP"       -> Replace(s, 1, <<>>)
      [] op = "OP_DUP"        -> Push(s, top(s, 1))
      [] op = "OP_NIP"        -> Erase(s, 2)
      [] op = "OP_OVER"       -> Push(s, top(s, 2))
      [] op = "OP_ROT"        -> Swap(Swap(s, 3, 2), 2, 1)
      [] op = "OP_SWAP"       -> Swap(s, 2, 1)
      [] op = "OP_TUCK"       -> Insert(s, 2, top(s, 1))
      [] op = "OP_SIZE"       -> Push(s, serialize(Len(top(s, 1))))

OpFromAltStack(s) ==
    IF s.alt = <<>> THEN Fail(s, "INVALID_ALTSTACK_OPERATION")
    ELSE [Push(s, s.alt[Len(s.alt)]) EXCEPT !.alt = SubSeq(@, 1, Len(@) - 1)]

OpPickRoll(s, o, f) ==
    IF ~Has(s, 2) THEN Fail(s, "INVALID_STACK_OPERATION")
    ELSE IF ~NumOK(top(s, 1), "MINIMALDATA" \in f, nMaxNumSize) THEN Fail(s, "UNKNOWN_ERROR")
    ELSE LET n == set_vch(top(s, 1))
             p == Replace(s, 1, <<>>)
         IN IF n < 0 \/ n >= Len(p.stack) THEN Fail(s, "INVALID_STACK_OPERATION")
            ELSE Push(IF o.op = "OP_ROLL" THEN Erase(p, n + 1) ELSE p, top(p, n + 1))

-----------------------------------------------------------------------------
(* Numbers.                                                                *)

Flag(b) == IF b THEN 1 ELSE 0

Unary(op, n) ==
    CASE op = "OP_1ADD"   -> n + 1
      [] op = "OP_1SUB"   -> n - 1
      [] op = "OP_NEGATE" -> -n
      [] op = "OP_ABS"    -> IF n < 0 THEN -n ELSE n
      [] op = "OP_NOT"    -> Flag(n = 0)
      [] op = "OP_0NOTEQUAL" -> Flag(n # 0)

Binary(op, a, b) ==
    CASE op = "OP_ADD" -> a + b
      [] op = "OP_SUB" -> a - b
      [] op = "OP_BOOLAND" -> Flag(a # 0 /\ b # 0)
      [] op = "OP_BOOLOR"  -> Flag(a # 0 \/ b # 0)
      [] op \in {"OP_NUMEQUAL", "OP_NUMEQUALVERIFY"} -> Flag(a = b)
      [] op = "OP_NUMNOTEQUAL" -> Flag(a # b)
      [] op = "OP_LESSTHAN"    -> Flag(a < b)
      [] op = "OP_GREATERTHAN" -> Flag(a > b)
      [] op = "OP_LESSTHANOREQUAL"    -> Flag(a <= b)
      [] op = "OP_GREATERTHANOREQUAL" -> Flag(a >= b)
      [] op = "OP_MIN" -> IF a < b THEN a ELSE b
      [] op = "OP_MAX" -> IF a > b THEN a ELSE b

UnaryOps  == {"OP_1ADD", "OP_1SUB", "OP_NEGATE", "OP_ABS", "OP_NOT", "OP_0NOTEQUAL"}
BinaryOps == {"OP_ADD", "OP_SUB", "OP_BOOLAND", "OP_BOOLOR", "OP_NUMEQUAL", "OP_NUMEQUALVERIFY", "OP_NUMNOTEQUAL",
              "OP_LESSTHAN", "OP_GREATERTHAN", "OP_LESSTHANOREQUAL", "OP_GREATERTHANOREQUAL", "OP_MIN", "OP_MAX"}

\* An operation on numbers: it needs n of them, and the constructor may throw.
OpNumeric(s, o, f) ==
    LET n == IF o.op \in UnaryOps THEN 1 ELSE IF o.op \in BinaryOps THEN 2 ELSE 3
        v == [i \in 1..n |-> set_vch(Tops(s, n)[i])]
    IN IF ~Has(s, n) THEN Fail(s, "INVALID_STACK_OPERATION")
       ELSE IF \E i \in 1..n : ~NumOK(Tops(s, n)[i], "MINIMALDATA" \in f, nMaxNumSize) THEN Fail(s, "UNKNOWN_ERROR")
       ELSE IF n = 1 THEN Replace(s, 1, <<serialize(Unary(o.op, v[1]))>>)
       ELSE IF n = 3 THEN Replace(s, 3, <<Bool(v[2] <= v[1] /\ v[1] < v[3])>>)
       ELSE IF o.op = "OP_NUMEQUALVERIFY" THEN Checked(s, 2, v[1] = v[2], TRUE, "NUMEQUALVERIFY")
       ELSE Replace(s, 2, <<serialize(Binary(o.op, v[1], v[2]))>>)

OpEqual(s, o) ==
    IF ~Has(s, 2) THEN Fail(s, "INVALID_STACK_OPERATION")
    ELSE Checked(s, 2, top(s, 1) = top(s, 2), o.op = "OP_EQUALVERIFY", "EQUALVERIFY")

-----------------------------------------------------------------------------
(* Hashes and signatures.                                                  *)

HashOps == <<"OP_RIPEMD160", "OP_SHA1", "OP_SHA256", "OP_HASH160", "OP_HASH256">>
Hash(op, e) == <<Base + (CHOOSE i \in 1..5 : HashOps[i] = op)>> \o e

OpHash(s, o) ==
    IF ~Has(s, 1) THEN Fail(s, "INVALID_STACK_OPERATION") ELSE Replace(s, 1, <<Hash(o.op, top(s, 1))>>)

CheckSignatureEncoding(sig, f) ==
    \/ sig = <<>>
    \/ /\ sig \in StrictDER
       /\ "LOW_S" \in f => sig \in LowS
       /\ "STRICTENC" \in f => sig \in DefinedHashtype
CheckPubKeyEncoding(key, f) == "STRICTENC" \in f => key \in CanonicalKeys
Encoded(sig, key, f) == CheckSignatureEncoding(sig, f) /\ CheckPubKeyEncoding(key, f)
CheckSig(sig, key)   == <<sig, key>> \in Signs

OpCheckSig(s, o, f) ==
    IF ~Has(s, 2) THEN Fail(s, "INVALID_STACK_OPERATION")
    ELSE IF ~Encoded(top(s, 2), top(s, 1), f) THEN Fail(s, "SIG_ENCODING")
    ELSE Checked(s, 2, CheckSig(top(s, 2), top(s, 1)), o.op = "OP_CHECKSIGVERIFY", "CHECKSIGVERIFY")

\* The loop of CHECKMULTISIG over the signatures and keys that are left, the topmost first.
RECURSIVE Match(_, _, _)
Match(sigs, keys, f) ==
    IF sigs = <<>> THEN "success"
    ELSE IF ~Encoded(Head(sigs), Head(keys), f) THEN "encoding"
    ELSE LET left == IF CheckSig(Head(sigs), Head(keys)) THEN Tail(sigs) ELSE sigs
         IN IF Len(left) > Len(keys) - 1 THEN "failure" ELSE Match(left, Tail(keys), f)

\* The n elements of the stack from stacktop(-i) down.
Down(s, i, n) == [j \in 1..n |-> top(s, i + j - 1)]

OpCheckMultisig(s, o, f) ==
    LET min    == "MINIMALDATA" \in f
        nKeys  == set_vch(top(s, 1))
        t      == [s EXCEPT !.nOpCount = @ + nKeys]
        nSigs  == set_vch(top(s, nKeys + 2))
        n      == nKeys + nSigs + 2
        result == Match(Down(s, nKeys + 3, nSigs), Down(s, 2, nKeys), f)
    IN IF ~Has(s, 1) THEN Fail(s, "INVALID_STACK_OPERATION")
       ELSE IF ~NumOK(top(s, 1), min, nMaxNumSize) THEN Fail(s, "UNKNOWN_ERROR")
       ELSE IF nKeys < 0 \/ nKeys > 20 THEN Fail(s, "PUBKEY_COUNT")
       ELSE IF t.nOpCount > MaxOps THEN Fail(s, "OP_COUNT")
       ELSE IF ~Has(s, nKeys + 2) THEN Fail(s, "INVALID_STACK_OPERATION")
       ELSE IF ~NumOK(top(s, nKeys + 2), min, nMaxNumSize) THEN Fail(s, "UNKNOWN_ERROR")
       ELSE IF nSigs < 0 \/ nSigs > nKeys THEN Fail(s, "SIG_COUNT")
       ELSE IF ~Has(s, n) THEN Fail(s, "INVALID_STACK_OPERATION")
       ELSE IF result = "encoding" THEN Fail(s, "SIG_ENCODING")
       ELSE IF ~Has(s, n + 1) THEN Fail(s, "INVALID_STACK_OPERATION")
       ELSE IF "NULLDUMMY" \in f /\ top(s, n + 1) # <<>> THEN Fail(s, "SIG_NULLDUMMY")
       ELSE Checked(t, n + 1, result = "success", o.op = "OP_CHECKMULTISIGVERIFY", "CHECKMULTISIGVERIFY")

-----------------------------------------------------------------------------
(* EvalScript.                                                             *)

\* Whether a push is the shortest one for its data: OP_0, a small number's own operation, or one
\* byte of length (elements have no more than 75 bytes here).
CheckMinimalPush(o) ==
    IF o.data = <<>> THEN o.how = "OP_0"
    ELSE IF Len(o.data) = 1 /\ o.data[1] \in (1..MaxSmall) \cup {SignBit + 1} THEN FALSE
    ELSE o.how = "direct"

\* One operation that is executed.
Execute(s, o, f) ==
    CASE o.op = "push" ->
           IF "MINIMALDATA" \in f /\ ~CheckMinimalPush(o) THEN Fail(s, "MINIMALDATA") ELSE Push(s, o.data)
      [] o.op = "OP_N" -> Push(s, serialize(o.data))
      [] o.op = "OP_NOP" -> s
      [] o.op \in Nops ->
           IF "DISCOURAGE_UPGRADABLE_NOPS" \in f THEN Fail(s, "DISCOURAGE_UPGRADABLE_NOPS") ELSE s
      [] o.op = "OP_CHECKLOCKTIMEVERIFY" -> OpCheckLockTimeVerify(s, f)
      [] o.op \in {"OP_IF", "OP_NOTIF"} -> OpIf(s, o)
      [] o.op = "OP_ELSE"  -> OpElse(s)
      [] o.op = "OP_ENDIF" -> OpEndif(s)
      [] o.op = "OP_VERIFY" ->
           IF ~Has(s, 1) THEN Fail(s, "INVALID_STACK_OPERATION")
           ELSE IF CastToBool(top(s, 1)) THEN Replace(s, 1, <<>>) ELSE Fail(s, "VERIFY")
      [] o.op = "OP_RETURN" -> Fail(s, "OP_RETURN")
      [] o.op \in DOMAIN Needs ->
           IF ~Has(s, Needs[o.op]) THEN Fail(s, "INVALID_STACK_OPERATION") ELSE StackOp(s, o.op)
      [] o.op = "OP_FROMALTSTACK" -> OpFromAltStack(s)
      [] o.op \in {"OP_PICK", "OP_ROLL"} -> OpPickRoll(s, o, f)
      [] o.op \in {"OP_EQUAL", "OP_EQUALVERIFY"} -> OpEqual(s, o)
      [] o.op \in UnaryOps \cup BinaryOps \cup {"OP_WITHIN"} -> OpNumeric(s, o, f)
      [] o.op \in Range(HashOps) -> OpHash(s, o)
      [] o.op \in {"OP_CHECKSIG", "OP_CHECKSIGVERIFY"} -> OpCheckSig(s, o, f)
      [] o.op \in {"OP_CHECKMULTISIG", "OP_CHECKMULTISIGVERIFY"} -> OpCheckMultisig(s, o, f)
      [] OTHER -> Fail(s, "BAD_OPCODE")

\* The body of the loop: what is checked of every operation, executed or not.
Sized(r) == IF r.err = "OK" /\ Len(r.stack) + Len(r.alt) > MaxStack THEN Fail(r, "STACK_SIZE") ELSE r
Counted(s, o, f) ==
    IF s.nOpCount > MaxOps THEN Fail(s, "OP_COUNT")
    ELSE IF o.op \in Disabled THEN Fail(s, "DISABLED_OPCODE")
    ELSE IF fExec(s) \/ o.op \in Conditionals THEN Sized(Execute(s, o, f))
    ELSE Sized(s)
Step(s, o, f) ==
    IF s.err # "OK" THEN s
    ELSE Counted(IF o.op \in Pushes THEN s ELSE [s EXCEPT !.nOpCount = @ + 1], o, f)

\* After the loop.
Ended(s) == IF s.err = "OK" /\ s.vfExec # <<>> THEN Fail(s, "UNBALANCED_CONDITIONAL") ELSE s
EvalScript(stack, script, f) == Ended(FoldLeft(LAMBDA s, o : Step(s, o, f), Start(stack), script))

-----------------------------------------------------------------------------
(* VerifyScript.                                                           *)

IsPushOnly(script) == \A i \in DOMAIN script : script[i].op \in Pushes

IsPayToScriptHash(script) ==
    /\ Len(script) = 3
    /\ script[1].op = "OP_HASH160" /\ script[3].op = "OP_EQUAL"
    /\ script[2].op = "push" /\ script[2].how = "direct"
    /\ script[2].data # <<>> /\ script[2].data[1] = Base + 4

\* An element read as a script; one that is none has a bad opcode.
AsScript(e) == IF e \in DOMAIN Redeem THEN Redeem[e] ELSE <<[op |-> "OP_INVALIDOPCODE"]>>

\* Whether it ended well and left a true value.
EvalTrue(r) == r.err = "OK" /\ Has(r, 1) /\ CastToBool(top(r, 1))

Cleaned(r, f) == EvalTrue(r) /\ ("CLEANSTACK" \in f => Len(r.stack) = 1)
VerifyScript(f) ==
    /\ "SIGPUSHONLY" \in f => IsPushOnly(scriptSig)
    /\ first[f].err = "OK"
    /\ EvalTrue(Ended(machine[f]))
    /\ IF "P2SH" \in f /\ IsPayToScriptHash(scriptPubKey)
       THEN IsPushOnly(scriptSig) /\ Cleaned(EvalScript(Below(first[f], 1), AsScript(top(first[f], 1)), f), f)
       ELSE Cleaned(machine[f], f)

-----------------------------------------------------------------------------
(* The scripts that are run: each place takes one of its operations, and   *)
(* EvalScript's loop runs it, under every set of flags.  The scriptPubKey  *)
(* starts with the stack that the scriptSig has left.                      *)

Init ==
    /\ input \in ScriptWorlds
    /\ scriptSig = <<>> /\ scriptPubKey = <<>>
    /\ first = <<>>
    /\ machine = [f \in SUBSET input.flags |-> Start(<<>>)]
    /\ before = Start(<<>>)

Run(o) ==
    /\ machine' = [f \in DOMAIN machine |-> Step(machine[f], o, f)]
    /\ before' = machine[{}]

AppendSig ==
    /\ first = <<>>
    /\ Len(scriptSig) < Len(input.sig)
    /\ \E o \in input.sig[Len(scriptSig) + 1] : scriptSig' = Append(scriptSig, o) /\ Run(o)
    /\ UNCHANGED <<input, scriptPubKey, first>>

EndSig ==
    /\ first = <<>>
    /\ first' = [f \in DOMAIN machine |-> Ended(machine[f])]
    /\ machine' = [f \in DOMAIN machine |->
                      IF first'[f].err = "OK" THEN Start(first'[f].stack) ELSE first'[f]]
    /\ before' = machine'[{}]
    /\ UNCHANGED <<input, scriptSig, scriptPubKey>>

AppendPub ==
    /\ first # <<>>
    /\ Len(scriptPubKey) < Len(input.pub)
    /\ \E o \in input.pub[Len(scriptPubKey) + 1] : scriptPubKey' = Append(scriptPubKey, o) /\ Run(o)
    /\ UNCHANGED <<input, scriptSig, first>>

Next == AppendSig \/ EndSig \/ AppendPub
Spec == Init /\ [][Next]_vars

-----------------------------------------------------------------------------
(* What scripts mean, said another way.                                    *)

\* How deep the operation after the first i is nested.
Depth(ops, i) ==
    Cardinality({j \in 1..i : ops[j].op \in {"OP_IF", "OP_NOTIF"}}) - Cardinality({j \in 1..i : ops[j].op = "OP_ENDIF"})

\* An operation that is skipped still counts, and may not be a forbidden one.
Skip(s, ops) ==
    LET n == s.nOpCount + Cardinality({i \in DOMAIN ops : ops[i].op \notin Pushes})
    IN IF \E i \in DOMAIN ops : ops[i].op \in Disabled \cup {"OP_VERIF", "OP_VERNOTIF"} THEN Fail(s, "FORBIDDEN")
       ELSE IF n > MaxOps THEN Fail(s, "OP_COUNT") ELSE [s EXCEPT !.nOpCount = n]

\* A script as nested blocks: an IF goes with the first ENDIF at its own depth, the ELSEs between
\* them at that depth cut the block into parts, and every other part is run.
RECURSIVE Blocks(_, _, _), Parts(_, _, _, _)
Blocks(s, ops, f) ==
    IF s.err # "OK" \/ ops = <<>> THEN s
    ELSE IF Head(ops).op \notin Conditionals THEN Blocks(Step(s, Head(ops), f), Tail(ops), f)
    ELSE LET ends == {k \in DOMAIN ops : Depth(ops, k) = 0}
             m    == Min(ends)
             c    == Skip(s, <<Head(ops)>>)
             v    == CastToBool(top(c, 1)) = (Head(ops).op = "OP_IF")
         IN IF Head(ops).op \notin {"OP_IF", "OP_NOTIF"} \/ ends = {} \/ c.err # "OK" \/ ~Has(c, 1) THEN Fail(s, "CONDITIONAL")
            ELSE Blocks(Skip(Parts(Replace(c, 1, <<>>), SubSeq(ops, 2, m - 1), v, f), <<ops[m]>>), SubSeq(ops, m + 1, Len(ops)), f)
Parts(s, ops, run, f) ==
    LET elses == {k \in DOMAIN ops : ops[k].op = "OP_ELSE" /\ Depth(ops, k) = 0}
        part  == IF elses = {} THEN ops ELSE SubSeq(ops, 1, Min(elses) - 1)
        t     == IF run THEN Blocks(s, part, f) ELSE Skip(s, part)
    IN IF s.err # "OK" \/ elses = {} \/ t.err # "OK" THEN t
       ELSE Parts(Skip(t, <<ops[Min(elses)]>>), SubSeq(ops, Min(elses) + 1, Len(ops)), ~run, f)

Same(r, t) == (r.err = "OK") = (t.err = "OK") /\ (r.err = "OK" => r.stack = t.stack)

\* The pictures in the comments of the stack operations: what they find and what they leave.
Pictures ==
    [OP_2DROP |-> [in |-> 2, out |-> <<>>],
     OP_2DUP  |-> [in |-> 2, out |-> <<1, 2, 1, 2>>],
     OP_3DUP  |-> [in |-> 3, out |-> <<1, 2, 3, 1, 2, 3>>],
     OP_2OVER |-> [in |-> 4, out |-> <<1, 2, 3, 4, 1, 2>>],
     OP_2ROT  |-> [in |-> 6, out |-> <<3, 4, 5, 6, 1, 2>>],
     OP_2SWAP |-> [in |-> 4, out |-> <<3, 4, 1, 2>>],
     OP_DROP  |-> [in |-> 1, out |-> <<>>],
     OP_DUP   |-> [in |-> 1, out |-> <<1, 1>>],
     OP_NIP   |-> [in |-> 2, out |-> <<2>>],
     OP_OVER  |-> [in |-> 2, out |-> <<1, 2, 1>>],
     OP_ROT   |-> [in |-> 3, out |-> <<2, 3, 1>>],
     OP_SWAP  |-> [in |-> 2, out |-> <<2, 1>>],
     OP_TUCK  |-> [in |-> 2, out |-> <<2, 1, 2>>]]

\* Every signature has a key of its own, in the order of the keys.
Assignable(sigs, keys) ==
    \E a \in [DOMAIN sigs -> DOMAIN keys] :
        /\ \A i \in DOMAIN sigs : CheckSig(sigs[i], keys[a[i]])
        /\ \A i, j \in DOMAIN sigs : i < j => a[i] < a[j]

-----------------------------------------------------------------------------
(* Properties.                                                             *)

\* A script runs as the nested blocks it is written as: EvalScript's vector of branch flags, which lets a
\* skipped branch hold anything but a disabled operation and lets ELSE repeat, gives what running the
\* blocks gives.
ScriptsAreStructured ==
    first # <<>> /\ first[{}].err = "OK" =>
        Same(Ended(machine[{}]), Blocks(Start(first[{}].stack), scriptPubKey, {}))

\* The last operation does to the stack what the picture beside it says, and a PICK or ROLL takes the
\* element it names; a number written is the only minimal encoding of that number, and an element is true
\* when its number is not zero.
StacksAreAsPictured ==
    LET last  == scriptPubKey[Len(scriptPubKey)]
        after == machine[{}]
    IN scriptPubKey # <<>> /\ after.err = "OK" =>
          /\ last.op \in DOMAIN Pictures /\ fExec(before) =>
                LET p == Pictures[last.op]
                    x == Tops(before, p.in)
                IN after.stack = Below(before, p.in) \o [i \in DOMAIN p.out |-> x[p.out[i]]]
          /\ \A i \in DOMAIN after.stack :
                LET e == after.stack[i]
                IN (\A j \in DOMAIN e : e[j] < Base) =>
                      /\ CastToBool(e) = (set_vch(e) # 0)
                      /\ NumOK(e, TRUE, Len(e)) = (serialize(set_vch(e)) = e)

\* CHECKMULTISIG succeeds exactly when its signatures can be given keys in order, however its loop drops
\* keys on the way and stops early.
MultisigIsMatching ==
    LET after  == machine[{}]
        nKeys  == set_vch(top(before, 1))
        nSigs  == set_vch(top(before, nKeys + 2))
        last   == scriptPubKey[Len(scriptPubKey)]
    IN scriptPubKey # <<>> /\ last.op = "OP_CHECKMULTISIG" /\ fExec(before) /\ after.err = "OK" =>
          CastToBool(top(after, 1)) =
             Assignable(SubSeq(Tops(before, nKeys + nSigs + 2), 1, nSigs),
                        SubSeq(Tops(before, nKeys + 1), 1, nKeys))

\* A verification flag only ever rejects: what is accepted with it is accepted without it, whatever other
\* flags are set ("softfork safe", interpreter.h), so that a stricter node accepts nothing a laxer one
\* refuses.  CLEANSTACK needs P2SH, and CHECKLOCKTIMEVERIFY gives a meaning to an operation that
\* DISCOURAGE_UPGRADABLE_NOPS refuses otherwise.
FlagsOnlyReject ==
    first # <<>> =>
    \A f \in DOMAIN machine : \A x \in f :
        /\ "CLEANSTACK" \in f => x # "P2SH" /\ "P2SH" \in f
        /\ x = "CHECKLOCKTIMEVERIFY" => "DISCOURAGE_UPGRADABLE_NOPS" \notin f
        =>
        (VerifyScript(f) => VerifyScript(f \ {x}))
=============================================================================
