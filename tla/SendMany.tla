------------------------------ MODULE SendMany ------------------------------
(* z_sendmany (wallet/asyncrpcoperation_sendmany.cpp): one payment from a  *)
(* transparent or from a shielded address.  A payment from a shielded      *)
(* address is a chain of JoinSplits with two inputs and two outputs each;  *)
(* one step of the module is one JoinSplit.                                *)
(*                                                                         *)
(* A commitment is <<j, i>>, output i of JoinSplit j of this transaction;  *)
(* a tree is the sequence of the commitments appended to the tree that the *)
(* witnesses of the wallet's notes were taken from, so <<>> is that tree,  *)
(* and an anchor is a tree.                                                *)
EXTENDS Integers, FiniteSets, FiniteSetsExt, SequencesExt, TLC

CONSTANTS
    Payments,           \* the payments: records [from, coins, touts, zouts, fee]; from is "t"
                        \* or "z", coins the UTXOs or notes of the address with their values,
                        \* touts and zouts the amounts due to the recipients
    dustThreshold,
    ZC_NUM_JS_INPUTS, ZC_NUM_JS_OUTPUTS

VARIABLES
    pay,        \* the payment
    pc,         \* "start", "shield" (SCENARIO #2), "chain" (SCENARIO #3), "sent", "failed"
                \* (an exception), "reorg" (the same, because the anchor is gone)
                \* or "assert" (an assertion that does not hold)
    tx,         \* [vin, vout, vjoinsplit]
    zIn, zOut,  \* zInputsDeque and zOutputsDeque
    jsChange,   \* the change note of the last JoinSplit: [value, note], value 0 when none
    previousCommitments

vars == <<pay, pc, tx, zIn, zOut, jsChange, previousCommitments>>

Total(s) == FoldLeft(LAMBDA a, x : a + x.value, 0, s)
Target == Total(pay.touts) + Total(pay.zouts) + pay.fee

NoChange == [value |-> 0, note |-> <<>>]
\* JSOutput(): the dummy output.
Dummy == [to |-> "nobody", value |-> 0]

-----------------------------------------------------------------------------
\* find_utxos and find_unspent_notes: coinbase outputs only when all goes to one shielded
\* address; small UTXOs first, big notes first.
Spendable ==
    LET single == pay.touts = <<>> /\ Len(pay.zouts) = 1
    IN  IF pay.from = "t"
        THEN SortSeq(SelectSeq(pay.coins, LAMBDA c : single \/ ~c.coinbase),
                     LAMBDA a, b : a.value < b.value)
        ELSE SortSeq(pay.coins, LAMBDA a, b : a.value > b.value)

\* The first n of the coins are enough, and the change is not dust.
Enough(coins, n) ==
    LET change == Total(SubSeq(coins, 1, n)) - Target
    IN  change = 0 \/ (change > 0 /\ change >= dustThreshold)

Fail(why) ==
    /\ pc' = why
    /\ UNCHANGED <<pay, tx, zIn, zOut, jsChange, previousCommitments>>

\* Too little money, or a transparent payment that would leave dust as change.
Insufficient ==
    /\ pc = "start"
    /\ \/ Total(Spendable) < Target \/ Spendable = <<>>
       \/ pay.from = "t" /\ \A n \in 1..Len(Spendable) : ~Enough(Spendable, n)
    /\ Fail("failed")

\* SCENARIO #1 and #2: the UTXOs are selected, the transparent outputs and the change added.
\* Coinbase outputs leave no change.
FromTaddr ==
    /\ pc = "start" /\ pay.from = "t"
    /\ Total(Spendable) >= Target
    /\ \E n \in 1..Len(Spendable) :
        /\ Enough(Spendable, n) /\ \A m \in 1..n - 1 : ~Enough(Spendable, m)
        /\ LET vin == SubSeq(Spendable, 1, n)
               change == Total(vin) - Target
           IN  IF change > 0 /\ pay.zouts # <<>> /\ \E i \in 1..n : vin[i].coinbase
               THEN Fail("failed")
               ELSE /\ tx' = [tx EXCEPT !.vin = vin,
                        !.vout = pay.touts \o
                                 (IF change > 0 THEN <<[to |-> "us", value |-> change]>> ELSE <<>>)]
                    /\ zOut' = pay.zouts
                    /\ pc' = IF pay.zouts = <<>> THEN "sent" ELSE "shield"
                    /\ UNCHANGED <<pay, zIn, jsChange, previousCommitments>>

\* SCENARIO #3: the fewest of the notes in their order.
FromZaddr ==
    /\ pc = "start" /\ pay.from = "z"
    /\ Total(Spendable) >= Target /\ Spendable # <<>>
    /\ \E n \in 1..Len(Spendable) :
        /\ Total(SubSeq(Spendable, 1, n)) >= Target
        /\ \A m \in 1..n - 1 : Total(SubSeq(Spendable, 1, m)) < Target
        /\ zIn' = SubSeq(Spendable, 1, n)
    /\ zOut' = pay.zouts
    /\ tx' = [tx EXCEPT !.vout = pay.touts]
    /\ pc' = "chain"
    /\ UNCHANGED <<pay, jsChange, previousCommitments>>

-----------------------------------------------------------------------------
(* JoinSplits.                                                             *)

Append2(s, x) == IF Len(s) < ZC_NUM_JS_OUTPUTS THEN Append(s, x) ELSE s

\* perform_joinsplit: pads the outputs, and JSDescription::Randomized puts them in either order.
\* The inputs are [value, note, root]: the note and the root of its witness.
JoinSplits(ins, outs, vpub_old, vpub_new, anchor) ==
    LET padded == Append2(Append2(outs, Dummy), Dummy)
    IN  {[ins |-> ins, outs |-> o, vpub_old |-> vpub_old, vpub_new |-> vpub_new, anchor |-> anchor]
            : o \in {padded, Reverse(padded)}}

\* The commitments of JoinSplit j, in the order of its outputs.
Commitments(j) == [i \in 1..ZC_NUM_JS_OUTPUTS |-> <<j, i>>]

\* SCENARIO #2: a JoinSplit without inputs for every two recipients, on the best anchor.
Shield ==
    /\ pc = "shield"
    /\ LET outs == SubSeq(zOut, 1, Min({ZC_NUM_JS_OUTPUTS, Len(zOut)}))
       IN  /\ \E js \in JoinSplits(<<>>, outs, Total(outs), 0, <<>>) :
                tx' = [tx EXCEPT !.vjoinsplit = Append(@, js)]
           /\ zOut' = SubSeq(zOut, Len(outs) + 1, Len(zOut))
           /\ pc' = IF zOut' = <<>> THEN "sent" ELSE "shield"
    /\ UNCHANGED <<pay, zIn, jsChange, previousCommitments>>

\* Mutant: the commitments of one chain are still appended in the next.
HistoryKept ==
    IF jsChange.value = 0 THEN previousCommitments
    ELSE previousCommitments \o Commitments(Len(tx.vjoinsplit))

\* The commitments made since the chain began: forgotten when there is no change to spend,
\* extended by the last JoinSplit when there is.
History ==
    IF jsChange.value = 0 THEN <<>>
    ELSE previousCommitments \o Commitments(Len(tx.vjoinsplit))

\* The inputs of the next JoinSplit: the change first, with a witness in the tree of the last
\* JoinSplit's anchor and its outputs; then notes, their witnesses brought up to date.
ChangeInput ==
    IF jsChange.value = 0 THEN <<>>
    ELSE <<[value |-> jsChange.value, note |-> jsChange.note,
            root |-> Last(tx.vjoinsplit).anchor \o Commitments(Len(tx.vjoinsplit))]>>

NumInputs == Min({ZC_NUM_JS_INPUTS - Len(ChangeInput), Len(zIn)})

NoteInputs ==
    [i \in 1..NumInputs |-> [value |-> zIn[i].value, note |-> zIn[i].note,
                             root |-> IF jsChange.value = 0 THEN <<>> ELSE History]]

\* How much the recipient at the head gets now, how much goes to vpub_new, and what is left due.
Split(inValue, isLast) ==
    LET due == IF zOut = <<>> THEN 0 ELSE zOut[1].value
        vpub_new == IF isLast THEN pay.fee + Total(pay.touts) ELSE 0
        value == IF ~isLast /\ due > inValue THEN inValue ELSE due
    IN  [value |-> value, vpub_new |-> vpub_new, owed |-> due - value,
         change |-> inValue - value - vpub_new]

\* Mutant: the change is taken for the second output, as it was before they were randomized.
ChangeIndexSecond(js) == 2

\* The index find_output gives for the change, the second output before it was randomized.
ChangeIndex(js) == CHOOSE i \in 1..ZC_NUM_JS_OUTPUTS : js.outs[i].to = "us"

\* One turn of the loop of SCENARIO #3.
Chain ==
    /\ pc = "chain"
    /\ LET ins == ChangeInput \o NoteInputs
           rest == SubSeq(zIn, NumInputs + 1, Len(zIn))
           isLast == Len(zOut) <= 1 /\ rest = <<>>
           s == Split(Total(ins), isLast)
           to == IF zOut = <<>> THEN Dummy ELSE [to |-> zOut[1].to, value |-> s.value]
           change == IF s.change > 0 THEN <<[to |-> "us", value |-> s.change]>> ELSE <<>>
           anchor == ins[1].root
       IN  IF ins = <<>> THEN Fail("failed")      \* "anchor is null"
           ELSE IF \E i \in 1..Len(ins) : ins[i].root # anchor THEN Fail("failed")
           ELSE IF isLast /\ Total(ins) < s.vpub_new THEN Fail("failed")
           ELSE IF s.change < 0 THEN Fail("assert")
           ELSE /\ \E js \in JoinSplits(ins, <<to>> \o change, 0, s.vpub_new, anchor) :
                    /\ tx' = [tx EXCEPT !.vjoinsplit = Append(@, js)]
                    /\ jsChange' = IF s.change = 0 THEN NoChange
                                   ELSE [value |-> s.change,
                                         note |-> <<Len(tx.vjoinsplit) + 1, ChangeIndex(js)>>]
                /\ previousCommitments' = History
                /\ zIn' = rest
                /\ zOut' = IF s.owed > 0 THEN [zOut EXCEPT ![1].value = s.owed]
                           ELSE SubSeq(zOut, 2, Len(zOut))
                /\ pc' = IF isLast THEN "sent" ELSE "chain"
                /\ UNCHANGED pay

\* GetAnchorAt finds the anchor of the notes no more: a reorganisation has disconnected it.
\* Only the second JoinSplit of a chain asks, later ones find theirs in intermediates.
AnchorIsGone ==
    /\ pc = "chain" /\ jsChange.value > 0
    /\ Last(tx.vjoinsplit).anchor = <<>>
    /\ Fail("reorg")

Init ==
    /\ pay \in Payments
    /\ pc = "start"
    /\ tx = [vin |-> <<>>, vout |-> <<>>, vjoinsplit |-> <<>>]
    /\ zIn = <<>> /\ zOut = <<>>
    /\ jsChange = NoChange /\ previousCommitments = <<>>

Next == Insufficient \/ FromTaddr \/ FromZaddr \/ Shield \/ Chain \/ AnchorIsGone

Spec == Init /\ [][Next]_vars

-----------------------------------------------------------------------------
(* Properties.                                                             *)

Outs == FlattenSeq([j \in 1..Len(tx.vjoinsplit) |-> tx.vjoinsplit[j].outs]) \o tx.vout
Got(r) == Total(SelectSeq(Outs, LAMBDA o : o.to = r))
JoinSplitTotal(f(_)) == FoldLeft(LAMBDA a, js : a + f(js), 0, tx.vjoinsplit)

\* Every recipient of a payment that is sent gets exactly the amount asked for, however many
\* JoinSplits it is spread over, the miner exactly the fee, and the address the rest of what
\* was spent (asyncrpcoperation_sendmany.cpp).
PaymentIsExact ==
    pc = "sent" =>
        /\ \A r \in Range(pay.touts \o pay.zouts) : Got(r.to) = r.value
        /\ Got("nobody") = 0
        /\ pay.fee = Total(tx.vin) - Total(tx.vout)
                     + JoinSplitTotal(LAMBDA js : js.vpub_new) - JoinSplitTotal(LAMBDA js : js.vpub_old)
        /\ (\E i \in 1..Len(tx.vin) : tx.vin[i].coinbase) => tx.vout = <<>>

\* The anchors the consensus rules accept for JoinSplit j: the tree of a block, or what an
\* earlier JoinSplit of the transaction made of its anchor.
Anchors(j) == {<<>>} \cup {tx.vjoinsplit[k].anchor \o Commitments(k) : k \in 1..j - 1}

\* The value of a note of the address or of an output of the transaction.
ValueOf(note) ==
    IF note[1] = 0 THEN pay.coins[note[2]].value ELSE tx.vjoinsplit[note[1]].outs[note[2]].value

\* The JoinSplits of the transaction, made one after the other from changing trees, are valid
\* together: each balances, its anchor is a block's or follows from an earlier JoinSplit, the
\* notes it spends are in the tree of that anchor, and no note is spent twice.
JoinSplitsAreValid ==
    /\ \A j \in 1..Len(tx.vjoinsplit) :
        LET js == tx.vjoinsplit[j]
        IN  /\ js.vpub_old + Total(js.ins) = js.vpub_new + Total(js.outs)
            /\ js.anchor \in Anchors(j)
            /\ \A i \in 1..Len(js.ins) :
                /\ js.ins[i].root = js.anchor
                /\ js.ins[i].note[1] = 0 \/ js.ins[i].note \in Range(js.anchor)
                /\ js.ins[i].value = ValueOf(js.ins[i].note)
    /\ LET spent == FlattenSeq([j \in 1..Len(tx.vjoinsplit) |-> tx.vjoinsplit[j].ins])
       IN  Cardinality({spent[i].note : i \in 1..Len(spent)}) = Len(spent)

\* A payment the address can afford does not fail half way: the chain of JoinSplits meets no
\* recipient without inputs, no two anchors in one JoinSplit and no failing assertion.
\* Transparent change may not be dust, and coinbase outputs may not leave change.
AffordablePaymentsSucceed ==
    /\ pc # "assert"
    /\ pc = "failed" =>
        LET change == Total(pay.coins) - Target
        IN  IF pay.from = "z" THEN change < 0
            ELSE (change < dustThreshold /\ change # 0) \/ \E i \in 1..Len(pay.coins) : pay.coins[i].coinbase
=============================================================================
