----------------------------- MODULE MessagePipe -----------------------------
(***************************************************************************)
(* Two nodes that run this program, and the connection between them         *)
(* (net.cpp, main.cpp): EndMessage and SocketSendData put messages on the   *)
(* wire, ThreadSocketHandler selects between sending and receiving,         *)
(* ReceiveMsgBytes puts messages together again, ProcessMessages and        *)
(* ProcessGetData answer them.                                              *)
(*                                                                         *)
(* A node asks for things: a ping, answered at once, or a getdata, answered *)
(* item by item as the send buffer permits.  Sizes are in units of which a  *)
(* request has one and an answer AnswerSize; the wire holds Window units in *)
(* each direction.  Steps that hold cs_vSend or cs_vRecvMsg are atomic.     *)
(***************************************************************************)
EXTENDS Naturals, Sequences, SequencesExt

CONSTANTS
    Ends,                       \* the two nodes
    Errands,                    \* what the nodes may have to ask for: a function from Ends
    AnswerSize, Window,
    SendBufferSize, ReceiveFloodSize

VARIABLES
    errands,                    \* what each node asks for, and still has to ask for
    toAsk,
    vSendMsg, nSendOffset, nSendSize,
    wire,                       \* the units under way from a node
    selected,                   \* what select() is to wait for
    vRecvMsg,                   \* messages, the last of them perhaps incomplete
    vRecvGetData,
    answers                     \* the answers a node has had

pipeVars == <<errands, toAsk, vSendMsg, nSendOffset, nSendSize, wire, selected, vRecvMsg, vRecvGetData, answers>>

Other(e) == CHOOSE f \in Ends : f # e

\* Messages.  An errand is a number: 0 for a ping, n for a getdata of n items.
Request(n) == [request |-> TRUE, number |-> n]
Answer(n) == [request |-> FALSE, number |-> n]
Size(m) == IF m.request THEN 1 ELSE AnswerSize

----------------------------------------------------------------------------
(* Sending: a record of what belongs to the sending side of one node *)

Sender(e) == [queue |-> vSendMsg[e], offset |-> nSendOffset[e], size |-> nSendSize[e], wire |-> wire[e]]

\* One turn of the loop of SocketSendData, and whether it goes on.
SendOne(s) ==
    LET m == Head(s.queue)
        n == IF Size(m) - s.offset <= Window - Len(s.wire) THEN Size(m) - s.offset ELSE Window - Len(s.wire)
        sent == s.wire \o [i \in 1..n |-> [message |-> m, unit |-> s.offset + i]]
    IN  IF s.offset + n = Size(m)
        THEN [queue |-> Tail(s.queue), offset |-> 0, size |-> s.size - Size(m), wire |-> sent]
        ELSE [s EXCEPT !.offset = @ + n, !.wire = sent]

\* No more messages than the wire has room for can be sent whole.
SocketSendData(s) ==
    FoldLeft(LAMBDA r, i : IF r.queue = <<>> \/ Len(r.wire) = Window THEN r ELSE SendOne(r),
             s, [i \in 1..(Window + 1) |-> i])

\* If the queue was empty an optimistic write is attempted.
EndMessage(s, m) ==
    LET queued == [s EXCEPT !.queue = Append(@, m), !.size = @ + Size(m)]
    IN  IF s.queue = <<>> THEN SocketSendData(queued) ELSE queued

SetSender(e, s) ==
    /\ vSendMsg' = [vSendMsg EXCEPT ![e] = s.queue]
    /\ nSendOffset' = [nSendOffset EXCEPT ![e] = s.offset]
    /\ nSendSize' = [nSendSize EXCEPT ![e] = s.size]
    /\ wire' = [wire EXCEPT ![e] = s.wire]

----------------------------------------------------------------------------
(* ThreadSocketHandler *)

Complete(r) == r.have = Size(r.message)
TotalRecvSize(e) == FoldLeft(LAMBDA n, r : n + r.have + 1, 0, vRecvMsg[e])

WantsData(e) == vRecvMsg[e] = <<>> \/ ~Complete(Head(vRecvMsg[e])) \/ TotalRecvSize(e) <= ReceiveFloodSize

Select(e) ==
    /\ selected[e] = "none"
    /\ selected' = [selected EXCEPT ![e] =
            CASE vSendMsg[e] # <<>> -> "send"
              [] vSendMsg[e] = <<>> /\ WantsData(e) -> "receive"
              [] OTHER -> "none"]
    /\ selected'[e] # "none"
    /\ UNCHANGED <<errands, toAsk, vSendMsg, nSendOffset, nSendSize, wire, vRecvMsg, vRecvGetData, answers>>

\* select() times out, and the sockets are looked at again.
SelectTimeout(e) ==
    /\ \/ selected[e] = "send" /\ Len(wire[e]) = Window
       \/ selected[e] = "receive" /\ wire[Other(e)] = <<>>
    /\ selected' = [selected EXCEPT ![e] = "none"]
    /\ UNCHANGED <<errands, toAsk, vSendMsg, nSendOffset, nSendSize, wire, vRecvMsg, vRecvGetData, answers>>

ServiceSend(e) ==
    /\ selected[e] = "send"
    /\ Len(wire[e]) < Window
    /\ SetSender(e, SocketSendData(Sender(e)))
    /\ selected' = [selected EXCEPT ![e] = "none"]
    /\ UNCHANGED <<errands, toAsk, vRecvMsg, vRecvGetData, answers>>

\* One unit is absorbed into the current message, or begins a new one.
ReceiveMsgBytes(msgs, u) ==
    IF msgs = <<>> \/ Complete(Last(msgs)) THEN Append(msgs, [message |-> u.message, have |-> 1])
    ELSE [msgs EXCEPT ![Len(msgs)].have = @ + 1]

ServiceReceive(e) ==
    /\ selected[e] = "receive"
    /\ wire[Other(e)] # <<>>
    /\ vRecvMsg' = [vRecvMsg EXCEPT ![e] = FoldLeft(ReceiveMsgBytes, @, wire[Other(e)])]
    /\ wire' = [wire EXCEPT ![Other(e)] = <<>>]
    /\ selected' = [selected EXCEPT ![e] = "none"]
    /\ UNCHANGED <<errands, toAsk, vSendMsg, nSendOffset, nSendSize, vRecvGetData, answers>>

----------------------------------------------------------------------------
(* ThreadMessageHandler *)

\* ProcessGetData stops after a block, or when the send buffer is full.
CanAnswer(e, items) == items # <<>> /\ nSendSize[e] < SendBufferSize
ProcessGetData(e, items) ==
    IF CanAnswer(e, items)
    THEN SetSender(e, EndMessage(Sender(e), Answer(Head(items)))) /\ vRecvGetData' = [vRecvGetData EXCEPT ![e] = Tail(items)]
    ELSE UNCHANGED <<vSendMsg, nSendOffset, nSendSize, wire>> /\ vRecvGetData' = [vRecvGetData EXCEPT ![e] = items]

Ready(e) == vRecvMsg[e] # <<>> /\ Complete(Head(vRecvMsg[e])) /\ nSendSize[e] < SendBufferSize

\* Answers that are owed go first: "this maintains the order of responses".
ContinueGetData(e) ==
    /\ CanAnswer(e, vRecvGetData[e])
    /\ ProcessGetData(e, vRecvGetData[e])
    /\ UNCHANGED <<errands, toAsk, selected, vRecvMsg, answers>>

\* Mutant: a message is looked at although answers to an earlier one are owed.
ProcessMessageAnyOrder(e) ==
    LET m == Head(vRecvMsg[e]).message IN
    /\ Ready(e)
    /\ vRecvMsg' = [vRecvMsg EXCEPT ![e] = Tail(@)]
    /\ \/ m.request /\ m.number = 0
          /\ SetSender(e, EndMessage(Sender(e), Answer(0)))
          /\ UNCHANGED <<vRecvGetData, answers>>
       \/ m.request /\ m.number > 0
          /\ ProcessGetData(e, vRecvGetData[e] \o [i \in 1..m.number |-> i])
          /\ UNCHANGED answers
       \/ ~m.request
          /\ answers' = [answers EXCEPT ![e] = Append(@, m.number)]
          /\ UNCHANGED <<vSendMsg, nSendOffset, nSendSize, wire, vRecvGetData>>
    /\ UNCHANGED <<errands, toAsk, selected>>

ProcessMessage(e) ==
    LET m == Head(vRecvMsg[e]).message IN
    /\ vRecvGetData[e] = <<>>
    /\ Ready(e)
    /\ vRecvMsg' = [vRecvMsg EXCEPT ![e] = Tail(@)]
    /\ \/ m.request /\ m.number = 0
          /\ SetSender(e, EndMessage(Sender(e), Answer(0)))
          /\ UNCHANGED <<vRecvGetData, answers>>
       \/ m.request /\ m.number > 0
          /\ ProcessGetData(e, [i \in 1..m.number |-> i])
          /\ UNCHANGED answers
       \/ ~m.request
          /\ answers' = [answers EXCEPT ![e] = Append(@, m.number)]
          /\ UNCHANGED <<vSendMsg, nSendOffset, nSendSize, wire, vRecvGetData>>
    /\ UNCHANGED <<errands, toAsk, selected>>

SendRequest(e) ==
    /\ toAsk[e] # <<>>
    /\ SetSender(e, EndMessage(Sender(e), Request(Head(toAsk[e]))))
    /\ toAsk' = [toAsk EXCEPT ![e] = Tail(@)]
    /\ UNCHANGED <<errands, selected, vRecvMsg, vRecvGetData, answers>>

----------------------------------------------------------------------------
Init ==
    /\ errands \in Errands /\ toAsk = errands
    /\ vSendMsg = [e \in Ends |-> <<>>] /\ wire = vSendMsg /\ vRecvMsg = vSendMsg /\ vRecvGetData = vSendMsg
    /\ answers = vSendMsg
    /\ nSendOffset = [e \in Ends |-> 0] /\ nSendSize = nSendOffset
    /\ selected = [e \in Ends |-> "none"]

Step(e) ==
    \/ Select(e) \/ SelectTimeout(e) \/ ServiceSend(e) \/ ServiceReceive(e)
    \/ ContinueGetData(e) \/ ProcessMessage(e) \/ SendRequest(e)

Next == \E e \in Ends : Step(e)

\* What the threads of a node have before them: messages to process or to send, data to move.
Handling(e) == toAsk[e] # <<>> \/ CanAnswer(e, vRecvGetData[e]) \/ (vRecvGetData[e] = <<>> /\ Ready(e))
Moving(e) ==
    \/ vSendMsg[e] # <<>> /\ Len(wire[e]) < Window
    \/ vSendMsg[e] = <<>> /\ WantsData(e) /\ wire[Other(e)] # <<>>

\* The threads do not leave it before them for ever.
Fairness == \A e \in Ends : []<>~Handling(e) /\ []<>~Moving(e)

Spec == Init /\ [][Next]_pipeVars /\ Fairness

----------------------------------------------------------------------------
\* The answers a node expects, in order.
Expected(todo) == FoldLeft(LAMBDA s, n : s \o (IF n = 0 THEN <<0>> ELSE [i \in 1..n |-> i]), <<>>, todo)

QueuedSize(e) == FoldLeft(LAMBDA n, m : n + Size(m), 0, vSendMsg[e])

(* Answers come back in the order of the requests, whatever was sent in pieces, held up by a full *)
(* buffer or answered over several turns; and nSendSize is the size of what is queued, so that     *)
(* the asserts of SocketSendData hold.                                                             *)
AnswersInOrder ==
    \A e \in Ends :
        /\ IsPrefix(answers[e], Expected(errands[e]))
        /\ nSendSize[e] = QueuedSize(e)
        /\ vSendMsg[e] = <<>> => nSendOffset[e] = 0

Answered == \A e \in Ends : errands[Other(e)] = <<>> => answers[e] = Expected(errands[e])

(* If only one of the two nodes has something to ask for, it gets all the answers: the buffers' limits *)
(* hold messages up, never for good.                                                                  *)
RequestsAnswered == <>[]Answered

\* The node can neither send, nor is it waiting to receive, nor is there a message it can process.
Stuck(e) ==
    /\ vSendMsg[e] # <<>> /\ Len(wire[e]) = Window
    /\ selected[e] # "receive"
    /\ nSendSize[e] >= SendBufferSize \/ (vRecvGetData[e] = <<>> /\ ~Ready(e))

(* "at least one of the following is always possible, so we don't deadlock: We send some data; we   *)
(* wait for data to be received; we process a message in the buffer" (net.cpp): never are both ends *)
(* of a connection unable to do any of them.                                                        *)
NoMutualStall == ~(\A e \in Ends : Stuck(e))
=============================================================================
