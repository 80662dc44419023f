------------------------------ MODULE Electrum ------------------------------
(***************************************************************************)
(* The client of an Electrum server (swap/qtum/electrum.rs, rpc.rs) under  *)
(* the Seller's three operations of the Qtum side (swap/qtum/api.rs) that  *)
(* use it: the balance of the script address, posting the redeem           *)
(* transaction, and looking how deep the block is that holds it.           *)
(*                                                                         *)
(* One TCP stream carries every request of the process, with a number, and *)
(* the answers come back when the server pleases.  A call writes a request *)
(* and reads ONE line; after a timeout the call is over and its answer     *)
(* still arrives.  The chain goes on growing (and loses blocks) between    *)
(* the reads one operation is made of.                                     *)
(*                                                                         *)
(* An answer is represented by the chain it was computed from, `at': what  *)
(* a method returns is a function of that.  The server is external.        *)
(***************************************************************************)
EXTENDS Integers, Sequences, FiniteSets

CONSTANTS
    Outputs,    \* the payments a Buyer may make to the script address, of 1 each
    Amount,     \* secondary_amount
    Needed,     \* confirmations grin_balance is asked for (6)
    MaxHead,    \* bound: highest block
    MaxUndo,    \* bound: blocks the chain loses
    MaxId,      \* bound: requests of one process
    MaxFailed   \* bound: no operation begins once so many have failed

ASSUME ElectrumAssumption ==
    /\ IsFiniteSet(Outputs)
    /\ {Amount, Needed, MaxHead, MaxUndo, MaxId, MaxFailed} \subseteq Nat
    /\ Amount > 0 /\ Needed > 0 /\ MaxHead > 0

VARIABLES
    chain,      \* head, the block of each output and of the redeem transaction
    conn,       \* the client: "none", "connecting", "open", or "closed" by the server
    id,         \* number of the last request
    wire,       \* requests the server has not answered
    stream,     \* lines the client has not read
    call,       \* the operation under way and the answers it has
    swap,       \* locked and redeem_confirmations of the Seller's grinData
    failed,     \* operations that have failed
    past        \* history: the chains since the operation under way began

vars == <<chain, conn, id, wire, stream, call, swap, failed, past>>

None == -1      \* no such transaction; no redeem_confirmations
Mempool == 0
Block == Nat \cup {None}

Chain == [head : Nat, out : [Outputs -> Block], redeem : Block, undone : Nat]
Op == {"none", "check", "publish", "update"}
Method == {"version", "unspent", "height", "post", "tx"}
Request == [id : Nat, method : Method]
Line == [kind : {"ok", "err", "garbage"}, req : Request, at : Chain]
Idle == [op |-> "none", todo |-> <<>>, id |-> 0, got |-> <<>>]

Init ==
    /\ chain = [head |-> 1, out |-> [o \in Outputs |-> None], redeem |-> None,
                undone |-> 0]
    /\ conn = "none" /\ id = 0 /\ wire = {} /\ stream = <<>>
    /\ call = Idle
    /\ swap = [locked |-> FALSE, confs |-> None]
    /\ failed = 0 /\ past = {chain}

-----------------------------------------------------------------------------
(* What the operations make of the answers. *)

Monus(a, b) == IF a < b THEN 0 ELSE a - b

\* Confirmations of block b under head h; 0 in the mempool.
Depth(h, b) == IF b > Mempool THEN Monus(h, b) + 1 ELSE 0

\* The confirmations the server reports for the redeem transaction.
Reported(c) == IF c.redeem > Mempool THEN c.head - c.redeem + 1 ELSE c.redeem

\* ElectrumNodeClient::transaction: the height of the block, from the head
\* read first and the confirmations read second.
\* Mutant: one confirmation is not the block itself.
TxHeightShort(head, confs) == Monus(head, confs)

TxHeight(head, confs) == Monus(head, confs - 1)

\* grin_balance: the outputs listed first, judged by the head read second.
\* Mutant: an output of the mempool, of height 0, is judged like the others.
ConfirmedAll(list, head) ==
    {o \in Outputs : list.out[o] # None /\ Monus(head, list.out[o]) + 1 >= Needed}

Confirmed(list, head) ==
    {o \in Outputs : /\ list.out[o] > Mempool
                     /\ Monus(head, list.out[o]) + 1 >= Needed}

Steps(op) == CASE op = "check"   -> <<"unspent", "height">>
               [] op = "publish" -> <<"post">>
               [] op = "update"  -> <<"height", "tx", "height">>

\* A transaction that no block holds has no height to compare with the head.
NotMined == call.op = "update" /\ Len(call.got) = 2 /\ Reported(call.got[2]) <= 0

Done == call.op # "none" /\ (call.todo = <<>> \/ NotMined)

\* What the operation stores in the swap once it has its answers.
Result ==
    CASE call.op = "check" ->
           [swap EXCEPT !.locked =
               Cardinality(Confirmed(call.got[1], call.got[2].head)) >= Amount]
      [] call.op = "publish" -> [swap EXCEPT !.confs = 0]
      [] call.op = "update" /\ NotMined -> swap
      [] call.op = "update" /\ ~NotMined ->
           [swap EXCEPT !.confs =
               Monus(call.got[3].head,
                     TxHeight(call.got[1].head, Reported(call.got[2]))) + 1]

-----------------------------------------------------------------------------
(* The client. *)

\* check_locks while not locked, then publish_secondary_transaction while the
\* transaction counts as unpublished, then update_redeem.
Allowed(op) ==
    CASE op = "check"   -> ~swap.locked
      [] op = "publish" -> swap.locked /\ swap.confs = None
      [] op = "update"  -> swap.confs # None

\* client() opens the stream and asks for the version the first time.
Begin(op) ==
    /\ call = Idle /\ Allowed(op) /\ failed < MaxFailed
    /\ call' = [Idle EXCEPT !.op = op,
                            !.todo = IF conn = "none"
                                     THEN <<"version">> \o Steps(op)
                                     ELSE Steps(op)]
    /\ conn' = IF conn = "none" THEN "connecting" ELSE conn
    /\ past' = {chain}
    /\ UNCHANGED <<chain, id, wire, stream, swap, failed>>

\* The call fails and the operation with it.  A client that has not had its
\* version is dropped; any other is kept for the next call, as it is.
\* Mutant: the client is stored before the version is asked.
FailKept ==
    /\ call' = Idle /\ failed' = failed + 1 /\ past' = {chain}
    /\ UNCHANGED <<chain, id, swap, conn, wire>>

FailAfter(drawn) ==
    /\ call' = Idle /\ failed' = failed + 1 /\ past' = {chain}
    /\ IF conn = "connecting"
       THEN conn' = "none" /\ wire' = {} /\ id' = 0
       ELSE id' = drawn /\ UNCHANGED <<conn, wire>>
    /\ UNCHANGED <<chain, swap>>

Fail == FailAfter(id)

\* What is left of the stream: nothing when the client is dropped.
Rest(lines) == IF conn = "connecting" THEN <<>> ELSE lines

Waiting == call.id # 0

Write ==
    /\ call.op # "none" /\ ~Waiting /\ ~Done /\ id < MaxId
    /\ id' = id + 1
    /\ call' = [call EXCEPT !.id = id + 1]
    /\ wire' = IF conn = "closed" THEN wire
               ELSE wire \cup {[id |-> id + 1, method |-> Head(call.todo)]}
    /\ UNCHANGED <<chain, conn, stream, swap, failed, past>>

\* The stream cannot be opened or written to; the number drawn for the request is
\* not given back.
WriteFails ==
    /\ call.op # "none" /\ ~Waiting /\ ~Done
    /\ FailAfter(id + 1) /\ stream' = Rest(stream)

\* wait: an answer counts only when it carries the number of the request.
\* Mutant: any answer of the right shape counts.
AcceptsAny(line) == line.kind = "ok" /\ line.req.method = Head(call.todo)

Accepts(line) == line.kind = "ok" /\ line.req.id = call.id

ReadAnswer ==
    /\ Waiting /\ stream # <<>> /\ Accepts(Head(stream))
    /\ stream' = Tail(stream)
    /\ LET version == Head(call.todo) = "version"
       IN  /\ call' = [call EXCEPT !.id = 0, !.todo = Tail(@),
                           !.got = IF version THEN @
                                   ELSE Append(@, Head(stream).at)]
           /\ conn' = IF version THEN "open" ELSE conn
    /\ UNCHANGED <<chain, id, wire, swap, failed, past>>

\* An error, a line that is no answer, or the answer to an earlier request.
ReadOther ==
    /\ Waiting /\ stream # <<>> /\ ~Accepts(Head(stream))
    /\ Fail /\ stream' = Rest(Tail(stream))

\* The server closed the stream and everything it had sent was read.
ReadEnd ==
    /\ Waiting /\ stream = <<>> /\ conn = "closed"
    /\ Fail /\ stream' = <<>>

\* Ten seconds passed without a whole line.  read_line drops what it has of one,
\* and what follows of it will be a line of its own.
\* Mutant: the stream has no read timeout.
NoTimeout == FALSE /\ Fail /\ stream' = <<>>

Timeout ==
    /\ Waiting /\ stream = <<>> /\ conn # "closed"
    /\ \/ Fail /\ stream' = <<>>
       \/ /\ conn = "open"
          /\ \E r \in wire :
                /\ wire' = wire \ {r}
                /\ stream' = <<[kind |-> "garbage", req |-> r, at |-> chain]>>
          /\ call' = Idle /\ failed' = failed + 1 /\ past' = {chain}
          /\ UNCHANGED <<chain, conn, id, swap>>

\* Mutant: the publication is recorded whatever becomes of it.
ReturnEarly ==
    /\ call.op # "none" /\ (Done \/ (call.op = "publish" /\ Waiting))
    /\ swap' = Result /\ call' = Idle /\ past' = {chain}
    /\ UNCHANGED <<chain, conn, id, wire, stream, failed>>

Return ==
    /\ Done
    /\ swap' = Result /\ call' = Idle /\ past' = {chain}
    /\ UNCHANGED <<chain, conn, id, wire, stream, failed>>

-----------------------------------------------------------------------------
(* The server and the chain. *)

\* The chain a request leaves: only the redeem transaction is ever posted.
Posted(m) == IF m = "post" /\ chain.redeem = None
             THEN [chain EXCEPT !.redeem = Mempool] ELSE chain

Seen(c) == past' = IF call = Idle THEN {c} ELSE past \cup {c}

Reply(r, kind, c) ==
    /\ stream' = Append(stream, [kind |-> kind, req |-> r, at |-> c])
    /\ chain' = c /\ Seen(c)
    /\ wire' = wire \ {r}
    /\ UNCHANGED <<conn, id, call, swap, failed>>

\* A transaction in a block is not taken again; one in the mempool may be.
Answer ==
    /\ conn # "closed"
    /\ \E r \in wire :
          \/ /\ ~(r.method = "post" /\ chain.redeem > Mempool)
             /\ Reply(r, "ok", Posted(r.method))
          \/ Reply(r, "err", chain)

\* While the client connects this ends the same way as a timeout.
Close ==
    /\ conn = "open" /\ conn' = "closed" /\ wire' = {}
    /\ UNCHANGED <<chain, id, stream, call, swap, failed, past>>

Environment(c) ==
    chain' = c /\ Seen(c) /\ UNCHANGED <<conn, id, wire, stream, call, swap, failed>>

Deposit == \E o \in Outputs :
    /\ chain.out[o] = None
    /\ Environment([chain EXCEPT !.out[o] = Mempool])

\* A block takes what it likes from the mempool; the redeem transaction follows
\* what it spends.
Mine ==
    /\ chain.head < MaxHead
    /\ \E T \in SUBSET {o \in Outputs : chain.out[o] = Mempool},
          takes \in {FALSE, chain.redeem = Mempool} :
          LET out == [o \in Outputs |->
                         IF o \in T THEN chain.head + 1 ELSE chain.out[o]]
          IN  /\ takes => Cardinality({o \in Outputs : out[o] > Mempool}) >= Amount
              /\ Environment([chain EXCEPT !.head = @ + 1, !.out = out,
                                 !.redeem = IF takes THEN chain.head + 1 ELSE @])

Undo ==
    /\ chain.undone < MaxUndo /\ chain.head > 1
    /\ LET Back(b) == IF b = chain.head THEN Mempool ELSE b
       IN  Environment([head |-> chain.head - 1,
                        out |-> [o \in Outputs |-> Back(chain.out[o])],
                        redeem |-> Back(chain.redeem),
                        undone |-> chain.undone + 1])

Client == Write \/ ReadAnswer \/ ReadOther \/ ReadEnd \/ Timeout
              \/ Return \/ WriteFails

Next ==
    \/ \E op \in Op \ {"none"} : Begin(op)
    \/ Client
    \/ Answer \/ Close \/ Deposit \/ Mine \/ Undo

Spec == Init /\ [][Next]_vars

\* A call runs to its end: its process goes on and its timer fires.
FairSpec == Spec /\ WF_vars(Client)

-----------------------------------------------------------------------------
(* Properties. *)

\* Types; and client() stores a client only once it has had its version, so
\* none is half open between two operations (electrum.rs:242-248).
TypeOK ==
    /\ chain \in Chain /\ past \subseteq Chain
    /\ conn \in {"none", "connecting", "open", "closed"}
    /\ id \in Nat /\ wire \subseteq Request /\ stream \in Seq(Line)
    /\ call \in [op : Op, todo : Seq(Method), id : Nat, got : Seq(Chain)]
    /\ swap \in [locked : BOOLEAN, confs : Block] /\ failed \in Nat
    /\ conn = "connecting" => call # Idle

\* Whatever was left in the stream by earlier calls that timed out, what an
\* operation is given was true of the chain at some moment since it began
\* (wait compares the numbers, electrum.rs:57-76).
AnswersAreFresh == \A i \in DOMAIN call.got : call.got[i] \in past

\* Though outputs and head are read one after the other, the Seller sets
\* `locked' only when the chain holds the whole amount under Needed blocks,
\* unless the chain lost a block in between (api.rs:60-106, 131-145).
LockedIsDeep ==
    [][~swap.locked /\ swap'.locked /\ (\A c \in past : c.undone = chain.undone)
       => Amount <= Cardinality({o \in Outputs :
                                     Depth(chain.head, chain.out[o]) >= Needed})]_vars

\* The redeem transaction counts as published only if the server took it
\* (api.rs:633-634): a posting that timed out is not taken for a success.
PublishedIsTaken == swap.confs # None => chain.redeem # None

\* A redeem transaction counts as included in a block only if it was in one,
\* and its confirmations are too many by no more than the blocks that were
\* mined during the call (api.rs:244-248, electrum.rs:301-312).
CompleteIsMined ==
    [][swap'.confs > 0 /\ swap'.confs # swap.confs
         /\ (\A c \in past : c.undone = chain.undone)
       => LET begun == CHOOSE c \in past : \A d \in past : c.head <= d.head
          IN  /\ chain.redeem > Mempool
              /\ swap'.confs <= Depth(chain.head, chain.redeem)
                                + (chain.head - begun.head)]_vars

\* Every operation comes back, with a result or an error, though the server
\* falls silent at any byte (the timeouts of rpc.rs:20-23, one for each read).
EveryCallEnds == call # Idle ~> call = Idle
=============================================================================
