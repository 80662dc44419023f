--------------------------- MODULE ElectrumProofs ---------------------------
(***************************************************************************)
(* The Electrum client never uses a stale answer and never takes a posting *)
(* that was not answered for a success, and what the Seller concludes from *)
(* answers of different moments still holds of the chain, for any          *)
(* payments, any bounds and any number of timeouts, failures and blocks.   *)
(*                                                                         *)
(* The argument is that of the numbers: nothing on its way carries a       *)
(* number above the last one drawn, so when a request is written with the  *)
(* next number no line in the stream can be taken for its answer; the one  *)
(* that can is written by the server while the call is under way, when the *)
(* chain it shows is among those of the call (IInv).  For the conclusions, *)
(* each of those chains is one the present chain continues, as long as no  *)
(* block is lost (HInv).                                                   *)
(***************************************************************************)
EXTENDS Electrum, Induction, SequenceTheorems, TLAPS

\* The unread lines.
Lines == {stream[i] : i \in DOMAIN stream}

Numbers ==
    /\ \A r \in wire : r.id \in 1 .. id
    /\ \A line \in Lines : line.req.id \in 1 .. id
    /\ call.id \in {0, id}

\* Of the plan of an operation: the version comes first or not at all, a
\* publication ends with the posting, and what is asked and what is answered
\* make up the operation's steps.
Plan ==
    /\ call.op = "none" => call = Idle
    /\ call.id # 0 => call.todo # <<>>
    /\ \A i \in 2 .. Len(call.todo) : call.todo[i] # "version"
    /\ (call.todo # <<>> /\ call.todo[1] = "version") => call.got = <<>>
    /\ (call.op = "publish" /\ call.todo # <<>>) => call.todo[Len(call.todo)] = "post"
    /\ call.op = "update" => swap.confs # None
    /\ call.op # "none" =>
          Len(call.todo) + Len(call.got) =
             Len(Steps(call.op))
                + IF call.todo # <<>> /\ call.todo[1] = "version" THEN 1 ELSE 0
    /\ conn = "connecting" => call.todo # <<>> /\ call.todo[1] = "version"

Fresh ==
    /\ chain \in past
    /\ \A i \in DOMAIN call.got : call.got[i] \in past
    /\ \A r \in wire : r.id = call.id => r.method = Head(call.todo)
    /\ \A line \in Lines :
          Accepts(line) => line.at \in past /\ line.req.method = Head(call.todo)

Taken ==
    /\ \A line \in Lines :
          line.kind = "ok" /\ line.req.method = "post" => chain.redeem # None
    /\ call.op = "publish" /\ call.todo = <<>> => chain.redeem # None
    /\ PublishedIsTaken

IInv == TypeOK /\ Numbers /\ Plan /\ Fresh /\ Taken

\* What is in a block stays there while no block is lost.
Before(c, d) ==
    /\ c.head <= d.head
    /\ \A o \in Outputs : c.out[o] > Mempool => d.out[o] = c.out[o]
    /\ c.redeem > Mempool => d.redeem = c.redeem

History ==
    \A c \in past : /\ c.undone <= chain.undone
                    /\ c.undone = chain.undone => Before(c, chain)
                    /\ c.redeem <= c.head

\* The last head is asked for only when the redeem transaction is in a block.
Mined ==
    (call.op = "update" /\ (Len(call.got) = 3 \/ (Len(call.got) = 2 /\ call.id # 0)))
       => call.got[2].redeem > Mempool

HInv == History /\ Mined

-----------------------------------------------------------------------------
LEMMA InitIInv == Init => IInv
<1> SUFFICES ASSUME Init PROVE IInv
  OBVIOUS
<1>1. Lines = {}
  BY DEF Init, Lines
<1>2. TypeOK
  BY ElectrumAssumption, EmptySeq DEF Init, TypeOK, Chain, Idle, Op, Block, None
<1>3. Numbers /\ Plan /\ Fresh /\ Taken
  BY <1>1, <1>2 DEF Init, Numbers, Plan, Fresh, Taken, PublishedIsTaken, Idle, None
<1>4. QED
  BY <1>2, <1>3 DEF IInv

LEMMA Empty ==
    ASSUME NEW S, NEW s, s = <<>>
    PROVE  s \in Seq(S) /\ Len(s) = 0 /\ DOMAIN s = {}
<1>1. <<>> \in Seq(S) /\ Len(<<>>) = 0
  BY EmptySeq
<1>2. DOMAIN <<>> = {}
  OBVIOUS
<1>3. QED
  BY <1>1, <1>2, Zenon

LEMMA LinesTyped == TypeOK => Lines \subseteq Line
BY LenProperties DEF TypeOK, Lines

LEMMA LinesAppend ==
    ASSUME TypeOK, NEW line \in Line, stream' = Append(stream, line)
    PROVE  stream' \in Seq(Line) /\ Lines' = Lines \cup {line}
<1>1. stream \in Seq(Line) /\ Len(stream) \in Nat /\ DOMAIN stream = 1 .. Len(stream)
  BY LenProperties DEF TypeOK
<1>2. /\ stream' \in Seq(Line) /\ Len(stream') = Len(stream) + 1
      /\ \A i \in 1 .. Len(stream) : stream'[i] = stream[i]
      /\ stream'[Len(stream) + 1] = line
  BY <1>1, AppendProperties
<1>3. DOMAIN stream' = 1 .. Len(stream) + 1
  BY <1>2, LenProperties
<1>4. QED
  BY <1>1, <1>2, <1>3 DEF Lines

LEMMA LinesTail ==
    ASSUME TypeOK, stream # <<>>
    PROVE  /\ Tail(stream) \in Seq(Line)
           /\ {Tail(stream)[i] : i \in DOMAIN Tail(stream)} \subseteq Lines
           /\ Head(stream) \in Lines /\ Head(stream) \in Line
<1>1. stream \in Seq(Line) /\ Len(stream) \in Nat \ {0} /\ DOMAIN stream = 1 .. Len(stream)
  BY LenProperties, EmptySeq DEF TypeOK
<1>2. /\ Tail(stream) \in Seq(Line) /\ Len(Tail(stream)) = Len(stream) - 1
      /\ \A i \in 1 .. Len(Tail(stream)) : Tail(stream)[i] = stream[i + 1]
      /\ Head(stream) = stream[1] /\ Head(stream) \in Line
  BY <1>1, HeadTailProperties, ElementOfSeq
<1>3. DOMAIN Tail(stream) = 1 .. Len(stream) - 1
  BY <1>2, LenProperties
<1>4. QED
  BY <1>1, <1>2, <1>3 DEF Lines

-----------------------------------------------------------------------------
(* The chain and the server. *)

LEMMA EnvironmentKeeps ==
    ASSUME IInv, NEW c \in Chain, chain.redeem # None => c.redeem # None, Environment(c)
    PROVE  IInv'
<1>1. /\ chain' = c /\ Lines' = Lines
      /\ past' = (IF call = Idle THEN {c} ELSE past \cup {c})
      /\ UNCHANGED <<conn, id, wire, stream, call, swap, failed>>
  BY DEF Environment, Seen, Lines
<1>2. TypeOK'
  BY <1>1 DEF IInv, TypeOK
<1>3. Numbers' /\ Plan'
  BY <1>1 DEF IInv, Numbers, Plan
<1>4. Fresh'
  <2>1. CASE call # Idle
    BY <1>1, <2>1 DEF IInv, Fresh, Accepts
  <2>2. CASE call = Idle
    <3>1. call.id = 0 /\ call.got = <<>>
      BY <2>2 DEF Idle
    <3>2. (\A r \in wire : r.id # call.id) /\ \A line \in Lines : line.req.id # call.id
      BY <3>1 DEF IInv, Numbers, TypeOK
    <3>3. QED
      BY <1>1, <2>2, <3>1, <3>2 DEF Fresh, Accepts
  <2>3. QED
    BY <2>1, <2>2
<1>5. Taken'
  BY <1>1 DEF IInv, Taken, PublishedIsTaken
<1>6. QED
  BY <1>2, <1>3, <1>4, <1>5 DEF IInv

LEMMA AnswerKeeps == ASSUME IInv, Answer PROVE IInv'
<1>1. PICK r \in wire, kind \in {"ok", "err"} :
        Reply(r, kind, IF kind = "ok" THEN Posted(r.method) ELSE chain)
  BY DEF Answer
<1> DEFINE c == IF kind = "ok" THEN Posted(r.method) ELSE chain
<1>2. r \in Request /\ chain \in Chain
  BY DEF IInv, TypeOK
<1>3. /\ c \in Chain
      /\ chain.redeem # None => c.redeem # None
      /\ (kind = "ok" /\ r.method = "post") => c.redeem # None
  BY <1>1, <1>2 DEF Posted, Chain, Block, Mempool, None
<1> DEFINE line == [kind |-> kind, req |-> r, at |-> c]
<1>4. /\ line \in Line /\ line.kind = kind /\ line.req = r /\ line.at = c
  BY <1>2, <1>3 DEF Line
<1>5. /\ stream' = Append(stream, line) /\ chain' = c /\ wire' = wire \ {r}
      /\ past' = (IF call = Idle THEN {c} ELSE past \cup {c})
      /\ UNCHANGED <<conn, id, call, swap, failed>>
  BY <1>1 DEF Reply, Seen
<1> HIDE DEF line, c
<1>6. stream' \in Seq(Line) /\ Lines' = Lines \cup {line}
  BY <1>4, <1>5, LinesAppend DEF IInv
<1>7. TypeOK'
  BY <1>3, <1>5, <1>6 DEF IInv, TypeOK
<1>8. Numbers'
  BY <1>4, <1>5, <1>6 DEF IInv, Numbers
<1>9. Plan'
  BY <1>5 DEF IInv, Plan
<1>10. Fresh'
  <2>1. CASE call # Idle
    BY <1>4, <1>5, <1>6, <2>1 DEF IInv, Fresh, Accepts
  <2>2. CASE call = Idle
    <3>1. call.id = 0 /\ call.got = <<>>
      BY <2>2 DEF Idle
    <3>2. (\A x \in wire : x.id # call.id) /\ \A x \in Lines : x.req.id # call.id
      BY <3>1 DEF IInv, Numbers, TypeOK
    <3>3. QED
      BY <1>4, <1>5, <1>6, <2>2, <3>1, <3>2 DEF Fresh, Accepts
  <2>3. QED
    BY <2>1, <2>2
<1>11. Taken'
  BY <1>3, <1>4, <1>5, <1>6 DEF IInv, Taken, PublishedIsTaken
<1>12. QED
  BY <1>7, <1>8, <1>9, <1>10, <1>11 DEF IInv

LEMMA ChainKeeps ==
    ASSUME IInv, Deposit \/ Mine \/ Undo
    PROVE  IInv'
<1>1. chain \in Chain
  BY DEF IInv, TypeOK
<1>2. CASE Deposit
  <2>1. PICK o \in Outputs : Environment([chain EXCEPT !.out[o] = Mempool])
    BY <1>2 DEF Deposit
  <2>2. /\ [chain EXCEPT !.out[o] = Mempool] \in Chain
        /\ [chain EXCEPT !.out[o] = Mempool].redeem = chain.redeem
    BY <1>1 DEF Chain, Block, Mempool
  <2>3. QED
    BY <2>1, <2>2, EnvironmentKeeps
<1>3. CASE Mine
  <2>1. PICK T \in SUBSET {o \in Outputs : chain.out[o] = Mempool},
             takes \in {FALSE, chain.redeem = Mempool} :
          Environment([chain EXCEPT !.head = @ + 1,
                         !.out = [o \in Outputs |->
                                    IF o \in T THEN chain.head + 1 ELSE chain.out[o]],
                         !.redeem = IF takes THEN chain.head + 1 ELSE @])
    BY <1>3 DEF Mine
  <2> DEFINE out == [o \in Outputs |-> IF o \in T THEN chain.head + 1 ELSE chain.out[o]]
             redeem == IF takes THEN chain.head + 1 ELSE chain.redeem
             c == [chain EXCEPT !.head = @ + 1, !.out = out, !.redeem = redeem]
  <2>2. chain.head + 1 \in Nat /\ chain.head + 1 # None
    BY <1>1 DEF Chain, None
  <2>3. out \in [Outputs -> Block] /\ redeem \in Block
    BY <1>1, <2>2 DEF Chain, Block
  <2>4. c \in Chain /\ (chain.redeem # None => c.redeem # None)
    BY <1>1, <2>2, <2>3 DEF Chain
  <2>5. Environment(c)
    BY <2>1
  <2>6. QED
    BY <2>4, <2>5, EnvironmentKeeps
<1>4. CASE Undo
  <2> DEFINE Back(b) == IF b = chain.head THEN Mempool ELSE b
             c == [head |-> chain.head - 1, out |-> [o \in Outputs |-> Back(chain.out[o])],
                   redeem |-> Back(chain.redeem), undone |-> chain.undone + 1]
  <2>1. Environment(c) /\ chain.head > 1
    BY <1>4 DEF Undo
  <2>2. c \in Chain
    BY <1>1, <2>1 DEF Chain, Block, Mempool
  <2>3. chain.redeem # None => c.redeem # None
    BY DEF Mempool, None
  <2>4. QED
    BY <2>1, <2>2, <2>3, EnvironmentKeeps
<1>5. QED
  BY <1>2, <1>3, <1>4

LEMMA CloseKeeps == ASSUME IInv, Close PROVE IInv'
<1>1. /\ conn' = "closed" /\ wire' = {} /\ Lines' = Lines
      /\ UNCHANGED <<chain, id, stream, call, swap, failed, past>>
  BY DEF Close, Lines
<1>2. QED
  BY <1>1 DEF IInv, TypeOK, Numbers, Plan, Fresh, Taken, Accepts, PublishedIsTaken

-----------------------------------------------------------------------------
(* The client. *)

LEMMA StepsOf ==
    ASSUME NEW op \in Op \ {"none"}
    PROVE  /\ Steps(op) \in Seq(Method) /\ Len(Steps(op)) \in 1 .. 3
           /\ \A i \in 1 .. Len(Steps(op)) : Steps(op)[i] # "version"
           /\ op = "publish" => Steps(op)[Len(Steps(op))] = "post"
           /\ op = "check" => Len(Steps(op)) = 2
           /\ op = "update" => Len(Steps(op)) = 3
<1>1. CASE op = "check"
  BY <1>1 DEF Steps, Method
<1>2. CASE op = "publish"
  BY <1>2 DEF Steps, Method
<1>3. CASE op = "update"
  BY <1>3 DEF Steps, Method
<1>4. QED
  BY <1>1, <1>2, <1>3 DEF Op

LEMMA StepsAfterVersion ==
    ASSUME NEW op \in Op \ {"none"}, NEW todo, todo = <<"version">> \o Steps(op)
    PROVE  /\ todo \in Seq(Method) /\ Len(todo) = Len(Steps(op)) + 1
           /\ todo[1] = "version"
           /\ \A i \in 2 .. Len(todo) : todo[i] # "version"
           /\ op = "publish" => todo[Len(todo)] = "post"
<1>1. <<"version">> \in Seq(Method) /\ Len(<<"version">>) = 1 /\ <<"version">>[1] = "version"
  BY DEF Method
<1>2. /\ todo \in Seq(Method) /\ Len(todo) = Len(Steps(op)) + 1
      /\ \A i \in 1 .. Len(Steps(op)) + 1 :
            todo[i] = IF i <= 1 THEN <<"version">>[i] ELSE Steps(op)[i - 1]
  BY <1>1, StepsOf, ConcatProperties
<1>3. QED
  BY <1>1, <1>2, StepsOf

LEMMA BeginKeeps ==
    ASSUME IInv, NEW op \in Op \ {"none"}, Begin(op)
    PROVE  IInv'
<1> DEFINE todo == IF conn = "none" THEN <<"version">> \o Steps(op) ELSE Steps(op)
<1>1. /\ call = Idle /\ Allowed(op) /\ past' = {chain}
      /\ call' = [op |-> op, todo |-> todo, id |-> 0, got |-> <<>>]
      /\ UNCHANGED <<chain, id, wire, stream, swap, failed>> /\ Lines' = Lines
  BY DEF Begin, Idle, Lines
<1>2. /\ conn' \in {"none", "connecting", "open", "closed"}
      /\ call'.todo \in Seq(Method) /\ Len(call'.todo) \in 1 .. 4
      /\ \A i \in 2 .. Len(call'.todo) : call'.todo[i] # "version"
      /\ op = "publish" => call'.todo[Len(call'.todo)] = "post"
      /\ Len(call'.todo) = Len(Steps(op)) + IF call'.todo[1] = "version" THEN 1 ELSE 0
      /\ conn' = "connecting" => call'.todo[1] = "version"
  <2>1. CASE conn = "none"
    <3>1. call'.todo = <<"version">> \o Steps(op) /\ conn' = "connecting"
      BY <2>1 DEF Begin, Idle
    <3>2. /\ call'.todo \in Seq(Method) /\ Len(call'.todo) = Len(Steps(op)) + 1
          /\ call'.todo[1] = "version"
          /\ \A i \in 2 .. Len(call'.todo) : call'.todo[i] # "version"
          /\ op = "publish" => call'.todo[Len(call'.todo)] = "post"
      BY <3>1, StepsAfterVersion
    <3>3. Len(Steps(op)) \in 1 .. 3
      BY StepsOf
    <3>4. QED
      BY <3>1, <3>2, <3>3
  <2>2. CASE conn # "none"
    <3>1. call'.todo = Steps(op) /\ conn' = conn
      BY <2>2 DEF Begin, Idle
    <3>2. conn \in {"open", "closed"}
      BY <1>1, <2>2 DEF IInv, TypeOK
    <3>3. Len(Steps(op)) \in 1 .. 3 /\ \A i \in 1 .. Len(Steps(op)) : Steps(op)[i] # "version"
      BY StepsOf
    <3>4. Steps(op)[1] # "version"
      BY <3>3
    <3>5. QED
      BY <3>1, <3>2, <3>3, <3>4, StepsOf
  <2>3. QED
    BY <2>1, <2>2
<1>3. call'.todo # <<>> /\ call'.op = op /\ call'.id = 0 /\ call'.got = <<>>
  <2>1. call'.op = op /\ call'.id = 0 /\ call'.got = <<>> /\ call'.todo = todo
    BY <1>1
  <2>2. Len(call'.todo) # Len(<<>>)
    BY <1>2, EmptySeq
  <2>3. QED
    BY <2>1, <2>2
<1> HIDE DEF todo
<1>4. TypeOK'
  <2>1. call' \in [op : Op, todo : Seq(Method), id : Nat, got : Seq(Chain)]
    <3>1. todo \in Seq(Method) /\ <<>> \in Seq(Chain)
      BY <1>1, <1>2, EmptySeq
    <3>2. QED
      BY <1>1, <3>1
  <2>2. call' # Idle
    BY <1>3 DEF Idle
  <2>3. {chain} \subseteq Chain
    BY DEF IInv, TypeOK
  <2>4. QED
    BY <1>1, <1>2, <2>1, <2>2, <2>3 DEF IInv, TypeOK
<1>5. Numbers'
  BY <1>1, <1>3 DEF IInv, Numbers
<1>6. Plan'
  <2>1. op = "update" => swap.confs # None
    BY <1>1 DEF Allowed
  <2>2. op # "none" /\ Len(call'.got) = 0 /\ Len(call'.todo) \in Nat
    BY <1>2, <1>3, EmptySeq
  <2>3. QED
    BY <1>1, <1>2, <1>3, <2>1, <2>2 DEF Plan
<1>7. Fresh'
  <2>1. \A x \in wire : x.id # 0
    BY DEF IInv, Numbers, TypeOK
  <2>2. \A x \in Lines : x.req.id # 0
    BY DEF IInv, Numbers, TypeOK
  <2>3. QED
    BY <1>1, <1>3, <2>1, <2>2 DEF Fresh, Accepts
<1>8. Taken'
  BY <1>1, <1>3 DEF IInv, Taken, PublishedIsTaken
<1>9. QED
  BY <1>4, <1>5, <1>6, <1>7, <1>8 DEF IInv

\* However the call fails, nothing that is left can be taken for an answer.
LEMMA CallEnds ==
    ASSUME IInv, call' = Idle, past' = {chain}, UNCHANGED <<chain, swap>>, failed' \in Nat,
           conn' \in {"none", "open", "closed"}, id' \in Nat, wire' \subseteq wire,
           stream' \in Seq(Line), \A line \in Lines' : line \in Lines \/ line.kind # "ok",
           \A r \in wire' : r.id \in 1 .. id',
           \A line \in Lines' : line.req.id \in 1 .. id'
    PROVE  IInv'
<1>1. /\ call'.op = "none" /\ call'.id = 0 /\ call'.todo = <<>> /\ call'.got = <<>>
  BY DEF Idle
<1>2. TypeOK'
  BY ElectrumAssumption, EmptySeq DEF IInv, TypeOK, Idle, Op
<1>3. Numbers'
  BY <1>1 DEF Numbers
<1>4. Plan'
  BY <1>1, EmptySeq DEF Plan
<1>5. Fresh'
  <2>1. \A r \in wire' : r.id # 0
    OBVIOUS
  <2>2. \A line \in Lines' : line.req.id # 0
    OBVIOUS
  <2>3. QED
    BY <1>1, <2>1, <2>2 DEF Fresh, Accepts
<1>6. Taken'
  BY <1>1 DEF IInv, Taken, PublishedIsTaken
<1>7. QED
  BY <1>2, <1>3, <1>4, <1>5, <1>6 DEF IInv

LEMMA FailKeeps ==
    ASSUME IInv, NEW drawn \in {id, id + 1}, FailAfter(drawn),
           stream' \in Seq(Line), Lines' \subseteq Lines,
           conn = "connecting" => stream' = <<>>
    PROVE  IInv'
<1>1. /\ call' = Idle /\ failed' \in Nat /\ past' = {chain} /\ UNCHANGED <<chain, swap>>
  BY DEF FailAfter, IInv, TypeOK
<1>2. CASE conn = "connecting"
  <2>1. conn' = "none" /\ wire' = {} /\ id' = 0 /\ Lines' = {}
    BY <1>2 DEF FailAfter, Lines
  <2>2. QED
    BY <1>1, <2>1, CallEnds
<1>3. CASE conn # "connecting"
  <2>1. /\ UNCHANGED <<conn, wire>> /\ conn' \in {"none", "open", "closed"}
        /\ id \in Nat /\ id' \in {id, id + 1}
    BY <1>3 DEF FailAfter, IInv, TypeOK
  <2>2. (\A r \in wire' : r.id \in 1 .. id') /\ \A line \in Lines' : line.req.id \in 1 .. id'
    BY <2>1 DEF IInv, Numbers
  <2>3. QED
    BY <1>1, <2>1, <2>2, CallEnds
<1>4. QED
  BY <1>2, <1>3

LEMMA FailuresKeep ==
    ASSUME IInv, WriteFails \/ ReadOther \/ ReadEnd
    PROVE  IInv'
<1>1. TypeOK
  BY DEF IInv
<1>2. <<>> \in Seq(Line) /\ stream \in Seq(Line)
  BY <1>1, EmptySeq DEF TypeOK
<1>3. CASE WriteFails
  <2>1. FailAfter(id + 1) /\ stream' \in Seq(Line) /\ Lines' \subseteq Lines
        /\ (conn = "connecting" => stream' = <<>>)
    BY <1>2, <1>3 DEF WriteFails, Rest, Lines
  <2>2. QED
    BY <2>1, FailKeeps
<1>4. CASE ReadOther
  <2>1. Fail /\ stream' \in Seq(Line) /\ Lines' \subseteq Lines
        /\ (conn = "connecting" => stream' = <<>>)
    BY <1>1, <1>2, <1>4, LinesTail DEF ReadOther, Rest, Lines
  <2>2. QED
    BY <2>1, FailKeeps DEF Fail
<1>5. CASE ReadEnd
  <2>1. Fail /\ stream' = <<>> /\ Lines' = {}
    BY <1>5 DEF ReadEnd, Lines
  <2>2. QED
    BY <1>2, <2>1, FailKeeps DEF Fail
<1>6. QED
  BY <1>3, <1>4, <1>5

\* Half a line may arrive: what follows of it is no answer.
LEMMA TimeoutKeeps == ASSUME IInv, Timeout PROVE IInv'
<1>1. TypeOK
  BY DEF IInv
<1>2. CASE Fail /\ stream' = <<>>
  <2>1. stream' \in Seq(Line) /\ Lines' \subseteq Lines
    BY <1>2, EmptySeq DEF Lines
  <2>2. QED
    BY <1>2, <2>1, FailKeeps DEF Fail
<1>3. CASE ~(Fail /\ stream' = <<>>)
  <2>1. PICK r \in wire :
          /\ wire' = wire \ {r}
          /\ stream' = <<[kind |-> "garbage", req |-> r, at |-> chain]>>
    BY <1>3 DEF Timeout
  <2> DEFINE line == [kind |-> "garbage", req |-> r, at |-> chain]
  <2>2. /\ call' = Idle /\ failed' = failed + 1 /\ past' = {chain}
        /\ conn = "open" /\ UNCHANGED <<chain, conn, id, swap>>
    BY <1>3 DEF Timeout
  <2>3. line \in Line /\ line.kind # "ok" /\ line.req = r
    BY <1>1 DEF Line, TypeOK
  <2>4. stream' \in Seq(Line) /\ Lines' = {line}
    <3>1. stream' = <<line>> /\ DOMAIN stream' = {1} /\ stream'[1] = line
      BY <2>1
    <3>2. <<line>> \in Seq(Line)
      BY <2>3
    <3>3. QED
      BY <3>1, <3>2 DEF Lines
  <2>5. r.id \in 1 .. id /\ (\A x \in wire' : x.id \in 1 .. id) /\ id \in Nat
    BY <1>1, <2>1 DEF IInv, Numbers, TypeOK
  <2> HIDE DEF line
  <2>6. failed' \in Nat /\ wire' \subseteq wire
    BY <1>1, <2>1, <2>2 DEF TypeOK
  <2>7. QED
    BY <2>2, <2>3, <2>4, <2>5, <2>6, CallEnds
<1>4. QED
  BY <1>2, <1>3

\* A new number: no line that is there answers it.
LEMMA WriteKeeps == ASSUME IInv, Write PROVE IInv'
<1>1. /\ call.op # "none" /\ ~Done /\ id' = id + 1 /\ Lines' = Lines
      /\ call' = [call EXCEPT !.id = id + 1]
      /\ wire' \subseteq wire \cup {[id |-> id + 1, method |-> Head(call.todo)]}
      /\ UNCHANGED <<chain, conn, stream, swap, failed, past>>
  BY DEF Write, Lines
<1>2. id \in Nat /\ call \in [op : Op, todo : Seq(Method), id : Nat, got : Seq(Chain)]
  BY DEF IInv, TypeOK
<1>3. /\ call'.op = call.op /\ call'.todo = call.todo /\ call'.got = call.got
      /\ call'.id = id + 1
  BY <1>1, <1>2
<1>4. call.todo # <<>>
  BY <1>1 DEF Done
<1>5. Head(call.todo) \in Method
  BY <1>2, <1>4, HeadTailProperties
<1>6. TypeOK'
  <2>1. wire' \subseteq Request
    BY <1>1, <1>2, <1>5 DEF IInv, TypeOK, Request
  <2>2. call' \in [op : Op, todo : Seq(Method), id : Nat, got : Seq(Chain)]
    BY <1>1, <1>2
  <2>3. call' # Idle
    BY <1>1, <1>3 DEF Idle
  <2>4. QED
    BY <1>1, <1>2, <2>1, <2>2, <2>3 DEF IInv, TypeOK
<1>7. /\ \A r \in wire : r.id \in 1 .. id
      /\ \A line \in Lines : line.req.id \in 1 .. id
  BY DEF IInv, Numbers
<1>8. Numbers'
  BY <1>1, <1>2, <1>3, <1>7 DEF Numbers
<1>9. Plan'
  BY <1>1, <1>3, <1>4 DEF IInv, Plan
<1>10. Fresh'
  <2>1. \A r \in wire' : r.id = id + 1 => r.method = Head(call.todo)
    BY <1>1, <1>2, <1>7
  <2>2. \A line \in Lines : line.req.id # id + 1
    BY <1>2, <1>7
  <2>3. QED
    BY <1>1, <1>3, <2>1, <2>2 DEF IInv, Fresh, Accepts
<1>11. Taken'
  BY <1>1, <1>3 DEF IInv, Taken, PublishedIsTaken
<1>12. QED
  BY <1>6, <1>8, <1>9, <1>10, <1>11 DEF IInv

LEMMA ReadAnswerKeeps == ASSUME IInv, ReadAnswer PROVE IInv'
<1> DEFINE line == Head(stream)
           got == IF Head(call.todo) = "version" THEN call.got ELSE Append(call.got, line.at)
<1>1. /\ call.id # 0 /\ stream # <<>> /\ Accepts(line)
      /\ stream' = Tail(stream)
      /\ call' = [call EXCEPT !.id = 0, !.todo = Tail(call.todo), !.got = got]
      /\ conn' = IF Head(call.todo) = "version" THEN "open" ELSE conn
      /\ UNCHANGED <<chain, id, wire, swap, failed, past>>
  BY DEF ReadAnswer, Waiting
<1>2. /\ TypeOK /\ chain \in Chain /\ past \subseteq Chain
      /\ call \in [op : Op, todo : Seq(Method), id : Nat, got : Seq(Chain)]
  BY DEF IInv, TypeOK
<1>3. stream' \in Seq(Line) /\ Lines' \subseteq Lines /\ line \in Lines
  BY <1>1, <1>2, LinesTail DEF Lines
<1>4. line.at \in past /\ line.req.method = Head(call.todo) /\ line.kind = "ok"
  BY <1>1, <1>3 DEF IInv, Fresh, Accepts
<1>5. call.todo # <<>> /\ call.op # "none"
  BY <1>1 DEF IInv, Plan, Idle
<1>6. /\ Len(call.todo) \in Nat \ {0} /\ Head(call.todo) = call.todo[1]
      /\ Tail(call.todo) \in Seq(Method) /\ Len(Tail(call.todo)) = Len(call.todo) - 1
      /\ \A i \in 1 .. Len(call.todo) - 1 : Tail(call.todo)[i] = call.todo[i + 1]
  BY <1>2, <1>5, HeadTailProperties, EmptySeq, LenProperties
<1>7. /\ got \in Seq(Chain) /\ \A i \in DOMAIN got : got[i] \in past
      /\ Len(got) = IF call.todo[1] = "version" THEN 0 ELSE Len(call.got) + 1
      /\ Len(call.got) \in Nat
  <2>1. Len(call.got) \in Nat /\ DOMAIN call.got = 1 .. Len(call.got)
        /\ \A i \in DOMAIN call.got : call.got[i] \in past
    BY <1>2, LenProperties DEF IInv, Fresh
  <2>2. CASE call.todo[1] = "version"
    <3>1. got = <<>>
      BY <1>5, <1>6, <2>2 DEF IInv, Plan
    <3> HIDE DEF got
    <3>2. Len(got) = 0 /\ DOMAIN got = {} /\ got \in Seq(Chain)
      BY <3>1, Empty, Zenon
    <3>3. QED
      BY <2>1, <2>2, <3>2
  <2>3. CASE call.todo[1] # "version"
    <3>1. got = Append(call.got, line.at) /\ line.at \in Chain
      BY <1>2, <1>4, <1>6, <2>3
    <3>2. /\ got \in Seq(Chain) /\ Len(got) = Len(call.got) + 1
          /\ \A i \in 1 .. Len(call.got) : got[i] = call.got[i]
          /\ got[Len(call.got) + 1] = line.at
      BY <1>2, <3>1, AppendProperties
    <3>3. DOMAIN got = 1 .. Len(call.got) + 1
      BY <3>2, LenProperties
    <3>4. QED
      BY <1>4, <2>1, <2>3, <3>2, <3>3
  <2>4. QED
    BY <2>2, <2>3
<1> HIDE DEF got, line
<1>8. /\ call'.op = call.op /\ call'.id = 0 /\ call'.todo = Tail(call.todo)
      /\ call'.got = got
  BY <1>1, <1>2
<1>9. conn' # "connecting" /\ conn' \in {"none", "open", "closed"}
  BY <1>1, <1>2, <1>5, <1>6 DEF IInv, Plan, TypeOK
<1>10. TypeOK'
  <2>1. call' \in [op : Op, todo : Seq(Method), id : Nat, got : Seq(Chain)]
    BY <1>1, <1>2, <1>6, <1>7
  <2>2. QED
    BY <1>1, <1>3, <1>9, <2>1 DEF IInv, TypeOK
<1>11. Numbers'
  BY <1>1, <1>3, <1>8 DEF IInv, Numbers
<1>12. Tail(call.todo) # <<>> => Len(call.todo) > 1
  BY <1>6, EmptySeq
<1>13. Plan'
  <2>1. \A i \in 2 .. Len(call'.todo) : call'.todo[i] # "version"
    BY <1>6, <1>8 DEF IInv, Plan
  <2>2. call'.todo # <<>> => call'.todo[1] # "version"
    BY <1>6, <1>8, <1>12 DEF IInv, Plan
  <2>3. call'.op = "publish" /\ call'.todo # <<>> => call'.todo[Len(call'.todo)] = "post"
    BY <1>5, <1>6, <1>8, <1>12 DEF IInv, Plan
  <2>4. Len(call'.todo) + Len(call'.got) = Len(Steps(call.op))
    <3> DEFINE left == Len(Tail(call.todo))
               now == Len(got)
               todo == Len(call.todo)
               had == Len(call.got)
               all == Len(Steps(call.op))
    <3>1. todo + had = all + IF call.todo[1] = "version" THEN 1 ELSE 0
      BY <1>5 DEF IInv, Plan
    <3>2. call.todo[1] = "version" => had = 0
      <4>1. call.todo[1] = "version" => call.got = <<>>
        BY <1>5 DEF IInv, Plan
      <4>2. QED
        BY <4>1, Empty, Zenon
    <3>3. left = todo - 1 /\ had \in Nat /\ todo \in Nat /\ all \in Nat
      <4>1. call.op \in Op \ {"none"}
        BY <1>2, <1>5
      <4>2. all \in 1 .. 3
        BY <4>1, StepsOf
      <4>3. QED
        BY <1>6, <1>7, <4>2
    <3>4. now = IF call.todo[1] = "version" THEN 0 ELSE had + 1
      BY <1>7
    <3>5. call'.todo = Tail(call.todo) /\ call'.got = got
      BY <1>8
    <3>6. left + now = all
      <4> HIDE DEF left, now, todo, had, all
      <4>1. CASE call.todo[1] = "version"
        <5>1. now = 0 /\ had = 0 /\ todo + had = all + 1
          BY <3>1, <3>2, <3>4, <4>1
        <5>2. QED
          BY <3>3, <5>1
      <4>2. CASE call.todo[1] # "version"
        <5>1. now = had + 1 /\ todo + had = all + 0
          BY <3>1, <3>4, <4>2
        <5>2. QED
          BY <3>3, <5>1
      <4>3. QED
        BY <4>1, <4>2
    <3>7. QED
      BY <3>5, <3>6
  <2>5. QED
    <3>1. swap'.confs = swap.confs /\ (call.op = "update" => swap.confs # None)
      BY <1>1 DEF IInv, Plan
    <3>2. Len(Steps(call.op)) + 0 = Len(Steps(call.op))
      <4>1. call.op \in Op \ {"none"}
        BY <1>2, <1>5
      <4>2. Len(Steps(call.op)) \in 1 .. 3
        BY <4>1, StepsOf
      <4>3. QED
        BY <4>2
    <3>3. QED
      BY <1>5, <1>8, <1>9, <2>1, <2>2, <2>3, <2>4, <3>1, <3>2 DEF Plan
<1>14. Fresh'
  <2>1. (\A r \in wire : r.id # 0) /\ \A l \in Lines : l.req.id # 0
    BY DEF IInv, Numbers, TypeOK
  <2>2. QED
    BY <1>1, <1>3, <1>7, <1>8, <2>1 DEF IInv, Fresh, Accepts
<1>15. Taken'
  <2>1. ASSUME call.op = "publish", Tail(call.todo) = <<>>
        PROVE  chain.redeem # None
    <3>1. Len(call.todo) = 1
      <4>1. Len(Tail(call.todo)) = 0
        BY <2>1, Empty, Zenon
      <4>2. QED
        BY <1>6, <4>1
    <3>2. Head(call.todo) = "post"
      BY <1>5, <1>6, <2>1, <3>1 DEF IInv, Plan
    <3>3. QED
      BY <1>3, <1>4, <3>2 DEF IInv, Taken
  <2>2. QED
    BY <1>1, <1>3, <1>8, <2>1 DEF IInv, Taken, PublishedIsTaken
<1>16. QED
  BY <1>10, <1>11, <1>13, <1>14, <1>15 DEF IInv

\* An operation that has asked everything has as many answers as it has steps.
LEMMA AllAnswered ==
    ASSUME IInv, call.op # "none", call.todo = <<>>
    PROVE  Len(call.got) = Len(Steps(call.op))
<1>1. call.op \in Op \ {"none"} /\ call.got \in Seq(Chain)
  BY DEF IInv, TypeOK
<1>2. Len(Steps(call.op)) \in 1 .. 3 /\ Len(call.got) \in Nat
  BY <1>1, StepsOf, LenProperties
<1>3. Len(call.todo) = 0
  BY Empty, Zenon
<1>4. Len(call.todo) + Len(call.got) = Len(Steps(call.op)) + 0
  BY DEF IInv, Plan
<1>5. QED
  BY <1>2, <1>3, <1>4

\* What an operation stores, and the two things the stored value stands for.
LEMMA ResultIs ==
    ASSUME IInv, Done
    PROVE  /\ Result \in [locked : BOOLEAN, confs : Block]
           /\ call.op = "check" => Result.confs = swap.confs
           /\ call.op = "publish" => call.todo = <<>>
           /\ call.op = "update" => swap.confs # None
<1>1. /\ swap \in [locked : BOOLEAN, confs : Block] /\ call.op \in Op \ {"none"}
      /\ call.got \in Seq(Chain)
  BY DEF IInv, TypeOK, Done
<1>2. call.op = "publish" => call.todo = <<>>
  BY DEF Done, NotMined
<1>3. call.op = "update" => swap.confs # None
  BY DEF IInv, Plan
<1>4. CASE call.op = "check"
  <2>1. Result = [swap EXCEPT !.locked =
                    Cardinality(Confirmed(call.got[1], call.got[2].head)) >= Amount]
    BY <1>4 DEF Result
  <2>2. (Cardinality(Confirmed(call.got[1], call.got[2].head)) >= Amount) \in BOOLEAN
    OBVIOUS
  <2>3. QED
    BY <1>1, <1>4, <2>1, <2>2
<1>5. CASE call.op = "publish"
  <2>1. Result = [swap EXCEPT !.confs = 0]
    BY <1>5 DEF Result
  <2>2. QED
    BY <1>1, <1>2, <1>5, <2>1 DEF Block
<1>6. CASE call.op = "update" /\ NotMined
  <2>1. Result = swap
    BY <1>6 DEF Result
  <2>2. QED
    BY <1>1, <1>3, <1>6, <2>1
<1>7. CASE call.op = "update" /\ ~NotMined
  <2>1. call.todo = <<>>
    BY <1>7 DEF Done
  <2>2. Len(call.got) = 3
    <3>1. Len(Steps(call.op)) = 3 /\ call.op # "none"
      BY <1>1, <1>7, StepsOf
    <3>2. QED
      BY <2>1, <3>1, AllAnswered
  <2>3. call.got[1] \in Chain /\ call.got[2] \in Chain /\ call.got[3] \in Chain
    BY <1>1, <2>2, ElementOfSeq
  <2> DEFINE height == TxHeight(call.got[1].head, Reported(call.got[2]))
             confs == Monus(call.got[3].head, height) + 1
  <2>4. Result = [swap EXCEPT !.confs = confs]
    BY <1>7 DEF Result
  <2>5. height \in Nat
    BY <2>3 DEF TxHeight, Monus, Reported, Chain, Block, None, Mempool
  <2>6. confs \in Block
    BY <2>3, <2>5 DEF Monus, Chain, Block
  <2> HIDE DEF confs
  <2>7. QED
    BY <1>1, <1>3, <1>7, <2>4, <2>6
<1>8. QED
  BY <1>1, <1>4, <1>5, <1>6, <1>7 DEF Op

LEMMA ReturnKeeps == ASSUME IInv, Return PROVE IInv'
<1>1. /\ Done /\ swap' = Result /\ call' = Idle /\ past' = {chain} /\ Lines' = Lines
      /\ UNCHANGED <<chain, conn, id, wire, stream, failed>>
  BY DEF Return, Lines
<1>2. /\ call'.op = "none" /\ call'.id = 0 /\ call'.todo = <<>> /\ call'.got = <<>>
  BY <1>1 DEF Idle
<1>3. swap' \in [locked : BOOLEAN, confs : Block]
  BY <1>1, ResultIs
<1>4. conn # "connecting"
  <2>1. CASE call.todo = <<>>
    BY <2>1 DEF IInv, Plan
  <2>2. CASE NotMined
    <3>1. call.got # <<>>
      <4>1. Len(call.got) # 0
        BY <2>2 DEF NotMined
      <4>2. QED
        BY <4>1, Empty, Zenon
    <3>2. QED
      BY <3>1 DEF IInv, Plan
  <2>3. QED
    BY <1>1, <2>1, <2>2 DEF Done
<1>5. TypeOK'
  <2>1. call' \in [op : Op, todo : Seq(Method), id : Nat, got : Seq(Chain)]
    BY <1>1, EmptySeq DEF Idle, Op
  <2>2. {chain} \subseteq Chain
    BY DEF IInv, TypeOK
  <2>3. QED
    BY <1>1, <1>3, <1>4, <2>1, <2>2 DEF IInv, TypeOK
<1>6. Numbers'
  BY <1>1, <1>2 DEF IInv, Numbers
<1>7. Plan'
  BY <1>1, <1>2, <1>4, EmptySeq DEF Plan
<1>8. Fresh'
  <2>1. (\A r \in wire : r.id # 0) /\ \A l \in Lines : l.req.id # 0
    BY DEF IInv, Numbers, TypeOK
  <2>2. QED
    BY <1>1, <1>2, <2>1 DEF Fresh, Accepts
<1>9. Taken'
  <2>1. swap'.confs # None => chain.redeem # None
    <3>1. CASE call.op = "check"
      BY <1>1, <3>1, ResultIs DEF IInv, Taken, PublishedIsTaken
    <3>2. CASE call.op = "publish"
      BY <3>2, <1>1, ResultIs DEF IInv, Taken
    <3>3. CASE call.op = "update"
      BY <3>3, <1>1, ResultIs DEF IInv, Taken, PublishedIsTaken
    <3>4. QED
      BY <1>1, <3>1, <3>2, <3>3 DEF IInv, TypeOK, Op, Done
  <2>2. QED
    BY <1>1, <1>2, <2>1 DEF IInv, Taken, PublishedIsTaken
<1>10. QED
  BY <1>5, <1>6, <1>7, <1>8, <1>9 DEF IInv

-----------------------------------------------------------------------------
LEMMA NextIInv == IInv /\ [Next]_vars => IInv'
<1> SUFFICES ASSUME IInv, [Next]_vars PROVE IInv'
  OBVIOUS
<1>1. CASE \E op \in Op \ {"none"} : Begin(op)
  BY <1>1, BeginKeeps
<1>2. CASE Client
  BY <1>2, WriteKeeps, ReadAnswerKeeps, FailuresKeep, TimeoutKeeps, ReturnKeeps DEF Client
<1>3. CASE Answer \/ Close
  BY <1>3, AnswerKeeps, CloseKeeps
<1>4. CASE Deposit \/ Mine \/ Undo
  BY <1>4, ChainKeeps
<1>5. CASE UNCHANGED vars
  BY <1>5 DEF vars, IInv, TypeOK, Numbers, Plan, Fresh, Taken, Lines, Accepts,
              PublishedIsTaken
<1>6. QED
  BY <1>1, <1>2, <1>3, <1>4, <1>5 DEF Next

LEMMA Invariance == Spec => []IInv
BY InitIInv, NextIInv, PTL DEF Spec

\* The client's state keeps its types, and a half-open client is never left
\* behind by an operation that failed (client, electrum.rs:242-247).
THEOREM TypeCorrect == Spec => []TypeOK
<1>1. IInv => TypeOK
  BY DEF IInv
<1>2. QED
  BY <1>1, Invariance, PTL

\* However many calls timed out before, and whatever they left in the stream,
\* what an operation is given was true of the chain since it began (wait,
\* electrum.rs:57-76).
THEOREM AnswersStayFresh == Spec => []AnswersAreFresh
<1>1. IInv => AnswersAreFresh
  BY DEF IInv, Fresh, AnswersAreFresh
<1>2. QED
  BY <1>1, Invariance, PTL

\* The redeem transaction counts as published only when the server took it,
\* whatever is late, lost or cut in half (publish_secondary_transaction,
\* api.rs:615-637).
THEOREM OnlyTakenCounts == Spec => []PublishedIsTaken
<1>1. IInv => PublishedIsTaken
  BY DEF IInv, Taken
<1>2. QED
  BY <1>1, Invariance, PTL
-----------------------------------------------------------------------------
(* What the chains of a call have in common.  Every lemma below has IInv    *)
(* for the types and for what a call has asked.                             *)

LEMMA InitHInv == Init => HInv
<1> SUFFICES ASSUME Init PROVE HInv
  OBVIOUS
<1>1. past = {chain} /\ chain.redeem = -1 /\ chain.head = 1 /\ chain.undone = 0
  BY DEF Init, None
<1>2. Before(chain, chain)
  BY <1>1 DEF Before
<1>3. History
  BY <1>1, <1>2 DEF History
<1>4. call.op = "none"
  BY DEF Init, Idle
<1>5. QED
  BY <1>3, <1>4 DEF HInv, Mined

LEMMA BeforeItself == ASSUME NEW c \in Chain PROVE Before(c, c)
BY DEF Before, Chain

LEMMA BeforeLater ==
    ASSUME NEW b \in Chain, NEW c \in Chain, NEW d \in Chain, Before(b, c), Before(c, d)
    PROVE  Before(b, d)
<1>1. b.head \in Nat /\ c.head \in Nat /\ d.head \in Nat
  BY DEF Chain
<1>2. b.head <= d.head
  BY <1>1 DEF Before
<1>3. \A o \in Outputs : b.out[o] > Mempool => d.out[o] = b.out[o]
  BY DEF Before
<1>4. b.redeem > Mempool => d.redeem = b.redeem
  BY DEF Before
<1>5. QED
  BY <1>2, <1>3, <1>4 DEF Before

\* The chain moves on or loses a block; the operation sees it either way.
LEMMA SeenKeeps ==
    ASSUME IInv, HInv, NEW c \in Chain, c.redeem <= c.head,
           c.undone > chain.undone \/ (c.undone = chain.undone /\ Before(chain, c)),
           chain' = c, Seen(c), UNCHANGED call
    PROVE  HInv'
<1>1. chain \in past /\ past \subseteq Chain /\ chain \in Chain
  BY DEF IInv, Fresh, TypeOK
<1>2. past' \subseteq past \cup {c}
  BY DEF Seen
<1>3. ASSUME NEW d \in past'
      PROVE  /\ d.undone <= c.undone
             /\ d.undone = c.undone => Before(d, c)
             /\ d.redeem <= d.head
  <2>1. CASE d = c
    BY <2>1, BeforeItself DEF Chain
  <2>2. CASE d \in past
    <3>1. /\ d \in Chain /\ d.redeem <= d.head /\ d.undone <= chain.undone
          /\ d.undone = chain.undone => Before(d, chain)
      BY <1>1, <2>2 DEF HInv, History
    <3>2. d.undone \in Nat /\ chain.undone \in Nat /\ c.undone \in Nat
      BY <1>1, <3>1 DEF Chain
    <3>3. d.undone <= c.undone
      BY <3>1, <3>2
    <3>4. ASSUME d.undone = c.undone PROVE Before(d, c)
      <4>1. d.undone = chain.undone /\ Before(chain, c)
        BY <3>1, <3>2, <3>4
      <4>2. QED
        BY <1>1, <3>1, <4>1, BeforeLater
    <3>5. QED
      BY <3>1, <3>3, <3>4
  <2>3. QED
    BY <1>2, <1>3, <2>1, <2>2
<1>4. History'
  BY <1>3 DEF History
<1>5. QED
  BY <1>4 DEF HInv, Mined

LEMMA AnswerHInv == ASSUME IInv, HInv, Answer PROVE HInv'
<1>1. PICK r \in wire, kind \in {"ok", "err"} :
        Reply(r, kind, IF kind = "ok" THEN Posted(r.method) ELSE chain)
  BY DEF Answer
<1> DEFINE c == IF kind = "ok" THEN Posted(r.method) ELSE chain
<1>2. chain \in Chain /\ chain \in past /\ chain.redeem <= chain.head
  BY DEF IInv, TypeOK, Fresh, HInv, History
<1>3. c \in Chain /\ c.redeem <= c.head /\ c.undone = chain.undone /\ Before(chain, c)
  <2>1. CASE c = chain
    BY <1>2, <2>1, BeforeItself
  <2>2. CASE c # chain
    <3>1. c = [chain EXCEPT !.redeem = Mempool] /\ chain.redeem = None
      BY <2>2 DEF Posted
    <3> HIDE DEF c
    <3>2. c \in Chain /\ c.head = chain.head /\ c.out = chain.out /\ c.undone = chain.undone
          /\ c.redeem = 0 /\ chain.redeem = -1 /\ chain.head \in Nat
      BY <1>2, <3>1 DEF Chain, Block, Mempool, None
    <3>3. QED
      BY <3>2 DEF Before, Mempool
  <2>3. QED
    BY <2>1, <2>2
<1>4. chain' = c /\ Seen(c) /\ UNCHANGED call
  BY <1>1 DEF Reply
<1> HIDE DEF c
<1>5. QED
  BY <1>3, <1>4, SeenKeeps

LEMMA ChainHInv == ASSUME IInv, HInv, Deposit \/ Mine \/ Undo PROVE HInv'
<1>1. chain \in Chain /\ chain \in past /\ chain.redeem <= chain.head
  BY DEF IInv, TypeOK, Fresh, HInv, History
<1>2. /\ chain.head \in Nat /\ chain.undone \in Nat /\ chain.redeem \in Block
      /\ chain.out \in [Outputs -> Block]
  BY <1>1 DEF Chain
<1>3. CASE Deposit
  <2>1. PICK o \in Outputs : /\ chain.out[o] = None
                             /\ Environment([chain EXCEPT !.out[o] = Mempool])
    BY <1>3 DEF Deposit
  <2> DEFINE c == [chain EXCEPT !.out[o] = Mempool]
  <2>2. /\ c \in Chain /\ c.redeem = chain.redeem /\ c.head = chain.head
        /\ c.undone = chain.undone
        /\ \A x \in Outputs : x # o => c.out[x] = chain.out[x]
    BY <1>1 DEF Chain, Block, Mempool
  <2>3. Environment(c)
    BY <2>1
  <2> HIDE DEF c
  <2>4. Before(chain, c)
    BY <1>2, <2>1, <2>2 DEF Before, None, Mempool
  <2>5. QED
    BY <1>1, <2>2, <2>3, <2>4, SeenKeeps DEF Environment
<1>4. CASE Mine
  <2>1. PICK T \in SUBSET {o \in Outputs : chain.out[o] = Mempool},
             takes \in {FALSE, chain.redeem = Mempool} :
          Environment([chain EXCEPT !.head = @ + 1,
                         !.out = [o \in Outputs |->
                                    IF o \in T THEN chain.head + 1 ELSE chain.out[o]],
                         !.redeem = IF takes THEN chain.head + 1 ELSE @])
    BY <1>4 DEF Mine
  <2> DEFINE out == [o \in Outputs |-> IF o \in T THEN chain.head + 1 ELSE chain.out[o]]
             redeem == IF takes THEN chain.head + 1 ELSE chain.redeem
             c == [chain EXCEPT !.head = @ + 1, !.out = out, !.redeem = redeem]
  <2>2. chain.head + 1 \in Nat
    BY <1>2
  <2>3. out \in [Outputs -> Block] /\ redeem \in Block
    BY <1>2, <2>2 DEF Block
  <2>4. /\ c \in Chain /\ c.head = chain.head + 1 /\ c.out = out /\ c.redeem = redeem
        /\ c.undone = chain.undone
    BY <1>1, <2>2, <2>3 DEF Chain
  <2>5. Environment(c)
    BY <2>1
  <2> HIDE DEF c
  <2>6. redeem <= chain.head + 1 /\ (chain.redeem > Mempool => redeem = chain.redeem)
    <3>1. CASE takes
      <4>1. chain.redeem = Mempool
        BY <3>1, Zenon
      <4>2. redeem = chain.head + 1 /\ ~(chain.redeem > Mempool)
        BY <3>1, <4>1 DEF Mempool
      <4>3. QED
        BY <1>2, <4>2
    <3>2. CASE ~takes
      BY <1>1, <1>2, <3>2 DEF Block, None
    <3>3. QED
      BY <3>1, <3>2
  <2>7. \A o \in Outputs : chain.out[o] > Mempool => out[o] = chain.out[o]
    BY DEF Mempool
  <2>8. Before(chain, c)
    BY <1>2, <2>4, <2>6, <2>7 DEF Before
  <2>9. QED
    BY <2>4, <2>5, <2>6, <2>8, SeenKeeps DEF Environment
<1>5. CASE Undo
  <2> DEFINE Back(b) == IF b = chain.head THEN Mempool ELSE b
             c == [head |-> chain.head - 1, out |-> [o \in Outputs |-> Back(chain.out[o])],
                   redeem |-> Back(chain.redeem), undone |-> chain.undone + 1]
  <2>1. Environment(c) /\ chain.head > 1
    BY <1>5 DEF Undo
  <2>2. c \in Chain
    BY <1>1, <2>1 DEF Chain, Block, Mempool
  <2>3. c.redeem <= c.head
    BY <1>1, <1>2, <2>1 DEF Block, None, Mempool
  <2>4. c.undone > chain.undone
    BY <1>2
  <2>5. QED
    BY <2>1, <2>2, <2>3, <2>4, SeenKeeps DEF Environment
<1>6. QED
  BY <1>3, <1>4, <1>5

\* An operation begins, ends or fails: it has seen the chain there is.
LEMMA StartHInv ==
    ASSUME IInv, HInv, past' = {chain}, chain' = chain,
           call'.op # "update" \/ (call'.got = <<>>)
    PROVE  HInv'
<1>1. chain \in Chain /\ chain \in past /\ chain.redeem <= chain.head
  BY DEF IInv, TypeOK, Fresh, HInv, History
<1>2. History'
  BY <1>1, BeforeItself DEF History, Chain
<1>3. call'.got = <<>> => Len(call'.got) = 0
  BY Empty, Zenon
<1>4. Mined'
  BY <1>3 DEF Mined
<1>5. QED
  BY <1>2, <1>4 DEF HInv

LEMMA WriteHInv == ASSUME IInv, HInv, Write PROVE HInv'
<1>1. call \in [op : Op, todo : Seq(Method), id : Nat, got : Seq(Chain)] /\ call.op # "none"
  BY DEF IInv, TypeOK, Write
<1>2. /\ ~NotMined /\ call'.op = call.op /\ call'.got = call.got
      /\ UNCHANGED <<chain, past>>
  BY <1>1 DEF Write, Done
<1>3. History'
  BY <1>2 DEF HInv, History
<1>4. ASSUME call.op = "update", Len(call.got) = 2
      PROVE  call.got[2].redeem > Mempool
  <2>1. call.got[2] \in Chain
    BY <1>1, <1>4, ElementOfSeq
  <2>2. ~(Reported(call.got[2]) <= 0)
    BY <1>2, <1>4 DEF NotMined
  <2>3. QED
    BY <2>1, <2>2 DEF Reported, Chain, Block, None, Mempool
<1>5. Mined'
  BY <1>2, <1>4 DEF HInv, Mined
<1>6. QED
  BY <1>3, <1>5 DEF HInv

LEMMA ReadAnswerHInv == ASSUME IInv, HInv, ReadAnswer PROVE HInv'
<1>1. /\ call \in [op : Op, todo : Seq(Method), id : Nat, got : Seq(Chain)]
      /\ call.id # 0 /\ UNCHANGED <<chain, past>>
  BY DEF IInv, TypeOK, ReadAnswer, Waiting
<1>2. /\ call'.op = call.op /\ call'.id = 0
      /\ call'.got = call.got \/ call'.got = Append(call.got, Head(stream).at)
      /\ call'.got = call.got \/ call.todo[1] # "version"
  <2>1. call.todo # <<>>
    BY <1>1 DEF IInv, Plan
  <2>2. Head(call.todo) = call.todo[1]
    BY <1>1, <2>1, HeadTailProperties
  <2>3. QED
    BY <1>1, <2>2 DEF ReadAnswer
<1>3. Head(stream).at \in Chain
  <2>1. Head(stream) \in Line
    BY LinesTail DEF IInv, ReadAnswer
  <2>2. QED
    BY <2>1 DEF Line
<1>4. History'
  BY <1>1 DEF HInv, History
<1>5. ASSUME call.op = "update", Len(call'.got) = 3
      PROVE  call'.got[2].redeem > Mempool
  <2>1. CASE call'.got = call.got
    BY <1>5, <2>1 DEF HInv, Mined
  <2>2. CASE call'.got = Append(call.got, Head(stream).at)
    <3>1. /\ Len(call'.got) = Len(call.got) + 1 /\ Len(call.got) \in Nat
          /\ \A i \in 1 .. Len(call.got) : call'.got[i] = call.got[i]
      BY <1>1, <1>3, <2>2, AppendProperties, LenProperties
    <3>2. Len(call.got) = 2
      <4> DEFINE had == Len(call.got)
      <4>1. had + 1 = 3 /\ had \in Nat
        BY <1>5, <3>1
      <4> HIDE DEF had
      <4>2. had = 2
        BY <4>1
      <4>3. QED
        BY <4>2 DEF had
    <3>3. call'.got[2] = call.got[2]
      BY <3>1, <3>2
    <3>4. QED
      BY <1>1, <1>5, <3>2, <3>3 DEF HInv, Mined
  <2>3. QED
    BY <1>2, <2>1, <2>2
<1>6. Mined'
  BY <1>2, <1>5 DEF Mined
<1>7. QED
  BY <1>4, <1>6 DEF HInv

LEMMA NextHInv == IInv /\ HInv /\ [Next]_vars => HInv'
<1> SUFFICES ASSUME IInv, HInv, [Next]_vars PROVE HInv'
  OBVIOUS
<1>1. CASE \E op \in Op \ {"none"} : Begin(op)
  <2>1. past' = {chain} /\ chain' = chain /\ call'.got = <<>>
    BY <1>1 DEF Begin, Idle
  <2>2. QED
    BY <2>1, StartHInv
<1>2. CASE ReadOther \/ ReadEnd \/ Timeout \/ WriteFails \/ Return
  <2>1. past' = {chain} /\ chain' = chain /\ call' = Idle
    BY <1>2 DEF ReadOther, ReadEnd, Timeout, WriteFails, Return, Fail, FailAfter
  <2>2. call'.op # "update"
    BY <2>1 DEF Idle
  <2>3. QED
    BY <2>1, <2>2, StartHInv
<1>3. CASE Write \/ ReadAnswer
  BY <1>3, WriteHInv, ReadAnswerHInv
<1>4. CASE Answer \/ Deposit \/ Mine \/ Undo
  BY <1>4, AnswerHInv, ChainHInv
<1>5. CASE Close \/ UNCHANGED vars
  BY <1>5 DEF Close, vars, HInv, History, Mined
<1>6. QED
  BY <1>1, <1>2, <1>3, <1>4, <1>5 DEF Next, Client

LEMMA HInvariance == Spec => [](IInv /\ HInv)
BY InitIInv, NextIInv, InitHInv, NextHInv, PTL DEF Spec
\* Only a call that returns changes what the swap holds.
LEMMA OnlyReturnStores ==
    ASSUME IInv, [Next]_vars, swap' # swap
    PROVE  Return
<1>1. CASE \E op \in Op \ {"none"} : Begin(op)
  BY <1>1 DEF Begin
<1>2. CASE Client
  BY <1>2 DEF Client, Write, ReadAnswer, ReadOther, ReadEnd, Timeout, WriteFails, Fail, FailAfter
<1>3. CASE Answer \/ Close
  BY <1>3 DEF Answer, Reply, Close
<1>4. CASE Deposit \/ Mine \/ Undo
  BY <1>4 DEF Deposit, Mine, Undo, Environment
<1>5. CASE UNCHANGED vars
  BY <1>5 DEF vars
<1>6. QED
  BY <1>1, <1>2, <1>3, <1>4, <1>5 DEF Next

\* Nothing a call was given is ahead of the chain, unless a block was lost.
LEMMA GivenBefore ==
    ASSUME IInv, HInv, \A c \in past : c.undone = chain.undone, NEW i \in DOMAIN call.got
    PROVE  call.got[i] \in past /\ call.got[i] \in Chain /\ Before(call.got[i], chain)
<1>1. call.got[i] \in past
  BY DEF IInv, Fresh
<1>2. QED
  BY <1>1 DEF HInv, History, IInv, TypeOK

LEMMA AnswersCounted ==
    ASSUME IInv, NEW n \in Nat, Len(call.got) = n
    PROVE  \A i \in 1 .. n : i \in DOMAIN call.got
BY LenProperties DEF IInv, TypeOK

\* The outputs counted as confirmed are at least as deep now.
LEMMA ConfirmedAreDeep ==
    ASSUME NEW c \in Chain, NEW d \in Chain, NEW e \in Chain, Before(c, e), Before(d, e)
    PROVE  Confirmed(c, d.head)
             \subseteq {o \in Outputs : Depth(e.head, e.out[o]) >= Needed}
<1> SUFFICES ASSUME NEW o \in Confirmed(c, d.head)
             PROVE  o \in Outputs /\ Depth(e.head, e.out[o]) >= Needed
  OBVIOUS
<1>1. o \in Outputs /\ c.out[o] > Mempool /\ Monus(d.head, c.out[o]) + 1 >= Needed
  BY DEF Confirmed
<1>2. e.out[o] = c.out[o] /\ d.head <= e.head
  BY <1>1 DEF Before
<1>3. d.head \in Nat /\ e.head \in Nat /\ c.out[o] \in Block /\ Needed \in Nat
  BY <1>1, ElectrumAssumption DEF Chain
<1>4. Monus(e.head, c.out[o]) + 1 >= Needed
  BY <1>1, <1>2, <1>3 DEF Monus, Block, None
<1>5. QED
  BY <1>1, <1>2, <1>4 DEF Depth

\* `locked' is set only when the amount is as deep as it must be, though the
\* outputs were listed before the head was asked for, unless the chain lost a
\* block meanwhile (check_locks, api.rs:131-145; grin_balance, api.rs:60-106).
THEOREM LocksAreDeep == Spec => LockedIsDeep
<1> DEFINE Deep == {o \in Outputs : Depth(chain.head, chain.out[o]) >= Needed}
<1>1. ASSUME IInv, HInv, [Next]_vars,
             ~swap.locked, swap'.locked, \A c \in past : c.undone = chain.undone
      PROVE  Amount <= Cardinality(Deep)
  <2>1. Done /\ swap' = Result
    BY <1>1, OnlyReturnStores DEF Return
  <2>2. swap \in [locked : BOOLEAN, confs : Block] /\ call.op \in Op \ {"none"}
    BY <1>1, <2>1 DEF IInv, TypeOK, Done
  <2>3. call.op = "check"
    <3>1. CASE call.op = "publish"
      BY <1>1, <2>1, <2>2, <3>1 DEF Result
    <3>2. CASE call.op = "update"
      BY <1>1, <2>1, <2>2, <3>2 DEF Result
    <3>3. QED
      BY <2>2, <3>1, <3>2 DEF Op
  <2>4. Cardinality(Confirmed(call.got[1], call.got[2].head)) >= Amount
    <3>1. swap' = [swap EXCEPT !.locked =
                     Cardinality(Confirmed(call.got[1], call.got[2].head)) >= Amount]
      BY <2>1, <2>3 DEF Result
    <3>2. QED
      BY <1>1, <2>2, <3>1
  <2>5. call.todo = <<>>
    BY <2>1, <2>3 DEF Done, NotMined
  <2>6. Len(call.got) = 2
    BY <1>1, <2>2, <2>3, <2>5, AllAnswered, StepsOf
  <2>7. 1 \in DOMAIN call.got /\ 2 \in DOMAIN call.got
    <3>1. 2 \in Nat /\ 1 \in 1 .. 2 /\ 2 \in 1 .. 2
      OBVIOUS
    <3>2. QED
      BY <1>1, <2>6, <3>1, AnswersCounted
  <2> DEFINE list == call.got[1]
             last == call.got[2]
             counted == Confirmed(list, last.head)
  <2>8. /\ list \in Chain /\ last \in Chain
        /\ Before(list, chain) /\ Before(last, chain)
    BY <1>1, <2>7, GivenBefore
  <2>9. chain \in Chain
    BY <1>1 DEF IInv, TypeOK
  <2> HIDE DEF list, last
  <2>10. counted \subseteq Deep
    BY <2>8, <2>9, ConfirmedAreDeep
  <2>11. IsFiniteSet(Deep)
    BY ElectrumAssumption, FS_Subset
  <2>12. /\ Cardinality(counted) <= Cardinality(Deep) /\ Cardinality(Deep) \in Nat
         /\ Cardinality(counted) \in Nat
    <3> HIDE DEF counted, Deep
    <3>1. QED
      BY <2>10, <2>11, FS_Subset, FS_CardinalityType
  <2>13. Cardinality(counted) >= Amount
    BY <2>4 DEF list, last
  <2> HIDE DEF counted, Deep
  <2>14. Amount \in Nat
    BY ElectrumAssumption
  <2>15. QED
    BY <2>12, <2>13, <2>14
<1>2. IInv /\ HInv /\ [Next]_vars
        => [~swap.locked /\ swap'.locked /\ (\A c \in past : c.undone = chain.undone)
              => Amount <= Cardinality({o \in Outputs :
                               Depth(chain.head, chain.out[o]) >= Needed})]_vars
  BY <1>1
<1>3. QED
  BY <1>2, HInvariance, PTL DEF Spec, LockedIsDeep

\* The arithmetic of update_redeem: heads h1, h2 and h3 were read in turn, none
\* below m nor above h, and block b holds the transaction.
LEMMA ConfirmationsBound ==
    ASSUME NEW h1 \in Nat, NEW h2 \in Nat, NEW h3 \in Nat, NEW h \in Nat, NEW m \in Nat,
           NEW b \in Nat, m <= h1, m <= h, h2 <= h, h3 <= h, b <= h2
    PROVE  Monus(h3, TxHeight(h1, h2 - b + 1)) + 1 <= Monus(h, b) + 1 + (h - m)
<1> DEFINE height == TxHeight(h1, h2 - b + 1)
<1>1. height = Monus(h1, h2 - b)
  BY DEF TxHeight
<1>2. height \in Nat /\ height >= h1 - (h2 - b)
  BY <1>1 DEF Monus
<1> HIDE DEF height
<1>3. Monus(h, b) = h - b
  BY DEF Monus
<1>4. CASE h3 < height
  <2>1. Monus(h3, height) = 0
    BY <1>4 DEF Monus
  <2>2. QED
    BY <1>3, <2>1 DEF height
<1>5. CASE ~(h3 < height)
  <2>1. Monus(h3, height) = h3 - height
    BY <1>5 DEF Monus
  <2>2. h3 - height + 1 <= h - b + 1 + (h - m)
    BY <1>2
  <2>3. QED
    BY <1>3, <2>1, <2>2 DEF height
<1>6. QED
  BY <1>4, <1>5

\* A redeem transaction counts as included in a block only if a block holds it,
\* and with too many confirmations by no more than the blocks mined during the
\* call (update_redeem, api.rs:236-250; transaction, electrum.rs:301-312).
THEOREM CompletionsAreMined == Spec => CompleteIsMined
<1> DEFINE begun == CHOOSE c \in past : \A d \in past : c.head <= d.head
<1>1. ASSUME IInv PROVE begun \in past /\ \A d \in past : begun.head <= d.head
  <2>1. past \subseteq Chain /\ chain \in past
    BY <1>1 DEF IInv, TypeOK, Fresh
  <2> DEFINE heads == {c.head : c \in past}
  <2>2. heads \subseteq Nat /\ heads # {}
    BY <2>1 DEF Chain
  <2>3. PICK n \in heads : \A m \in heads : n <= m
    <3> HIDE DEF heads
    <3>1. QED
      BY <2>2, NatLeast
  <2>4. PICK c \in past : n = c.head
    OBVIOUS
  <2>5. \A d \in past : c.head <= d.head
    BY <2>3, <2>4
  <2>6. QED
    BY <2>5
<1> HIDE DEF begun
<1>2. ASSUME IInv, HInv, [Next]_vars,
             swap'.confs > 0, swap'.confs # swap.confs, \A c \in past : c.undone = chain.undone
      PROVE  /\ chain.redeem > Mempool
             /\ swap'.confs <= Depth(chain.head, chain.redeem) + (chain.head - begun.head)
  <2>1. Done /\ swap' = Result
    BY <1>2, OnlyReturnStores DEF Return
  <2>2. swap \in [locked : BOOLEAN, confs : Block] /\ call.op \in Op \ {"none"}
    BY <1>2, <2>1 DEF IInv, TypeOK, Done
  <2>3. call.op = "update" /\ ~NotMined
    <3>1. CASE call.op = "check"
      BY <1>2, <2>1, <2>2, <3>1, ResultIs
    <3>2. CASE call.op = "publish"
      <4>1. Result = [swap EXCEPT !.confs = 0]
        BY <3>2 DEF Result
      <4>2. swap'.confs = 0
        BY <2>1, <2>2, <4>1
      <4>3. QED
        BY <1>2, <4>2
    <3>3. CASE call.op = "update" /\ NotMined
      BY <1>2, <2>1, <3>3 DEF Result
    <3>4. QED
      BY <2>2, <3>1, <3>2, <3>3 DEF Op
  <2>4. Len(call.got) = 3
    <3>1. call.todo = <<>>
      BY <2>1, <2>3 DEF Done
    <3>2. QED
      BY <1>2, <2>2, <2>3, <3>1, AllAnswered, StepsOf
  <2>5. 1 \in DOMAIN call.got /\ 2 \in DOMAIN call.got /\ 3 \in DOMAIN call.got
    <3>1. 3 \in Nat /\ 1 \in 1 .. 3 /\ 2 \in 1 .. 3 /\ 3 \in 1 .. 3
      OBVIOUS
    <3>2. QED
      BY <1>2, <2>4, <3>1, AnswersCounted
  <2> DEFINE c1 == call.got[1]
             c2 == call.got[2]
             c3 == call.got[3]
  <2>6. /\ c1 \in past /\ c2 \in past /\ c3 \in past
        /\ c1 \in Chain /\ c2 \in Chain /\ c3 \in Chain
        /\ Before(c1, chain) /\ Before(c2, chain) /\ Before(c3, chain)
    BY <1>2, <2>5, GivenBefore
  <2>7. c2.redeem > Mempool /\ c2.redeem <= c2.head
    BY <1>2, <2>3, <2>4, <2>6 DEF HInv, Mined, History
  <2>8. swap'.confs = Monus(c3.head, TxHeight(c1.head, Reported(c2))) + 1
    <3>1. Result = [swap EXCEPT !.confs =
                      Monus(c3.head, TxHeight(c1.head, Reported(c2))) + 1]
      BY <2>3 DEF Result
    <3>2. QED
      BY <2>1, <2>2, <3>1
  <2>9. chain \in Chain /\ chain \in past /\ begun \in Chain
    BY <1>1, <1>2 DEF IInv, TypeOK, Fresh
  <2> HIDE DEF c1, c2, c3
  <2>10. Reported(c2) = c2.head - c2.redeem + 1
    BY <2>7 DEF Reported
  <2>11. chain.redeem = c2.redeem /\ c2.head <= chain.head /\ c3.head <= chain.head
    BY <2>6, <2>7 DEF Before
  <2>12. begun.head <= c1.head /\ begun.head <= chain.head
    BY <1>1, <1>2, <2>6, <2>9
  <2>13. /\ c1.head \in Nat /\ c2.head \in Nat /\ c3.head \in Nat /\ chain.head \in Nat
         /\ begun.head \in Nat /\ c2.redeem \in Nat
    BY <2>6, <2>7, <2>9 DEF Chain, Block, None, Mempool
  <2>14. Monus(c3.head, TxHeight(c1.head, c2.head - c2.redeem + 1)) + 1
           <= Monus(chain.head, c2.redeem) + 1 + (chain.head - begun.head)
    BY <2>7, <2>11, <2>12, <2>13, ConfirmationsBound
  <2>15. Depth(chain.head, chain.redeem) = Monus(chain.head, c2.redeem) + 1
    BY <2>7, <2>11 DEF Depth
  <2>16. chain.redeem > Mempool
    BY <2>7, <2>11
  <2>17. QED
    BY <2>8, <2>10, <2>14, <2>15, <2>16
<1>3. IInv /\ HInv /\ [Next]_vars
        => [swap'.confs > 0 /\ swap'.confs # swap.confs
              /\ (\A c \in past : c.undone = chain.undone)
            => /\ chain.redeem > Mempool
               /\ swap'.confs <= Depth(chain.head, chain.redeem)
                                 + (chain.head - begun.head)]_vars
  BY <1>2
<1>4. QED
  BY <1>3, HInvariance, PTL DEF Spec, CompleteIsMined, begun
=============================================================================
