# Formal models of driveless

TLA+ specifications of the programs in this repository, the TLC
configurations that check them on small instances, and TLAPS proofs of their
safety for every instance.  `PROJECT.json` lists components, runs, mutants,
the correspondence to the source line by line, findings, hazards and theorems.

## 1. The system

The repository is a set of programs around a self-driving car that sells its
services: an atomic swap between Grin and Qtum, a hash-locked contract tool, a
contract that records cars and pays for them, a server and a dashboard that show what
cars do, and the scripts on the car.

| component | source | state it keeps | operations | what makes it correct |
|---|---|---|---|---|
| swap state | `swap/{swap,types,message}.rs` | status, role, slates, confirmation counters, Qtum data | fee and balance helpers, `update_lock_confirmations`, serialisation | recorded counts are justified by the chain |
| Seller (`SellApi`) | `swap/seller.rs` | lock, refund and redeem slate, adaptor signature | offer, accept, init-redeem, sign, publish, required action | signs only what it can turn into the Qtum |
| Buyer (`BuyApi`) | `swap/buyer.rs` | redeem slate, key material | accept offer, init-redeem, redeem, publish, completed | pays and signs only against locked Grin |
| driver (`grinSwapApi`) | `swap/qtum/api.rs` | none of its own | dispatch by status and role; `seller_check_locks`, `buyer_check_locks`, messages, publishing | the order of the protocol, under failures |
| Qtum data | `swap/qtum/types.rs` | `confirmed_outputs`, `locked`, `redeem_tx` | lock script, redeem transaction | the claim spends the deposits and pays |
| chain clients | `swap/mod.rs` (test chain), `swap/qtum/client.rs` | outputs, kernels, height | post, mine, query | depths are those of the chain |
| Electrum client | `swap/qtum/{electrum,rpc}.rs` | one connection, request ids | height, unspent, post, transaction | an answer goes to its request |
| multisig builder | `swap/multisig/types.rs` | participants, nonces, round data | commit, reveal, rounds 1 and 2, finalize | every participant builds the same output |
| hash-locked contracts | `qtumatmoicswap/atomicswap/main.go` | contracts on two chains | initiate, participate, redeem, refund, extractsecret, audit | both redeem or both are refunded |
| car contract | `无人驾驶contracts/drivelesscar1.cpp` | holdings, accounts, names, cars, statuses, reports | pay, rename, create, reward, report, page | what it owes is covered; its tables agree |
| vengine | `vengine-*/vapi` | cache, stored channel | views, websocket consumer | events reach the present dashboard |
| vdashboard | `vdashboard-*/src` | store of events | fetches, socket events, cards | no event is lost to a fetch |
| Raspberry Pi | `Raspi/{run,server}.py` | | event producer, print server | |
| autocar | `autocar/motion.py` | motor state, heartbeat | steps, stop on silence | a silent controller means a stopped car |

How they interact: the two parties of a swap exchange four messages (Offer,
AcceptOffer, InitRedeem, Redeem) through a transport the caller provides; each
party reads and writes both chains through its node clients; the caller stores
the swap object between calls.  The car contract, vengine, vdashboard and the
Raspberry Pi form a second, independent system: events go from the Pi through
vengine to the dashboard's socket.

What is hard: a swap call runs across several node reads and may fail in the
middle; it advances the object *before* its trailing `required_action`; blocks
are taken back; an answer to a post is lost; messages are repeated, late or
foreign; parties crash and continue from an older object; the Buyer's slate is
random.  `PROJECT.json` lists these hazards at their lines.

## 2. What is modelled

| module | models |
|---|---|
| `SwapChains` | both chains: posting, mining, taking blocks back, what the clients answer |
| `SwapCommon` | `is_locked`, `update_lock_confirmations`, the balance check |
| `SwapSeller` | the Seller's object and `required_action` for it |
| `SwapBuyer` | the Buyer's object and `required_action` for it |
| `GrinSwap` | the composition: every operation of `SwapApi`, messages, crashes, blocks; properties |
| `AtomicSwap` | the abstract swap: who has what, and in which order it may change hands |
| `GrinSwapRefines` | the refinement mapping from `GrinSwap` to `AtomicSwap` |
| `MCGrinSwap` | both for TLC (symmetry of the deposits) |
| `Slate` | the slates of grin_wallet_libwallet as this code uses them (external) |
| `MultisigBuilder` | `Builder` and `ParticipantData` as records and functions |
| `SwapSlates` | what the parties build, sign and publish, call by call; composes `Slate` and `MultisigBuilder` |
| `SwapSlatesRefines` | the refinement mapping from `SwapSlates` to `AtomicSwap` |
| `Multisig` | any number of participants with a builder each, in both modes |
| `Electrum` | the Electrum client and the three operations of the Seller that use it, read by read |
| `HtlcSwap` | the six commands of the hash-locked contract tool, on two chains |
| `CarContract`, `MCCarContract` | the car contract, one action per transaction |
| `GrinSwapProofs`, `GrinSwapRefinement`, `SwapSlatesProofs`, `MultisigProofs`, `ElectrumProofs`, `HtlcProofs`, `CarProofs` | proofs, see section 4 |
| `Induction` | lemmas the proofs share: induction over sets and numbers, sums |

A definition introduced as "Mutant of" some operator, or right before it with a
comment that says "Mutant", is that operator with a plausible bug; no
specification uses it.  Substituted for the original it must break the property
`PROJECT.json` pairs it with, which shows that the property depends on that code.

### The swap protocol: `GrinSwap`

`seller` and `buyer` are the two `Swap` objects reduced to what their control
depends on: `status`; `lockConf`, `redeemConf` and `secConf` for the three
`Option<u64>` counters (`None` is -1); `locked`, `outputs` and `tx` for
`grin_data.locked`, `confirmed_outputs` and the inputs of `redeem_tx`; `slate`
for the redeem slate together with its adaptor signature, named by a number
that is new whenever `build_redeem_slate` draws an offset.  `grin` and `qtum`
are the states of the test clients: a transaction is `NoTx`, in the `Mempool`,
or at the height of its block.

Each operation of `SwapApi` is one action, from its status check through its
trailing `required_action`.  A node that does not answer returns from the
middle of the function: the parameters `g` and `q` of an action say whether the
Grin and the Qtum node answer, and the functions `SellerCheckLocks`,
`BuyerCheckLocks` and so on keep what had been assigned by then.  `answered`
says whether the answer to a post arrives.  Errors that are returned before
anything is assigned are stuttering steps.

*The caller*, a wallet that is not in the repository, is modelled as follows:
it calls `message_sent` only for a message it has sent, and it stores an object
when it is created and before it hands one of its messages to the transport.
It may store the object at any other time or not, and restart from what it has
stored.  The transport may lose, repeat, delay and reorder messages (`net` only
grows, and nobody is forced to take a message) and deliver those of another
swap.

*Abstractions.*  Amounts are a number of equal deposits (`Required`); a Buyer
may pay in parts and pay too much.  Slates and signatures are names here
(`SwapSlates` has what is in them).  A call reads both chains at one instant
(`Electrum` has the Qtum reads one by one).  A transaction whose block is taken
back returns to the mempool; one dropped for a conflicting transaction is not
modelled.  The refund transaction is built but never posted by the code, and
`refunded` and `cancelled` are `unimplemented!()`; neither is an action.  The
`Action` a call returns is not recorded: the users may call anything the status
allows.

`AtomicSwap` says what this amounts to: Grin and Qtum each are locked and then
taken, the Buyer pledges its signature only when both are locked, the Seller
only against the Buyer's pledge, the Grin moves first.  An asset counts as moved
when the transaction is published; `IsAtomicSwap` is `Swap!Spec` under the
mapping of `GrinSwapRefines`, and of `SwapSlatesRefines` for the specification
below, where the Qtum is the Seller's with the claim it has stored.

### What is in the slates: `SwapSlates`, `Slate`, `MultisigBuilder`

Here the chains are trivial and the money and keys are followed.  A blinding
factor is an integer combination of named keys, a public key is the combination
it belongs to, a commitment is a combination and a value; so "the sum of
excesses", "the kernel the Seller looks for" and "the key that opens the
script" are computed, as in the code, and agree only if both sides derive the
same keys.  Each operation that calls the keychain, secp256k1 or libwallet
several times is a *list of the states the swap object goes through*; a fault
leaves the object at any of them (in memory; the stored object is that of the
last operation that succeeded, and `Reload` returns to it).  A Buyer whose
`init_redeem` fails after the status is already Locked (`api.rs:306`) is stuck
until then, which is why `SwapCompletes` needs `Reload`.

Amounts are unsigned integers modulo `Word`.  `AfterFee` computes as the
release build does, so amount minus fee may wrap; libwallet's `finalize` refuses
the slate whose fee does not balance.  An overflowing sum of amount and fee passes
`create_swap_offer` and is caught there, too.  Left out: several inputs, the path by which
a key depends on the value it is derived for.  Confirmations, loss and
repetition of messages are `GrinSwap`'s.

`Multisig` uses the same builder with any number of participants.  `Ids` stands
for whose contributions a sum has; exported data is never forgotten and may be
imported late, again, or in any order.  A method that returns an error changes
nothing.

### Electrum

One stream, numbered requests, and answers that come back when the server
pleases.  `wire` holds requests that are not answered, `stream` lines that are
not read; `call` is the operation under way, the method calls it still has to
make and the answers it has.  An answer is represented by the chain it was
computed from; what a method returns is a function of that.  `past` is a history
variable: the chains since the operation began.

Three behaviours the model shows without contradicting any property: after one
timeout every later call reads the answer to the previous request and fails
with "No response received" (`electrum.rs:75`), for good, because `client()`
keeps its connection (`242-248`); a stream the server has closed is kept as
well.  And `transaction()` reads the head before the confirmations
(`301-312`): a block in between gives a height that is one too low and hence a
confirmation too many, which is why `CompleteIsMined` allows as many as the
blocks mined during the call.  The third is behind the
hypothesis of `LockedIsDeep` that no block is lost during the call:
`grin_balance` reads the unspent outputs (`api.rs:68`) and then, in another
request, the head (69).  When the block of a listed deposit is taken back in
between and others are mined, the difference of the heights counts confirmations
the deposit never had, and the Seller, who does not look again (130, 144),
records it as locked.

The read timeout of `rpc.rs` holds for each read of the socket.  `Timeout` is
about a server that falls silent, at any byte; one that sends a byte now and
then and never ends its line would keep a single `read_line` waiting, and
`EveryCallEnds` does not speak of it.

### HtlcSwap

`contract` has for each author the contract, its transaction (built, posted,
mined) and what spends it.  The tool fixes lock times (48 and 24 hours), builds
and checks; people decide when.  A *careful* person audits, acts within `Delay`
and looks at the clock before; a careless one does what the tool allows at any
time.  The prompt (`promptPublishTx`) is a state of its own, in which time
passes.  The hash a participant is run with may be wrong.  Fees, wallet
funding, signing and the sizes of `sizeest.go` change no state here.  The
command `redeem` does not look whether the contract it spends is in a block
yet; here it posts only against a mined one, which is what its audience can
rely on.

### CarContract

`drivelesscar1.cpp` mixes C++ and script syntax and does not compile; it is
read statement by statement.  A transaction is an action; a failed assertion
takes all of it back (that, the clock and the CART the contract owns are the
chain's, external).  A car is its position in `Cars`.  The locals `Cars` (346,
367) and `Status` (404) have the names of the stored tables; in their scope
`Cars[i]` (348), for one, would be the empty list just made.  A use that only
makes sense of the stored table is read as the stored table.  What the model shows of
this code besides the finding below: the account fee leaves the ledger and is
nobody's; `createCar` asserts that the last car is *less* than 8000 ms old with
the message 'create Car too frequently' (`237`), so that an account that waits
can never create another one.  Texts and the score, a floating-point number
that only orders the display, are left out.  Whatever the scores are,
`getCarsByScore` can show the first page only: it applies the offset to the
positions it fetches (368) and again to what it fetched (385).

## 3. Runs

| run | question | instance | result |
|---|---|---|---|
| `swap_faults` | is the protocol safe with silent nodes, lost answers, foreign and repeated messages and reorganisations? | 3 deposits of which 2 are asked, thresholds 3 and 3, 2 blocks taken back per chain | holds, 485,024 states |
| `swap_restart` | is it still safe, and an atomic swap, when the parties crash? | 1 deposit, thresholds 2 and 2, 1 block taken back, 2 crashes | holds, 80,138 states |
| `swap_live` | does a swap in which Grin is locked settle? | 2 deposits, silent nodes, 1 block taken back per chain | holds, 10,527 states |
| `swap_reorg` | does a party turn Locked only on sufficient confirmations? | 1 deposit, 1 block taken back | violated |
| `swap_lost` | does `redeem_confirmations = None` mean the transaction is not published? | 1 deposit, lost answers | violated |
| `slates` | do both parties build the same thing, and is it an atomic swap, whatever call fails? | amounts modulo 12, fees 3 and 2, 2 offsets, 2 faults | holds, 3,886 states |
| `multisig` | do the participants agree and finish? | 3 participants, both modes | holds, 29,606 states |
| `multisig_reveal` | does a reveal show the commitment? | 2 participants | violated |
| `electrum` | are answers fresh, records true, and do calls end? | 7 requests, 3 blocks, 1 taken back, 2 failed operations | holds, about 1.7 million states |
| `htlc` | is a careful person safe, do two of them complete? | hours in fours: locks 12 and 6, delay 1, 15 steps of time | holds, 510,886 states |
| `car` | is what is owed covered, do the tables agree, do the pages show all? | 3 addresses, 2 names, 2 cars with a status each | holds, 743,264 states |
| `car_overdraft` | can one give only what one has? | the same | violated |

**Bounds.**  *Swap.*  The code's thresholds are 30 and 6 confirmations; only
their relation to the number of blocks taken back (`MaxUndo`) matters, and
`swap_faults` takes the tightest one, `MaxUndo` one below both thresholds, so
that a threshold that is off by one is noticed.  A block is mined only while a
transaction lacks confirmations or an offer may still expire (`GrinBusy`,
`QtumBusy`); further blocks would change heights only.  `RefundDelta` and
`MinRefund` stand for 720 and 600 blocks and are chosen so that an offer may
expire before it is accepted.  Three deposits of which two are needed allow
partial, exact and excess payment.  Two crashes allow each party to restart,
or one of them twice.  *Slates.*  Every amount below `Word` is tried, so the
ones below and around the fees, where subtraction wraps, are among them; two
faults allow a failure for each party or a second one after a retry.
*Multisig.*  Three is the least number with which data of one participant can
overtake those of another on the way to a third.  *Electrum.*  `Needed` 2 and
`MaxUndo` 1 let a deposit lose its depth; the longest operation needs three
answers, so seven requests give a stale answer time to meet a later operation.
*Htlc.*  `MaxTime` lies beyond the longer lock time and the delays after it;
with an audit margin of three delays instead of four `ParticipantSafe` fails,
so the unit of four hours is fine enough to tell.  *Car.*  Amounts and fees of
1 and 2 keep every comparison reachable on both sides; two cars make "the last
car of an account" and pages of one, two and three differ.  The theorems of
section 4 need none of these bounds except those their assumptions name.

**Deadlock** is not checked in any run, for these systems stop: a swap ends or
waits for a message that never comes, a set of participants is done, a process
has used up its requests, the last hour or the contract's bounds are reached.
That something happens *before* they stop is what the liveness properties say.

**Fairness.**  The programs have no retry loop of their own: users are the
scheduler.  `swap_live`: weak fairness on each operation `required_action` asks
its user for, with answering nodes, on delivery to whoever waits, on a deposit
while the Buyer is asked for one, and on blocks; lost answers and crashes are
left out because the code does not settle under them (`swap_lost`).  `slates`:
on the same operations, on delivery, and on the caller going back to its stored
object.  `multisig`: on every method and on delivery of what was exported.
`electrum`: on the steps of the client alone, with the read timeout of the
stream (`rpc.rs:20-23`) among them; the server may fall silent at any time.  `htlc`:
on time, on blocks and on what careful people do; nothing of careless ones.
`car` needs none.

**Findings.**

* `swap_reorg`: `seller_check_locks` (api.rs:113) skips the update of
  `lock_confirmations` once `is_locked(30)` has held for the stored count.  The
  Seller reads enough Grin confirmations, waits for the Qtum deposit, the Grin
  chain takes a block back, and the swap turns Locked although api.rs:147 says
  that "funds have been locked on both chains with sufficient confirmations".
  The Buyer's check (api.rs:261-310) reads the Grin chain every time but reads
  the Qtum chain once.  `CommitOnlyWhenLocked` shows how much of the intent
  survives: the funds are still in blocks.
* `swap_lost`: when the Qtum node takes the redeem transaction and its answer
  is lost, `redeem_confirmations` stays `None`, which api.rs:241 reads as "we
  haven't published it yet"; a retry is refused as a duplicate, so the Seller
  never completes.  `publish_transaction` has the same shape for both parties.
* `multisig_reveal`: `ParticipantData::reveal` (multisig/types.rs:416) compares
  the commitment with the stored hash and returns `Ok` without storing it, so
  `commit()` lacks it from then on and the mode with a commit phase is stuck at
  round 2, the first that needs it.  The test of that mode is commented out
  (531-541).
* `car_overdraft`: `rewardCar` takes the amount from the giver at line 309 and
  again at 317, after asserting once that it is there (306, 'CART not enough for
  reward this Car').  `PayoutsCovered` holds nevertheless: the giver's holding
  may turn negative, but what others may be paid out is covered.

## 4. Proofs

Eight modules, each theorem for every value of the constants that the named
assumptions allow.  Every invariant and every action property of a passing run
is proved, and both refinements of `AtomicSwap`.

**`GrinSwapProofs`.**  `TypeOK` and all seven other safety
invariants of the swap runs (`LockRecordSound`, `CommitOnlyWhenLocked`,
`RedeemWasSigned`, `OneRedeemSlate`, `SellerCanClaim`, `QtumAfterGrin`,
`ClaimCoversPrice`), for every set of deposits, price, thresholds, number of
crashes and faults.  Assumed: finitely many deposits, a positive price, and
`MaxUndo` below both thresholds, which is what the thresholds are there for.

None of the invariants is inductive as it stands, since a reorganisation lowers
confirmations while recorded counts, flags and stored objects stay.
*Confirmations plus undone blocks* do not fall: `GrinReach` for the Grin lock
and, per deposit, `Settled`.  `Progress` states that these, the messages, and
the published transactions only grow; `ProgressStep` proves it for every step.
`SellerOK` and `BuyerOK` say what an object, held or stored, owes to these
quantities; `SellerKeeps`/`BuyerKeeps` carry that along when they grow, and
`SellerRequiredSound`/`BuyerRequiredSound` carry it through `required_action`,
whichever node is silent.  `NetInv` says what a message binds its sender to, in
memory and on disk; this is where storing the object before sending is needed,
and where the one-slate theorem comes from although a restored Buyer may draw a
new offset.  The conjunction `IInv` is inductive (`InitIInv`, `NextIInv`).

**`GrinSwapRefinement`** proves `Spec => IsAtomicSwap`.  Most steps of
`GrinSwap` change nothing the mapping sees; a step matters when it publishes,
when its deposit completes the amount, or when it sends a signature.  That
these come in `AtomicSwap`'s order is lemma `Holders`, a consequence of `IInv`
before the step.

**`MultisigProofs`** proves `TypeOK`, `OneCommitment` and
`CollectedProofVerifies` for any number of participants.  The invariant adds
that no contribution is ever filed under another participant's number, in a
builder or in a message, so a sum that is complete is the sum over everybody
(`CompleteSums`), and the only context a `tau_x` is made in is `Everything`.

**`HtlcProofs`** proves `TypeOK`, `InitiatorSafe` and `ParticipantSafe` for all
lock times with `ParticipateLock + 5 * Delay <= InitiateLock` and
`2 * Delay <= ParticipateLock`.  The invariant follows the clock: for cp1, a
secret that is shown was shown early enough to be in a block before cp2's
refund; for cp2, its contract is spent at most two delays after its lock time,
so that the secret is used two more delays later, before cp1's lock time.

**`SwapSlatesProofs`** proves `TypeOK`, `LockIsRefundable`, `SellerLearnsSecret`
and `ClaimOpensDeposit` for amounts of any width, fees below it, any offsets and
any number of failing calls.  No sum of keys is ever computed: two excesses or
two challenges agree because they are made of the same parts.  `IInv` has one
fact per kind of object (`IsSeller`, `IsBuyer`, `IsMessage`) and one per pair of
them: what was asked for is what the Buyer has (`Asked`), what the Seller has
signed is what was asked for (`Agreed`), what the Buyer finished has the
Seller's signature (`Answered`, `Finished`), a Seller that is locked has had its
script paid to (`Paid`), and what is on the chain is what its owner has
(`Locks`, `Redeems`).  Each holds of the object in memory and of the stored one,
which is what makes a reload after a half-done call harmless: a call that fails
leaves a prefix of its steps in memory, so every prefix is shown to keep the
facts, and only the last state of a call that succeeds is stored.  `Same` is the
relation in the middle: two slates with the same fee, inputs, outputs and parts
up to signatures have the same challenge and excess (`SameIsSymmetric`).

It also proves `Spec => IsAtomicSwap`.  `IInv` says what the parties have, not
what was there when they acted, so `Order` is added: a Buyer that is Locked saw
both assets locked, one that has asked for the Grin left its message, a Seller
that has answered left its own, and a stored claim is also in memory and came
after a redeem transaction.  With `IInv` this gives how far the swap had come
before every step that is seen from outside (`CameBefore`); every other
operation, failed call or reload leaves the mapping's values as they are
(`SellerUnseen`, `BuyerUnseen`).

**`CarProofs`** proves all five invariants of the contract.  `TypeOK`,
`NamesAgree` and `CountsMatch` are inductive together: the counters need the
types of the tables they count, and the type invariant says that whoever is
listed has an account, which no renaming takes away.  `PayoutsCovered` is about
the sum of the positive holdings (`Debt`): what is added to a holding is the
most that sum grows by, and what is taken from one that has it is what it
shrinks by (`DebtBounds`).  In `rewardCar` the first withdrawal, which was
asserted to be there, pays for everything that is distributed; the second may
leave a negative holding but never adds to the debt.  `PagesShowEveryCar` is an
induction over the passes of the loop of `getCarsByTime` (`OnePass`,
`AllPasses`): a page shows the cars of an interval of positions
(`PageShows`), and the intervals of successive pages divide all positions.

**`ElectrumProofs`** proves `TypeOK`, `AnswersAreFresh`, `PublishedIsTaken`,
`LockedIsDeep` and `CompleteIsMined` for any payments, chain, number of requests
and failures.  The argument for the first three is that of the numbers
(`Numbers`): nothing on the wire or in the stream carries one above the last
drawn, so no line that is there when a request is written can be taken for its
answer; the one that can is written by the server during the call, from a chain
that is in `past`.  `Plan` says what an operation still has to ask, so that one
with nothing left has what `Result` needs; `Taken` that an answer to a posting
is only in the stream when the server took the transaction.  The other two
compare chains read at different moments: while no block is lost, what an
earlier chain has in a block the present one has in the same block, and its head
is no lower (`Before`, `History`); the last head is asked for only when the
second answer showed the transaction in a block (`Mined`).  The rest is the
arithmetic of three heads between the first and the present one
(`ConfirmationsBound`).

**`Induction`.**  The library's induction rules take a predicate, which the
provers at hand cannot instantiate.  `SubsetInduction` and `NatInduct` take the
*set* of what the predicate holds for instead, and follow from the
well-foundedness of numbers and of finite sets.  From them: the fold that
`SumFunction` is defined by exists, its value is an integer, does not depend on
the order of the elements, and changes with one value by the difference
(`SumRemove`, `SumChange`); and that a recursive function is what its equation
says (`PushesExist` of `CarProofs`).

Only model-checked: the liveness properties (`SwapSettles`, `SwapCompletes` of
`SwapSlates` and of `HtlcSwap`, `AllFinalize`, `EveryCallEnds`, `ContractEnds`),
which are out of the prover's reach; and the findings.

## 5. Plan

1. The reads of the Grin node one by one, as `Electrum` does for Qtum.
2. What the claim is worth after the fee of the redeem transaction
   (`saturating_sub`, types.rs:204).

## 6. Not modelled

* The encoding of a swap (`ser.rs`, hexadecimal and base64 forms): pure
  functions of the data; which fields survive being stored is in `GrinSwap`.
* Cryptography is replaced by who can compute what.
* The score of the car contract and the list sorted by it, as said above.
* `vengine` and `vdashboard`: a prototype over mock data.  The list of events
  the dashboard fetches is a constant of the server (`mockEventList`), its
  buttons call nothing, and the code states no promise about events it relays:
  one to somebody who is not registered is dropped, one that arrives during a
  fetch is overwritten by it (`store/index.js:42`), and a registration outlives
  its socket (`consumers.py:16`).  These are listed as hazards; there is no
  property of theirs that the code keeps.
* `Raspi`: a producer that posts one event and a print server that is one
  blocking loop around a socket.
* `autocar/motion.py`: the cells of a notebook against an external library; its
  handlers sleep and stop a motor, and all concurrency is in the library.
* `sizeest.go`, images, lock files, build files; `mychainlib` is vendored.
