----------------------------- MODULE BlockChain -----------------------------
(***************************************************************************)
(* The translation blocks of rosetta_jit.c: heap objects a client allocates *)
(* and frees, and the doubly linked chains it builds from them.  A block is *)
(* the address of its object, which malloc may hand out again once it is    *)
(* freed; a freed object keeps its bytes until then.                        *)
(***************************************************************************)
EXTENDS Naturals

CONSTANTS
  Blocks,   \* addresses of translation blocks
  NoBlock   \* the null pointer

ASSUME BlockChainAssumption == NoBlock \notin Blocks

VARIABLES
  allocated,   \* objects that malloc has handed out
  succ,        \* block->successor
  pred,        \* block->predecessor
  linked,      \* blocks with BLOCK_FLAG_LINKED
  lost         \* history: blocks whose neighbour was freed under them

chainVars == <<allocated, succ, pred, linked, lost>>

ChainInit ==
  /\ allocated = {}
  /\ succ = [b \in Blocks |-> NoBlock]
  /\ pred = [b \in Blocks |-> NoBlock]
  /\ linked = {}
  /\ lost = {}

(* translation_alloc_block: calloc, then no links and no flags.  A failed   *)
(* calloc returns NULL and changes nothing.                                 *)
TranslationAllocBlock(b) ==
  /\ b \notin allocated
  /\ allocated' = allocated \union {b}
  /\ succ' = [succ EXCEPT ![b] = NoBlock]
  /\ pred' = [pred EXCEPT ![b] = NoBlock]
  /\ linked' = linked \ {b}
  /\ UNCHANGED lost

(* The blocks that b is linked with, as both ends of the link say. *)
Neighbours(b) == {a \in allocated \intersect {succ[b], pred[b]} : b \in {succ[a], pred[a]}}

(* translation_free_block: free, and nothing else.  The neighbours keep     *)
(* their links to the block; whoever frees it knows who they are from the   *)
(* block itself, and lost remembers them.                                   *)
TranslationFreeBlock(b) ==
  /\ b \in allocated
  /\ allocated' = allocated \ {b}
  /\ lost' = (lost \union Neighbours(b)) \ {b}
  /\ UNCHANGED <<succ, pred, linked>>

(* Mutant: the forward link only. *)
ChainForwardOnly(from, to) ==
  /\ {from, to} \subseteq allocated
  /\ succ' = [succ EXCEPT ![from] = to]
  /\ linked' = linked \union {from}
  /\ UNCHANGED <<allocated, pred, lost>>

(* translation_chain_blocks *)
TranslationChainBlocks(from, to) ==
  /\ {from, to} \subseteq allocated
  /\ succ' = [succ EXCEPT ![from] = to]
  /\ pred' = [pred EXCEPT ![to] = from]
  /\ linked' = linked \union {from}
  /\ UNCHANGED <<allocated, lost>>

(* Mutant: the predecessor's half of the link stays. *)
UnchainSuccessorOnly(b) ==
  /\ b \in allocated
  /\ succ' = [succ EXCEPT ![b] = NoBlock]
  /\ pred' = [x \in Blocks |-> IF x \in {b, succ[b]} THEN NoBlock ELSE pred[x]]
  /\ linked' = linked \ {b}
  /\ UNCHANGED <<allocated, lost>>

(* Mutant: the successor is not compared with NULL before it is written to. *)
UnchainThroughNull(b) ==
  LET back == IF succ[b] = b THEN NoBlock ELSE pred[b]
  IN  /\ b \in allocated
      /\ succ' = [x \in Blocks |-> IF x \in {b, back} THEN NoBlock ELSE succ[x]]
      /\ pred' = [x \in Blocks \union {succ[b]} |->
                    IF x \in {b, succ[b]} THEN NoBlock ELSE pred[x]]
      /\ linked' = linked \ {b}
      /\ UNCHANGED <<allocated, lost>>

(* translation_unchain_blocks: first the successor's half, then the         *)
(* predecessor's; a block chained to itself has lost its predecessor by     *)
(* then.  The writes go through the links whatever they lead to.            *)
TranslationUnchainBlocks(b) ==
  LET back == IF succ[b] = b THEN NoBlock ELSE pred[b]
  IN  /\ b \in allocated
      /\ succ' = [x \in Blocks |-> IF x \in {b, back} THEN NoBlock ELSE succ[x]]
      /\ pred' = [x \in Blocks |-> IF x \in {b, succ[b]} THEN NoBlock ELSE pred[x]]
      /\ linked' = linked \ {b}
      /\ UNCHANGED <<allocated, lost>>

(* A client that does what the tests do: it chains a block that has no      *)
(* successor to one that has no predecessor, unchains, and frees a block    *)
(* whether it is chained or not.  A block that lost a neighbour this way is *)
(* of no more use to it but to be freed itself.                             *)
CarefulChain(from, to) ==
  /\ succ[from] = NoBlock /\ pred[to] = NoBlock
  /\ {from, to} \intersect lost = {}
  /\ TranslationChainBlocks(from, to)

CarefulUnchain(b) ==
  /\ b \notin lost
  /\ TranslationUnchainBlocks(b)

ChainNext ==
  \/ \E b \in Blocks :
       \/ TranslationAllocBlock(b)
       \/ TranslationFreeBlock(b)
       \/ CarefulUnchain(b)
  \/ \E from, to \in Blocks : CarefulChain(from, to)

ChainSpec == ChainInit /\ [][ChainNext]_chainVars

(* Any client: several blocks may lead to the same one, and blocks that     *)
(* lost a neighbour are chained and unchained like others.                  *)
ChainOpenNext ==
  \/ \E b \in Blocks :
       \/ TranslationAllocBlock(b)
       \/ TranslationFreeBlock(b)
       \/ TranslationUnchainBlocks(b)
  \/ \E from, to \in Blocks : TranslationChainBlocks(from, to)

ChainOpenSpec == ChainInit /\ [][ChainOpenNext]_chainVars

-----------------------------------------------------------------------------
ChainTypeOK ==
  /\ allocated \subseteq Blocks
  /\ succ \in [Blocks -> Blocks \union {NoBlock}]
  /\ pred \in [Blocks -> Blocks \union {NoBlock}]
  /\ linked \subseteq Blocks
  /\ lost \subseteq allocated

(* The two halves of every link agree: b follows a exactly when a precedes  *)
(* b.  Only a block that lost a neighbour may have half a link.             *)
Reciprocal ==
  \A b \in allocated \ lost, a \in allocated :
    /\ succ[b] = a => pred[a] = b
    /\ pred[b] = a => succ[a] = b

(* A link leads to a freed block only where a neighbour was freed while     *)
(* chained: the block a client frees names every live block that leads to   *)
(* it, so that no other block ever dangles or leads to whatever malloc put  *)
(* at the address next.                                                     *)
NoDangling ==
  \A b \in allocated \ lost :
    {succ[b], pred[b]} \subseteq allocated \union {NoBlock}

(* A block that jumps straight to its successor says so in its flags.       *)
JumpFlagged == \A b \in allocated : succ[b] # NoBlock => b \in linked

(* Unchaining a block unlinks all chains from it (rosetta_jit.c:364):       *)
(* afterwards no live block leads to it.                                    *)
UnchainForgets ==
  [][\A b \in Blocks : TranslationUnchainBlocks(b) =>
       \A a \in allocated : succ'[a] # b /\ pred'[a] # b]_chainVars
=============================================================================
