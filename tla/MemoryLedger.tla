---- MODULE MemoryLedger ----
\* What the permanent memory of a Qube promises to its readers: blocks in one order, of
\* which the first is the genesis block, and to which add_block only ever adds at the end,
\* one block at a time.  No block is rewritten, dropped or moved, whichever process adds.
EXTENDS Sequences

CONSTANTS
  Memory,  \* what a permanent block says
  Genesis  \* what the genesis block says

VARIABLE memories

Init == memories = <<Genesis>>

AddBlock(m) == memories' = Append(memories, m)

Next == \E m \in Memory : AddBlock(m)

Spec == Init /\ [][Next]_memories

====
