------------------------------ MODULE BotWorld ------------------------------
(***************************************************************************)
(* The Minecraft world as the MCP server reaches it: through one           *)
(* Mineflayer bot that answers a request per TCP connection (bridge.rs,    *)
(* mineflayer/bridge.js).                                                  *)
(*                                                                         *)
(* A write request becomes a job of the bot.  The bot works through the    *)
(* job whether or not the server still waits: BotBridge::request gives up  *)
(* after its timeout and closes the connection, and nothing tells the bot. *)
(* A job nobody waits for any more is "late".  Other players change the    *)
(* world at any time.                                                      *)
(***************************************************************************)
EXTENDS Naturals, FiniteSets

CONSTANTS
    Servers,   \* the MCP server processes that use the bot
    Cells,     \* block positions
    Blocks,    \* block states, Air among them
    Air,
    Keep,      \* "no write pending at this cell"; not a block
    MaxEdits,  \* bound on the changes other players make
    MaxLate    \* bound on the late jobs that are followed

ASSUME WorldAssumption ==
    /\ IsFiniteSet(Cells)
    /\ Air \in Blocks
    /\ Keep \notin Blocks
    /\ MaxEdits \in Nat
    /\ MaxLate \in Nat

VARIABLES
    world,  \* [Cells -> Blocks]
    job,    \* [Servers -> Todo]: what the bot has still to do for a server
    late,   \* the jobs whose server gave up waiting
    edits   \* how many changes other players have made

botVars == <<world, job, late, edits>>

\* A patch: the block wanted at a cell, Keep where nothing is wanted.
Todo == [Cells -> Blocks \cup {Keep}]
Idle == [c \in Cells |-> Keep]
Pending(todo) == {c \in Cells : todo[c] # Keep}

\* Every wanted block is in the world (block_matches over a scan).
Matches(todo) == \A c \in Pending(todo) : world[c] = todo[c]

BotInit ==
    /\ world \in [Cells -> Blocks]
    /\ job = [s \in Servers |-> Idle]
    /\ late = {}
    /\ edits = 0

\* A server sends its write request: the bot takes the job.
Submit(s, todo) ==
    /\ job' = [job EXCEPT ![s] = todo]
    /\ UNCHANGED <<world, late, edits>>

\* A server stops waiting.  Unless the bot is done or has lost its
\* connection, the rest of the job goes on without it.
Abandon(s) ==
    /\ job' = [job EXCEPT ![s] = Idle]
    /\ \/ late' = late
       \/ /\ job[s] # Idle
          /\ Cardinality(late) < MaxLate
          /\ late' = late \cup {job[s]}
    /\ UNCHANGED <<world, edits>>

\* One command at c is executed, or silently refused by the Minecraft server.
Executes(todo, c) == world' \in {world, [world EXCEPT ![c] = todo[c]]}

BotWrites(s, c) ==
    /\ c \in Pending(job[s])
    /\ Executes(job[s], c)
    /\ job' = [job EXCEPT ![s][c] = Keep]
    /\ UNCHANGED <<late, edits>>

\* place_physical_blocks digs out what stands at c before it places.
BotDigs(s, c) ==
    /\ c \in Pending(job[s])
    /\ world[c] # Air
    /\ world' = [world EXCEPT ![c] = Air]
    /\ UNCHANGED <<job, late, edits>>

LateWrites(todo, c) ==
    /\ todo \in late
    /\ c \in Pending(todo)
    /\ Executes(todo, c)
    /\ late' = (late \ {todo}) \cup ({[todo EXCEPT ![c] = Keep]} \ {Idle})
    /\ UNCHANGED <<job, edits>>

LateDigs(todo, c) ==
    /\ todo \in late
    /\ c \in Pending(todo)
    /\ world[c] # Air
    /\ world' = [world EXCEPT ![c] = Air]
    /\ UNCHANGED <<job, late, edits>>

\* The rest of a late job is lost: the bot disconnects or throws.
LateStops(todo) ==
    /\ todo \in late
    /\ late' = late \ {todo}
    /\ UNCHANGED <<world, job, edits>>

PlayerEdits(c, block) ==
    /\ edits < MaxEdits
    /\ block # world[c]
    /\ world' = [world EXCEPT ![c] = block]
    /\ edits' = edits + 1
    /\ UNCHANGED <<job, late>>

BotTypeOK ==
    /\ world \in [Cells -> Blocks]
    /\ job \in [Servers -> Todo]
    /\ late \in SUBSET Todo
    /\ edits \in Nat
=============================================================================
