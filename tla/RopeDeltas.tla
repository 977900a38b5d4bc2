----------------------------- MODULE RopeDeltas -----------------------------
(***************************************************************************)
(* Rope positions in generation with the Hugging Face model,               *)
(* src/tlive_omni/modeling_tlive_omni.py.  The first call of a generation  *)
(* indexes the prompt and leaves the difference to plain counting on the   *)
(* model object, in self.rope_deltas; later calls count on from the cache  *)
(* position with it.  A generation that continues a cache (the next turn   *)
(* of a conversation) is a later call from its start.                      *)
(*                                                                         *)
(* A call has one row with pad tokens of padding on the left.              *)
(***************************************************************************)
EXTENDS MRopeIndex

CONSTANTS
    Convs,      \* conversations, each with a cache of its own
    Prompts,    \* prompts a conversation may start with
    Turns,      \* what a later turn may add
    Pads,       \* paddings of a prompt
    MaxLen      \* the most items of a conversation (bound)

ASSUME DeltasAssumption ==
    /\ MaxLen \in Nat
    /\ Pads \subseteq Nat
    /\ \A p \in Prompts : Len(TokensOf(p)) >= 2

None == -1000

VARIABLES
    items,       \* the conversation so far
    pad,         \* its padding
    pos,         \* the position of each of its tokens
    ropeDeltas,  \* self.rope_deltas
    latest,      \* the conversation generated last
    owner,       \* the conversation ropeDeltas is from
    strayed      \* conversations that counted on with the difference of another one,
                 \* or over pictures

deltasVars == <<items, pad, pos, ropeDeltas, latest, owner, strayed>>

\* Without vision the index is a running count in which padding has position
\* one, and the difference is taken from the highest of all positions.
TextDelta(n, p) == Max({n - 1} \cup (IF p > 0 THEN {1} ELSE {})) + 1 - n

\* Mutant: the padding left out.
DeltaUnpadded(x, n, p, vision) == IF vision THEN x.delta ELSE TextDelta(n, p)

\* The difference counts the padding, as cache positions do.
Delta(x, n, p, vision) == (IF vision THEN x.delta ELSE TextDelta(n, p)) - p

\* Where the next token of a conversation is in its cache.
CachePosition(c) == pad[c] + Len(pos[c])

Index(c, its, p) ==
    LET x == RopeIndex(its) IN
    /\ items' = [items EXCEPT ![c] = its]
    /\ pad' = [pad EXCEPT ![c] = p]
    /\ pos' = [pos EXCEPT ![c] = x.pos]
    /\ ropeDeltas' = Delta(x, Len(x.pos), p, HasVision(its))
    /\ owner' = c
    /\ UNCHANGED strayed

CountOn(c, its) ==
    /\ items' = [items EXCEPT ![c] = @ \o its]
    /\ pos' = [pos EXCEPT ![c] = @ \o Line(Len(TokensOf(its)), CachePosition(c) + ropeDeltas)]
    /\ strayed' = IF owner = c /\ ~HasVision(its) THEN strayed ELSE strayed \cup {c}
    /\ UNCHANGED <<pad, ropeDeltas, owner>>

\* The call of a new generation, whose cache position is 0.
Prefill(c, its, p) ==
    /\ items[c] = << >>
    /\ Index(c, its, p)
    /\ latest' = c

\* A call for the token generated last.
Decode(c) ==
    /\ items[c] # << >>
    /\ latest = c
    /\ Len(items[c]) < MaxLen
    /\ CountOn(c, <<Text(1)>>)
    /\ UNCHANGED latest

\* The first call of a later turn, on the cache of the conversation.
NewTurn(c, its) ==
    /\ items[c] # << >>
    /\ Len(items[c]) + Len(its) <= MaxLen
    /\ CountOn(c, its)
    /\ latest' = c

DeltasInit ==
    /\ items = [c \in Convs |-> << >>]
    /\ pad = [c \in Convs |-> 0]
    /\ pos = [c \in Convs |-> << >>]
    /\ ropeDeltas = None
    /\ latest \in Convs
    /\ owner = latest
    /\ strayed = {}

DeltasNext ==
    \/ \E c \in Convs : \E its \in Prompts : \E p \in Pads : Prefill(c, its, p)
    \/ \E c \in Convs : Decode(c)
    \/ \E c \in Convs : \E its \in Turns : NewTurn(c, its)

DeltasSpec == DeltasInit /\ [][DeltasNext]_deltasVars

-----------------------------------------------------------------------------
(* Properties.                                                             *)

\* A conversation has the positions of the documentation, over all of its turns and
\* whatever was generated in between, as long as every call for it found the difference
\* of its own prompt on the model (no other conversation was started before its next
\* turn), later turns bring no pictures or videos, which are not indexed, and no grid of
\* it is larger than its sound is long.
ConversationAsDocumented ==
    \A c \in Convs \ strayed : SoundReaches(items[c]) => pos[c] = Documented(items[c])
=============================================================================
