-------------------------------- MODULE Roots --------------------------------
(***************************************************************************)
(* The roots of a traversal and its life (src/src/cstrider_api.c): the     *)
(* table of generated roots, filled by init and emptied by finish, the     *)
(* table of roots that the program registers, and visit_all over both.     *)
(*                                                                         *)
(* A root is the address of a variable (a cell); the program writes its    *)
(* variables between the calls, and may store the address of one cell in   *)
(* another.  It may call init twice, register a cell twice and deregister  *)
(* what it did not register.  Both tables are hash tables that add without *)
(* looking: a key may have several entries.                                *)
(***************************************************************************)
EXTENDS Integers, Sequences, SequencesExt, FiniteSets

CONSTANTS visitalls,     \* the generated array of roots: functions, one per global
          Cell,          \* variables that the program may register
          Content,       \* what it may store in them: cells, or other things
          MaxEntries     \* bound: registered entries, and generated ones before an init

Global == ToSet(visitalls)

ASSUME MaxEntriesAssumption == MaxEntries \in Nat
ASSUME VisitallsAssumption == visitalls \in Seq(Global) /\ IsInjective(visitalls) /\ Global \cap Cell = {}

VARIABLES visit_all_hash,              \* keys of the generated roots, oldest first
          visit_all_registered_hash,   \* keys of the registered roots, oldest first
          content,                     \* what each cell holds
          launched_helpers,            \* the flag of launch_helpers
          inits,                       \* calls of init since the last finish
          wanted,                      \* cells registered and not deregistered since
          dropped,                     \* those whose registration found another cell's
          twice,                       \* cells that were added when they were there already
          visited,                     \* roots visited by the last visit_all, in order
          fresh                        \* no call has changed the tables since then

tables == <<visit_all_hash, visit_all_registered_hash>>
program == <<inits, wanted, dropped, twice>>
rootsvars == <<tables, content, launched_helpers, program, visited, fresh>>

\* The two tables of roots, and what the program and the traversals know of them.
RootsTypeOK ==
  /\ visit_all_hash \in Seq(Global)
  /\ visit_all_registered_hash \in Seq(Cell)
  /\ content \in [Cell -> Content]
  /\ launched_helpers \in BOOLEAN
  /\ inits \in Nat
  /\ wanted \subseteq Cell /\ dropped \subseteq wanted /\ twice \subseteq Cell
  /\ visited \in Seq(Global \cup Cell)
  /\ fresh \in BOOLEAN

-----------------------------------------------------------------------------
Keys == ToSet(visit_all_registered_hash)

RootsInit ==
  /\ visit_all_hash = << >>
  /\ visit_all_registered_hash = << >>
  /\ content \in [Cell -> Content]
  /\ launched_helpers = FALSE
  /\ inits = 0
  /\ wanted = {} /\ dropped = {} /\ twice = {}
  /\ visited = << >>
  /\ fresh = FALSE

\* The program stores something in a variable.
assign(c) ==
  /\ \E v \in Content : content' = [content EXCEPT ![c] = v]
  /\ UNCHANGED <<tables, launched_helpers, program, visited, fresh>>

\* What the traversals saw is looked at until a call changes the tables.
Changed == visited' = << >> /\ fresh' = FALSE

\* register_root looks up what the cell holds (in, where deregister_root says &in).
Found(c) == content[c] \in Keys

\* When that is the address of a registered cell nothing is added, whether the cell itself
\* is registered or not; otherwise it is added, whether it is there or not.
register_root(c) ==
  /\ Len(visit_all_registered_hash) < MaxEntries
  /\ visit_all_registered_hash' =
       IF Found(c) THEN visit_all_registered_hash ELSE Append(visit_all_registered_hash, c)
  /\ wanted' = wanted \cup {c}
  /\ dropped' = IF ~Found(c) THEN dropped \ {c} ELSE IF c \in wanted THEN dropped ELSE dropped \cup {c}
  /\ twice' = IF ~Found(c) /\ c \in wanted \ dropped THEN twice \cup {c} ELSE twice
  /\ Changed
  /\ UNCHANGED <<visit_all_hash, content, launched_helpers, inits>>

\* One entry of the cell, the last added, is deleted, if there is one.
deregister_root(c) ==
  /\ LET at == {n \in DOMAIN visit_all_registered_hash : visit_all_registered_hash[n] = c}
     IN  visit_all_registered_hash' =
           IF at = {} THEN visit_all_registered_hash
           ELSE RemoveAt(visit_all_registered_hash, CHOOSE n \in at : \A k \in at : k <= n)
  /\ wanted' = wanted \ {c}
  /\ dropped' = dropped \ {c}
  /\ Changed
  /\ UNCHANGED <<visit_all_hash, content, launched_helpers, inits, twice>>

\* transform_init fills the table before launch_helpers sees that it is called twice.
init ==
  /\ Len(visit_all_hash) < MaxEntries
  /\ visit_all_hash' = visit_all_hash \o visitalls
  /\ launched_helpers' = TRUE
  /\ inits' = inits + 1
  /\ Changed
  /\ UNCHANGED <<visit_all_registered_hash, content, wanted, dropped, twice>>

\* The generated roots, then the registered ones.
visit_all ==
  /\ launched_helpers
  /\ visited' = visit_all_hash \o visit_all_registered_hash
  /\ fresh' = TRUE
  /\ UNCHANGED <<tables, content, launched_helpers, program>>

\* Mutant of finish: transform_free does not empty the table of generated roots.
MutFinishKeeps ==
  /\ launched_helpers
  /\ launched_helpers' = FALSE
  /\ inits' = 0
  /\ Changed
  /\ UNCHANGED <<tables, content, wanted, dropped, twice>>

\* kitsune_helpers_wait and transform_free.
finish ==
  /\ launched_helpers
  /\ launched_helpers' = FALSE
  /\ visit_all_hash' = << >>
  /\ inits' = 0
  /\ Changed
  /\ UNCHANGED <<visit_all_registered_hash, content, wanted, dropped, twice>>

RootsNext ==
  \/ \E c \in Cell : assign(c) \/ register_root(c) \/ deregister_root(c)
  \/ init \/ visit_all \/ finish

RootsSpec == RootsInit /\ [][RootsNext]_rootsvars

-----------------------------------------------------------------------------
Occurs(s, r) == Cardinality({n \in DOMAIN s : s[n] = r})
Times(r) == Occurs(visited, r)

\* Each visit_all visits each generated root once for every call of init since the last
\* finish: a second init doubles the visits until finish, and not beyond.
GlobalsOnce == fresh => \A g \in Global : Times(g) = inits

\* A root is visited between its registration and its deregistration
\* (examples/register_root: "Traversing with global and local"), once.  The exceptions come
\* from the look-up of register_root: a cell that held the address of a registered one when
\* it was registered (dropped) is not visited, and one that was added while it was there may
\* be visited more than once (twice).
RegisteredVisited ==
  fresh => \A c \in wanted : /\ c \in dropped => (c \notin twice => Times(c) = 0)
                             /\ c \notin dropped => Times(c) >= 1
                             /\ Times(c) > 1 => c \in twice

\* A root that is not registered any more is not visited: its variable may be gone
\* ("Traversing with only one global", after deregister_root).  The exception is one that was
\* added while it was there: deregister_root takes one of its entries away.
DeregisteredNotVisited == fresh => \A c \in Cell \ wanted : Times(c) > 0 => c \in twice

\* Which roots a visit_all visits and how often, whatever init, finish, register_root,
\* deregister_root and the program's assignments did before, with the exceptions named above.
RootsSound == RootsTypeOK /\ GlobalsOnce /\ RegisteredVisited /\ DeregisteredNotVisited
=============================================================================
