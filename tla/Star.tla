-------------------------------- MODULE Star --------------------------------
(***************************************************************************)
(* The dispatchers of a serial replication (star): a chain of dispatchers, *)
(* each followed by an instance of the operand network and the next        *)
(* dispatcher.  A record that matches the exit pattern leaves towards the  *)
(* collector, any other goes to the next instance, which is created on     *)
(* demand.  The first dispatcher is the star itself, the others are its    *)
(* incarnates; an incarnate whose operand network has dissolved into a     *)
(* sync record removes itself from the chain.                              *)
(***************************************************************************)
EXTENDS Network

CONSTANTS Stars,
          StarIn, StarOut,   \* instream, and outstream to the collector
          StarNext,          \* nextstream: input of the next instance
          StarChildOut,      \* outstream of the next instance's incarnate
          IsIncarnate, StarDet,
          Exits(_, _)         \* the type matches the exit pattern

VARIABLE star                \* star[x] = local state of dispatcher x

StarInit(ents) ==
  star = [x \in Stars \cap ents |-> [in      |-> StarIn[x],
                           next    |-> FALSE,     \* nextstream # NULL
                           cleanup |-> FALSE,     \* sync_cleanup
                           counter |-> 0,
                           broken  |-> FALSE,     \* assert(!sync_cleanup) failed
                           done    |-> FALSE]]

StarReads(x, kinds) == /\ ~star[x].done /\ ~star[x].broken
                       /\ Reads(x, star[x].in, kinds)

(* Where the records for a next instance go, if there is one.              *)
ToNext(x, next, r) == IF next THEN <<Write(StarNext[x], r)>> ELSE << >>

(* CreateOperandNetwork: the instance starts to run, and the collector     *)
(* learns of its incarnate's stream.                                       *)
CreateOperandNetwork(x) ==
  IF star[x].next THEN << >>
  ELSE <<Create(StarNext[x]), Write(StarOut[x], Collect(StarChildOut[x]))>>

(* Sort records of the deterministic variant, from the star itself.        *)
StarBracket(x, next) ==
  IF StarDet[x] /\ ~IsIncarnate[x]
  THEN <<Write(StarOut[x], Sort(0, star[x].counter))>>
         \o ToNext(x, next, Sort(0, star[x].counter))
  ELSE << >>

StarCounted(x) == IF StarDet[x] /\ ~IsIncarnate[x] THEN 1 ELSE 0

StarExit(x) ==
  /\ StarReads(x, {"data"})
  /\ Exits(x, Top(star[x].in).ty)
  /\ Take(x, star[x].in, <<Write(StarOut[x], Top(star[x].in))>>
                           \o StarBracket(x, star[x].next))
  /\ star' = [star EXCEPT ![x].counter = @ + StarCounted(x),
                          ![x].broken  = @ \/ star[x].cleanup]

(* Variant of the next operator: with a next instance the star itself does *)
(* not test the exit pattern.                                              *)
StarForwardOnward(x) ==
  /\ StarReads(x, {"data"})
  /\ Exits(x, Top(star[x].in).ty) => star[x].next /\ ~IsIncarnate[x]
  /\ ~star[x].cleanup
  /\ Take(x, star[x].in, CreateOperandNetwork(x) \o <<Write(StarNext[x], Top(star[x].in))>>
                           \o StarBracket(x, TRUE))
  /\ star' = [star EXCEPT ![x].counter = @ + StarCounted(x), ![x].next = TRUE]

StarForward(x) ==
  /\ StarReads(x, {"data"})
  /\ ~Exits(x, Top(star[x].in).ty)
  /\ ~star[x].cleanup
  /\ Take(x, star[x].in, CreateOperandNetwork(x) \o <<Write(StarNext[x], Top(star[x].in))>>
                           \o StarBracket(x, TRUE))
  /\ star' = [star EXCEPT ![x].counter = @ + StarCounted(x), ![x].next = TRUE]

(* The postponed removal: the record creates the next instance, which then *)
(* inherits the instream.                                                  *)
StarLeaveLate(x) ==
  /\ StarReads(x, {"data"})
  /\ ~Exits(x, Top(star[x].in).ty)
  /\ star[x].cleanup
  /\ Take(x, star[x].in, CreateOperandNetwork(x) \o
                           <<Write(StarNext[x], Top(star[x].in)),
                             Write(StarNext[x], Sync(star[x].in, NULL)),
                             Write(StarOut[x], Term)>>)
  /\ star' = [star EXCEPT ![x].next = TRUE, ![x].done = TRUE]

(* The operand network before this incarnate has dissolved.                *)
Eligible(x) == IsIncarnate[x] /\ Top(star[x].in).s \in HasSource

StarLeave(x) ==
  /\ StarReads(x, {"sync"})
  /\ Eligible(x) /\ star[x].next
  /\ Take(x, star[x].in, <<Write(StarNext[x], Top(star[x].in)),
                           Write(StarOut[x], Term), Free(star[x].in)>>)
  /\ star' = [star EXCEPT ![x].done = TRUE]

StarReplace(x) ==
  /\ StarReads(x, {"sync"})
  /\ ~(Eligible(x) /\ star[x].next)
  /\ Take(x, star[x].in, <<Free(star[x].in)>>)
  /\ star' = [star EXCEPT ![x].in = Top(star[x].in).s,
                          ![x].cleanup = @ \/ Eligible(x)]

(* Only the star itself raises the level.                                  *)
StarSort(x) ==
  /\ StarReads(x, {"sort"})
  /\ LET r == IF IsIncarnate[x] THEN Top(star[x].in) ELSE Raise(Top(star[x].in))
     IN  Take(x, star[x].in, ToNext(x, star[x].next, r) \o <<Write(StarOut[x], r)>>)
  /\ UNCHANGED star

StarTerm(x) ==
  /\ StarReads(x, {"term"})
  /\ Take(x, star[x].in, ToNext(x, star[x].next, Term)
                           \o <<Write(StarOut[x], Term), Free(star[x].in)>>)
  /\ star' = [star EXCEPT ![x].done = TRUE]

StarBoxTask(x) == \/ StarExit(x) \/ StarForward(x) \/ StarLeaveLate(x)
                  \/ StarLeave(x) \/ StarReplace(x) \/ StarSort(x) \/ StarTerm(x)
=============================================================================
