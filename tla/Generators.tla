----------------------------- MODULE Generators -----------------------------
(* The schedule of requests: ConstantGenerator and TenantGenerator, and the *)
(* GeneratorContainer that merges several of them, used by the sending      *)
(* thread, while update() changes rates and weights on the watch thread     *)
(* without any lock.  Times count from the earliest that a generator can    *)
(* hold, in whatever unit makes the gaps of Gaps.  The counters, which      *)
(* nothing reads, are left out.                                             *)
EXTENDS Integers, Sequences, FiniteSets, FiniteSetsExt, SequencesExt

CONSTANTS
  GeneratorKinds, \* the kinds of the container's generators, in its order
  RequestTypes,   \* their types of requests (OFPT::req_types)
  Gaps,           \* inter-arrival times
  Reference,      \* the time reference
  Leftovers,      \* what _next_msg, which is not initialised, may start from
  Horizon,        \* bound: no message is scheduled later
  GenUpdates      \* bound: calls of update()

ASSUME GeneratorConstants ==
  /\ GeneratorKinds \in Seq({"constant", "tenant"}) /\ GeneratorKinds # <<>>
  /\ IsFiniteSet(RequestTypes) /\ RequestTypes # {}
  /\ Gaps \subseteq Nat /\ Gaps # {}
  /\ Reference \in Nat /\ Leftovers \subseteq Nat /\ Leftovers # {}
  /\ Horizon \in Nat /\ GenUpdates \in Nat

Gens == DOMAIN GeneratorKinds
NoMsg == [time |-> 0, before |-> 0, ordered |-> FALSE, certain |-> FALSE]

VARIABLES
  gen,       \* each generator's fields
  nexting,   \* where GeneratorContainer::next is, on the sending thread
  updating,  \* where update() is, on the watch thread
  genUpdates,\* calls of update()
  handed,    \* the last message handed out
  calm       \* history: was no rate changed since the message before it was
             \*          chosen

genVars == <<gen, nexting, updating, genUpdates, handed, calm>>

(* A type of request and whether its message awaits a reply.                *)
HasReply(type) == type \notin {"PACKET_OUT_UDP", "FLOW_MOD"}

(* A factory makes messages of one type.                                    *)
Factories == {{t} : t \in RequestTypes}

(* A constant generator has one factory. The distribution of a              *)
(* TenantGenerator lives in an object of its own; `disc` is the types it    *)
(* can draw and how many such objects there were before it; its constructor *)
(* adds the first gap to a _next_msg that nothing has set.                  *)
Constructed(kind) ==
  [kind : {kind}, inter : Gaps,
   local : IF kind = "constant" THEN {Reference}
                                ELSE {rest + gap : rest \in Leftovers, gap \in Gaps},
   weights : IF kind = "constant" THEN Factories
                                  ELSE {RequestTypes},
   disc : {[types |-> RequestTypes, nr |-> 0]}]

GenInit ==
  /\ gen \in {f \in [Gens -> UNION {Constructed(k) : k \in ToSet(GeneratorKinds)}] :
               \A g \in Gens : f[g] \in Constructed(GeneratorKinds[g])}
  /\ nexting = [pc |-> "idle"] /\ updating = [pc |-> "idle"]
  /\ genUpdates = 0 /\ handed = NoMsg /\ calm = TRUE

-----------------------------------------------------------------------------
(* next(), on the sending thread.                                           *)

Peek_Local(g) == gen[g].local

(* A TenantGenerator has drawn the gap before its next message already.     *)
Peek(g) ==
  IF gen[g].kind = "constant" THEN gen[g].local + gen[g].inter ELSE gen[g].local

Earliest == Min({g \in Gens : \A h \in Gens : Peek(g) <= Peek(h)})

ChooseGenerator ==
  /\ nexting.pc = "idle" /\ Peek(Earliest) <= Horizon
  /\ nexting' = [pc |-> "chosen", g |-> Earliest, calm |-> TRUE]
  /\ UNCHANGED <<gen, updating, genUpdates, handed, calm>>

HandOut(g, time, types, certain) ==
  /\ \E t \in types :
       handed' = [time |-> time, before |-> handed.time, type |-> t,
                  reply |-> HasReply(t), ordered |-> calm /\ nexting.calm,
                  weights |-> gen[g].weights, certain |-> certain]
  /\ calm' = nexting.calm
  /\ nexting' = [pc |-> "idle"]

NextConstant ==
  /\ nexting.pc = "chosen" /\ gen[nexting.g].kind = "constant"
  /\ LET g == nexting.g IN
     /\ gen' = [gen EXCEPT ![g].local = @ + gen[g].inter]
     /\ HandOut(g, gen'[g].local, gen[g].weights, TRUE)
  /\ UNCHANGED <<updating, genUpdates>>

(* next() takes the raw pointer to the distribution's object ...            *)
TakeDistribution ==
  /\ nexting.pc = "chosen" /\ gen[nexting.g].kind = "tenant"
  /\ nexting' = [pc |-> "drawing", g |-> nexting.g, calm |-> nexting.calm,
                 disc |-> gen[nexting.g].disc,
                 alone |-> updating # [pc |-> "swap", g |-> nexting.g]]
  /\ UNCHANGED <<gen, updating, genUpdates, handed, calm>>

(* ... and draws from it.  If update() has replaced it, it is freed and the *)
(* result can be any; so can it be when every weight is 0.                  *)
NextTenant ==
  /\ nexting.pc = "drawing"
  /\ LET g == nexting.g
         freed == nexting.disc.nr # gen[g].disc.nr IN
     /\ \E gap \in Gaps : gen' = [gen EXCEPT ![g].local = @ + gap]
     /\ HandOut(g, gen[g].local,
                IF freed \/ nexting.disc.types = {} THEN RequestTypes
                                                    ELSE nexting.disc.types,
                nexting.alone /\ nexting.disc.types # {})
  /\ UNCHANGED <<updating, genUpdates>>

-----------------------------------------------------------------------------
(* update(), on the watch thread.                                           *)

(* "avg_rate". A TenantGenerator's new distribution shows in the gaps drawn *)
(* later; the key, no type of message, then ends update() with an error. A  *)
(* rate of 0 makes the gap of a ConstantGenerator undefined.                *)
UpdateRate(g, gap) ==
  /\ updating.pc = "idle" /\ genUpdates < GenUpdates
  /\ genUpdates' = genUpdates + 1
  /\ gen' = [gen EXCEPT ![g].inter = gap]
  /\ calm' = FALSE
  /\ nexting' = IF nexting.pc = "idle" THEN nexting
                                       ELSE [nexting EXCEPT !.calm = FALSE]
  /\ UNCHANGED <<updating, handed>>

(* The weight of a type, which a ConstantGenerator ignores ...              *)
UpdateWeight(g, type, positive) ==
  /\ updating.pc = "idle" /\ genUpdates < GenUpdates
  /\ genUpdates' = genUpdates + 1
  /\ IF gen[g].kind = "tenant"
     THEN /\ updating' = [pc |-> "swap", g |-> g]
          /\ gen' = [gen EXCEPT ![g].weights =
                       IF positive THEN @ \cup {type} ELSE @ \ {type}]
          /\ nexting' = IF nexting.pc = "drawing" /\ nexting.g = g
                        THEN [nexting EXCEPT !.alone = FALSE] ELSE nexting
     ELSE UNCHANGED <<updating, gen, nexting>>
  /\ UNCHANGED <<handed, calm>>

(* ... and the object that draws with the new weights.                      *)
SwapDistribution ==
  /\ updating.pc = "swap" /\ updating' = [pc |-> "idle"]
  /\ gen' = [gen EXCEPT ![updating.g].disc =
               [types |-> gen[updating.g].weights, nr |-> @.nr + 1]]
  /\ UNCHANGED <<nexting, genUpdates, handed, calm>>

-----------------------------------------------------------------------------
GenNext ==
  \/ ChooseGenerator \/ NextConstant \/ TakeDistribution \/ NextTenant
  \/ SwapDistribution
  \/ \E g \in Gens, gap \in Gaps : UpdateRate(g, gap)
  \/ \E g \in Gens, t \in RequestTypes, b \in BOOLEAN : UpdateWeight(g, t, b)

GenSpec == GenInit /\ [][GenNext]_genVars

-----------------------------------------------------------------------------
(* Merged schedules are in order: no message is due before the one handed   *)
(* out before it, unless a rate was changed since that one was chosen       *)
(* (GeneratorContainer::next, whose minimum of peek() is stale by then).    *)
(* And a type whose weight was set to 0 is not sent any more: a message     *)
(* whose draw met no update() has a type of positive weight, if there is    *)
(* one (TenantGenerator::update and next).                                  *)
HandedAsConfigured ==
  /\ handed.ordered => handed.before <= handed.time
  /\ handed.certain => handed.type \in handed.weights
=============================================================================
