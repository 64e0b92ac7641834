------------------------------ MODULE MCImages ------------------------------
(***************************************************************************)
(* Two charts of one cache that keeps one of them, and two threads.  A     *)
(* behaviour looks at one of two scenes, for which all of the steps        *)
(* together would be too many: in "drawing" plotters fail and requests are *)
(* counted, in "cleaning" files age and the janitor and /cachestats remove *)
(* some, with a row of statistics that no request gets written to.         *)
(***************************************************************************)
EXTENDS ImageCache

CONSTANTS fleet, pings, one, two

VARIABLE scene

\* Renderers and images are alike: the first to do anything may be any.
AnyFirst == asks' = 1 => renders'[two] = Idle /\ renders'[one].image = Idle.image

Drawing ==
    /\ scene = "drawing"
    /\ (\E r \in Renderer : RenderStep(r) \/ CleanStep(r)) \/ ClearStats

Cleaning ==
    /\ scene = "cleaning" /\ UNCHANGED stats
    /\ \/ \E r \in Renderer :
            (RenderStep(r) /\ ~DrawFails(r) /\ ~DrawNothing(r)) \/ CleanStep(r)
       \/ Janitor \/ ClearItems \/ Tick

Init ==
    /\ ImageInit /\ scene \in {"drawing", "cleaning"}
    /\ stats.there <=> scene = "cleaning"

Next == (Drawing \/ Cleaning) /\ AnyFirst /\ UNCHANGED scene

vars == <<imageVars, scene>>

\* The janitor's loop comes round again.
Spec == Init /\ [][Next]_vars /\ WF_vars(scene = "cleaning" /\ Janitor /\ UNCHANGED scene)
=============================================================================
