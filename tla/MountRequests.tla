---------------------------- MODULE MountRequests ----------------------------
(***************************************************************************)
(* The requests of a client between power cuts: manual motion              *)
(* (ManualMotion), the configuration and the axis limits, and what of them *)
(* is kept in flash.                                                       *)
(*                                                                         *)
(* The NVS library writes one key at a time, each atomically; a cut may    *)
(* come between any two writes, and a write may fail.                      *)
(***************************************************************************)
EXTENDS ManualMotion

CONSTANTS
  Sites,          \* values of a key of the site that are in range
  Default,        \* and the one it has without a saved value
  SiteKeys,       \* the keys mount_settings_save() writes, in order
  LimitKeys,      \* the keys motors_limits_save() writes, in order
  Places,         \* positions that may become a limit, besides Factory
  Factory,
  Unset,          \* a key the flash does not have
  MaxBoots        \* bound for TLC

KeysOf(s) == {s[i] : i \in DOMAIN s}

ASSUME SettingsConstants ==
  /\ Default \in Sites /\ Invalid \notin Sites /\ Omitted \notin Sites
  /\ Factory \notin Places /\ MaxBoots \in Nat
  /\ SiteKeys \in Seq(STRING) /\ LimitKeys \in Seq(STRING)
  /\ KeysOf(SiteKeys) \cap KeysOf(LimitKeys) = {}
  /\ "cfg_rev" \notin KeysOf(SiteKeys) \cup KeysOf(LimitKeys)
  /\ Unset \notin Nat \cup Sites \cup Places \cup {Factory}

VARIABLES
  site,           \* mount_internal_state
  limits,         \* motors_state.limits
  guide,          \* s_guide_rate_ra, s_guide_rate_dec: one of them
  rev,            \* s_config_rev
  flash,          \* the NVS: a value for each key, or Unset
  next,           \* the key about to be written
  msg,            \* the CONFIG message in hand
  failed, changed,   \* its locals: err is set; changed
  boots,
  worn,           \* history: a write to the flash has failed
  read            \* history: what a client knows: the boot, the revision, the configuration

settings == <<site, limits, guide, rev>>
config == <<msg, failed, changed>>
vars == <<motionVars, settings, flash, next, config, boots, worn, read>>

NoMessage == [site |-> [k \in KeysOf(SiteKeys) |-> Omitted], guide |-> Omitted, utc |-> Omitted]
Configuration == <<site, guide>>

\* Loading: what was saved, and defaults for the rest.
Loaded(k, default) == IF flash[k] = Unset THEN default ELSE flash[k]

Boot ==
  /\ site = [k \in KeysOf(SiteKeys) |-> Loaded(k, Default)]
  /\ limits = [k \in KeysOf(LimitKeys) |-> Loaded(k, Factory)]
  /\ rev = Loaded("cfg_rev", 0)
  /\ guide = "half"
  /\ next = 1 /\ msg = NoMessage /\ failed = FALSE /\ changed = FALSE

Init ==
  /\ flash = [k \in KeysOf(SiteKeys) \cup KeysOf(LimitKeys) \cup {"cfg_rev"} |-> Unset]
  /\ MotionStart /\ requests \in Budgets /\ Boot
  /\ boots = 1 /\ worn = FALSE /\ read = <<0, 0, 0>>
-----------------------------------------------------------------------------
(***************************************************************************)
(* CONFIG: the site, the guide rates, the clock, the revision              *)
(***************************************************************************)
Still == <<remembered, motors, locals, history>>

Config(m) ==
  /\ Accept("settings")
  /\ msg' = m /\ failed' = FALSE /\ changed' = FALSE
  /\ Goto("site")
  /\ UNCHANGED <<Still, settings, flash, next, boots, worn, read>>

\* mount_settings_update(): all the keys are checked before one is changed.
UpdateSite ==
  LET m == msg.site
      new == [k \in DOMAIN site |-> IF m[k] = Omitted THEN site[k] ELSE m[k]]
  IN
  /\ pc = "site"
  /\ IF \A k \in DOMAIN m : m[k] = Omitted
     THEN Goto("guide") /\ UNCHANGED <<site, failed, changed>>
     ELSE IF \E k \in DOMAIN m : m[k] = Invalid
     THEN failed' = TRUE /\ Goto("guide") /\ UNCHANGED <<site, changed>>
     ELSE site' = new /\ changed' = TRUE /\ Goto("save_site") /\ UNCHANGED failed
  /\ UNCHANGED <<Still, requests, limits, guide, rev, flash, next, msg, boots, worn, read>>

\* One write of a save; after a failed one the site is not saved further.
Save(keys, value, label, then) ==
  /\ pc = label
  /\ IF next > Len(keys)
     THEN Goto(then) /\ next' = 1 /\ UNCHANGED <<flash, worn>>
     ELSE \/ flash' = [flash EXCEPT ![keys[next]] = value[keys[next]]] /\ next' = next + 1
             /\ UNCHANGED <<pc, worn>>
          \/ worn' = TRUE /\ UNCHANGED flash
             /\ IF label = "save_site" THEN Goto(then) /\ next' = 1
                                       ELSE next' = next + 1 /\ UNCHANGED pc
  /\ UNCHANGED <<Still, requests, settings, config, boots, read>>

SaveSite == Save(SiteKeys, site, "save_site", "guide")
SaveLimits == Save(LimitKeys, limits, "save_limits", "idle")

Applied == changed \/ msg.guide # Omitted \/ msg.utc = "date"

Rest(counted) ==
  /\ pc = "guide"
  /\ guide' = IF msg.guide = Omitted THEN guide ELSE msg.guide
  /\ failed' = (failed \/ msg.utc = Invalid)
  /\ changed' = counted
  /\ IF counted THEN rev' = rev + 1 /\ Goto("save_rev") ELSE UNCHANGED rev /\ Goto("answer")
  /\ UNCHANGED <<Still, requests, site, limits, flash, next, msg, boots, worn, read>>

ApplyRest_RevOnlyIfOk == Rest(Applied /\ ~failed /\ msg.utc # Invalid)

\* The rest is applied whatever became of the site, and the revision counts it.
ApplyRest == Rest(Applied)

SaveRev ==
  /\ pc = "save_rev" /\ Goto("answer")
  /\ \/ flash' = [flash EXCEPT !["cfg_rev"] = rev] /\ UNCHANGED worn
     \/ worn' = TRUE /\ UNCHANGED flash
  /\ UNCHANGED <<Still, requests, settings, next, config, boots, read>>

\* The answer shows the configuration, unless a field was refused.
Answer ==
  /\ pc = "answer" /\ Reply
  /\ read' = IF failed THEN read ELSE <<boots, rev, Configuration>>
  /\ msg' = NoMessage /\ failed' = FALSE /\ changed' = FALSE
  /\ UNCHANGED <<Still, requests, settings, flash, next, boots, worn>>
-----------------------------------------------------------------------------
(***************************************************************************)
(* Limits and power                                                        *)
(***************************************************************************)
LimitsChange(new, then) ==
  /\ Accept("settings")
  /\ \/ Error /\ UNCHANGED <<pc, motors, limits, owed>>
     \/ ~Error /\ MotorsStop /\ limits' = new /\ owed' = "none" /\ Goto(then)
     \/ ~Error /\ SetHome /\ UNCHANGED limits /\ owed' = "none" /\ Goto(then)
  /\ UNCHANGED <<remembered, locals, asked, stopped,
                 site, guide, rev, flash, next, config, boots, worn, read>>

SetLimits_NotSaved(new) == LimitsChange(new, "idle")

\* A limit is set to where the axis stands, all are reset, or the origin moves;
\* the motors are stopped first, the memory of the mount layer stays.
SetLimits(new) == LimitsChange(new, "save_limits")

NewLimits ==
  {[limits EXCEPT ![k] = p] : k \in KeysOf(LimitKeys), p \in Places}
    \cup {[k \in KeysOf(LimitKeys) |-> Factory]}

PowerCut ==
  /\ boots < MaxBoots
  /\ boots' = boots + 1
  /\ saved' = "none" /\ rate' = Zero
  /\ status' = "ready" /\ tracking' = "none" /\ queue' = <<>> /\ active' = Nothing
  /\ Reply
  /\ asked' = Zero /\ stopped' = TRUE /\ owed' = "none"
  /\ site' = [k \in KeysOf(SiteKeys) |-> Loaded(k, Default)]
  /\ limits' = [k \in KeysOf(LimitKeys) |-> Loaded(k, Factory)]
  /\ rev' = Loaded("cfg_rev", 0)
  /\ guide' = "half"
  /\ next' = 1 /\ msg' = NoMessage /\ failed' = FALSE /\ changed' = FALSE
  /\ UNCHANGED <<requests, flash, worn, read>>
-----------------------------------------------------------------------------
ConfigMessages ==
  [site : [KeysOf(SiteKeys) -> Sites \cup {Omitted, Invalid}],
   guide : {Omitted, "full"}, utc : {Omitted, Invalid, "date"}]

MotionStep ==
  /\ MotionTask \/ TrackingEnds \/ PowerLost \/ PowerBack \/ HandlerStep \/ ManualRequest \/ OtherAction
  /\ UNCHANGED <<settings, flash, next, config, boots, worn, read>>

ConfigStep == UpdateSite \/ SaveSite \/ ApplyRest \/ SaveRev \/ Answer \/ SaveLimits

Next ==
  \/ MotionStep \/ ConfigStep
  \/ \E m \in ConfigMessages : Config(m)
  \/ \E new \in NewLimits : SetLimits(new)
  \/ PowerCut

Spec ==
  /\ Init /\ [][Next]_vars
  /\ WF_vars(MotionTask /\ UNCHANGED <<settings, flash, next, config, boots, worn, read>>)
  /\ WF_vars(HandlerStep /\ UNCHANGED <<settings, flash, next, config, boots, worn, read>>)
-----------------------------------------------------------------------------
(***************************************************************************)
(* Properties                                                              *)
(***************************************************************************)
\* Types, and the queue within its length.
TypeOK ==
  /\ saved \in Modes \cup {"none"} /\ rate \in [Axes -> Rates \cup {0}]
  /\ status \in {"ready", "slewing", "tracking", "parked", "error"}
  /\ tracking \in Modes \cup {"none"}
  /\ \A i \in DOMAIN queue : queue[i] \in Command
  /\ Len(queue) <= QueueLength /\ active \in Command \cup {Nothing}
  /\ fields \in [Axes -> Rates \cup {0, Omitted}] /\ mode \in Modes \cup {"none", Omitted}
  /\ want \in [Axes -> Rates \cup {0}] /\ {keep, owed} \subseteq Modes \cup {"none"}
  /\ asked \in [Axes -> Rates \cup {0}] /\ requests \in [{"motion", "settings"} -> Nat]
  /\ site \in [KeysOf(SiteKeys) -> Sites]
  /\ limits \in [KeysOf(LimitKeys) -> Places \cup {Factory}]
  /\ rev \in Nat /\ next \in 1 .. Len(SiteKeys \o LimitKeys) + 1

\* A message for one axis keeps the rate of the other one.  The newest order
\* that is waiting or running has, for each axis, what clients last asked of
\* it since the last stop: neither a rate from before a stop nor one the motors
\* refused (mount_set_move_axis_speed.c:8-12, 50-53, 58-63).
Latest(i) ==
  queue[i].type = "move" /\ \A j \in DOMAIN queue : j > i => queue[j].type # "move"

OrderAsAsked ==
  /\ \A i \in DOMAIN queue : Latest(i) => queue[i].rates = asked
  /\ active.type = "move" /\ (\A i \in DOMAIN queue : queue[i].type # "move")
       => active.rates = asked

\* After a stop with scope `all', a manual stop brings no tracking back until
\* another manual motion has interrupted it (mount_set_move_axis_speed.c:20, 82-86).
StopForgets == pc = "restore" => ~stopped

\* The tracking that a manual motion interrupted comes back with a manual stop,
\* if no other request, fault or power cut intervenes: the mode is read before
\* the stop that clears it (mount_set_move_axis_speed.c:19-27).
ManualStopResumes == \A m \in Modes : (owed = m) ~> (tracking = m \/ owed # m)

\* Within a boot, a client that reads the same revision twice has read the
\* same configuration, also when another message changed it and failed in part
\* (proto_session.c:4-6, proto_config.c:43-62).
RevTellsChange ==
  pc = "idle" /\ read[1] = boots /\ read[2] = rev => read[3] = Configuration

\* What was answered survives a cut: a restart between two requests finds the
\* site, the revision and the limits as they were, unless the flash has failed
\* (mount_settings_save.c:22-65, motors_limits.c:56-72).
AnsweredSurvives ==
  [][boots' # boots /\ pc = "idle" /\ ~worn => UNCHANGED <<site, rev, limits>>]_vars
=============================================================================
