---------------------------- MODULE RuntimeGuard ----------------------------
(* The guard that run() steps at the end of every frame                     *)
(* (LIVMapper::updateRuntimeGuard): too many frames in a row over their     *)
(* time budget degrade the outputs, enough within it restore them.  With    *)
(* it, what it reconfigures: the coloured clouds that handleVIO publishes   *)
(* and saves (publish_frame_world, savePCD), images being enabled.          *)
EXTENDS Naturals

CONSTANTS
  Options,     \* what the user may configure
  Trigger,     \* runtime_over_budget_trigger_frames_
  Recover,     \* runtime_recover_trigger_frames_
  Nominal,     \* publish/pub_scan_num
  Degraded,    \* pub_scan_num_degraded_
  MaxWaiting   \* bound: clouds waiting are counted up to this

ASSUME RuntimeGuardAssumption ==
  /\ {Trigger, Recover, Nominal, Degraded} \subseteq Nat \ {0}
  /\ MaxWaiting \in Nat
  /\ Options \subseteq [colorize : BOOLEAN, pcdSave : BOOLEAN,
                        dropColour : BOOLEAN, dropSave : BOOLEAN, interval : Nat]

VARIABLES
  opt,      \* the configuration; interval 0 saves once, at the end
  frames,   \* the guard: over and under budget in a row, whether it degrades
  out,      \* colorize_cloud_en_, pcd_save_en, pub_scan_num
  pubNum,   \* publish_frame_world's static pub_num
  fresh,    \* pcl_w_wait_pub holds a scan's points
  waiting,  \* scans in pcl_wait_pub
  kept,     \* pcl_wait_save is not empty
  wrote,    \* scans since the last file (scan_wait_num)
  up        \* run() loops

guardVars == <<opt, frames, out, pubNum, fresh, waiting, kept, wrote, up>>

Smaller(a, b) == IF a < b THEN a ELSE b
Larger(a, b) == IF a > b THEN a ELSE b

\* a pub_num above both strides is never due again, however far above
NeverDue == Larger(Nominal, Degraded) + 1

NominalOut == [colorize |-> opt.colorize, pcdSave |-> opt.pcdSave, every |-> Nominal]

DegradedOut ==
  [colorize |-> out.colorize /\ ~opt.dropColour,
   pcdSave  |-> out.pcdSave /\ ~opt.dropSave,
   every    |-> Larger(Nominal, Degraded)]

GuardInit ==
  /\ opt \in Options /\ out = NominalOut
  /\ frames = [over |-> 0, under |-> 0, degraded |-> FALSE]
  /\ pubNum = 1 /\ fresh = FALSE /\ waiting = 0 /\ kept = FALSE /\ wrote = 0
  /\ up = TRUE

\* updateRuntimeGuard at the end of a frame that was over its budget or not;
\* a count past its trigger says no more than the trigger
Guard(late) ==
  LET over  == IF late THEN Smaller(frames.over + 1, Trigger) ELSE 0
      under == IF late THEN 0 ELSE Smaller(frames.under + 1, Recover)
      enter == ~frames.degraded /\ over = Trigger
      leave == frames.degraded /\ under = Recover
  IN  /\ frames' = IF enter \/ leave THEN [over |-> 0, under |-> 0, degraded |-> enter]
                   ELSE [frames EXCEPT !.over = over, !.under = under]
      /\ out' = IF enter THEN DegradedOut ELSE IF leave THEN NominalOut ELSE out

\* handleLIO: an update that is not given up leaves its points for the images
Scan(late) ==
  /\ up /\ Guard(late)
  /\ fresh' \in {fresh, TRUE}
  /\ UNCHANGED <<opt, pubNum, waiting, kept, wrote, up>>

\* publish_frame_world gathers the scan, and colours what has gathered when the
\* turn has come; seen: some point of it lies in the image
Gather(seen) ==
  LET need == out.colorize \/ out.pcdSave
      due  == need /\ pubNum = out.every
      rgb  == due /\ seen
      cloud == kept \/ rgb
      scans == Smaller(wrote + 1, opt.interval)
      file == cloud /\ opt.interval > 0 /\ scans = opt.interval
  IN  /\ pubNum' = IF due THEN 1
                   ELSE IF need THEN Smaller(pubNum + 1, NeverDue) ELSE pubNum
      /\ waiting' = IF ~need \/ rgb THEN 0 ELSE Smaller(waiting + 1, MaxWaiting)
      /\ kept' = IF out.pcdSave THEN cloud /\ ~file ELSE kept
      /\ wrote' = IF ~out.pcdSave THEN wrote ELSE IF file THEN 0 ELSE scans
      /\ fresh' = FALSE

\* handleVIO, the image used for an update or not
Image(late, seen) ==
  /\ up /\ Guard(late)
  /\ IF fresh THEN Gather(seen) ELSE UNCHANGED <<pubNum, waiting, kept, wrote, fresh>>
  /\ UNCHANGED <<opt, up>>

\* run() ends: savePCD writes one file if pcd_save_en is on at that moment
Exit ==
  /\ up /\ up' = FALSE
  /\ kept' = (kept /\ ~(out.pcdSave /\ opt.interval = 0))
  /\ UNCHANGED <<opt, frames, out, pubNum, fresh, waiting, wrote>>

GuardNext ==
  \/ \E late \in BOOLEAN : Scan(late) \/ \E seen \in BOOLEAN : Image(late, seen)
  \/ Exit

\* The sensors go on: now and then a scan leaves points and an image sees some.
GuardFairness ==
  /\ WF_guardVars(\E late \in BOOLEAN : Scan(late) /\ fresh')
  /\ SF_guardVars(\E late \in BOOLEAN : fresh /\ Image(late, TRUE))

GuardSpec == GuardInit /\ [][GuardNext]_guardVars /\ GuardFairness
-----------------------------------------------------------------------------
(* Once the guard has recovered, what waits to be coloured is published, or   *)
(* the guard degrades again: the outputs are those of the configuration       *)
(* (updateRuntimeGuard's second half; config/mid360.yaml:264).                *)
RecoveredPublishes ==
  (up /\ waiting > 0 /\ ~frames.degraded) ~> (waiting = 0 \/ frames.degraded \/ ~up)
=============================================================================
