----------------------------- MODULE MCMindDrive -----------------------------
(***************************************************************************)
(* What the guards of the MindDrive node achieve on a route change.        *)
(***************************************************************************)
EXTENDS MindDrive

InModel == pc["gpu"] = "model"

\* Whatever arrives between snapshot, preparation and forward, the model is
\* given frames of one route: the images and the odometry, the route they are
\* planned along and the scene token are of the same.  (Speed and IMU are not
\* dated by the node and may be of the route before.)
FrameOfOneRoute ==
  InModel => LET f == frame["gpu"] IN
    token[f] = snap[f].serial /\ snap[f].inputs = snap[f].serial

\* The model takes the path of "the very first frame" on every route: it is
\* entered with a frame of another route than the last only with its flag
\* cleared, though the reset may run on the other worker while it infers.  But
\* the flag that a reset has cleared is set again by a frame that enters the
\* model late, between that reset and the first frame of the new route.
Last         == modelLog[Len(modelLog)]
LastModelled == IF modelLog = <<>> THEN 0 ELSE snap[Last].serial
FirstFramePath ==
  [][pc["gpu"] = "enter" /\ pc'["gpu"] = "model"
       => \/ ~testFlag \/ snap[frame["gpu"]].serial = LastModelled
          \/ modelLog # <<>> /\ Last \in late]_mdAll

\* "a forward in flight across the boundary is discarded on return": a frame
\* enters the model, or has its plan stored, after its route has ended only if
\* that route ended between a test of the serial and what relies on it: for
\* every such frame a route did.
StraysSlipped == Cardinality(late \cup strays) <= slipped

\* But for such a plan, the controller that is in place after a reset has been
\* stepped with plans of the present route only.
CleanPid == strays = {} /\ ~pending => \A f \in fed : snap[f].serial = serial
=============================================================================
