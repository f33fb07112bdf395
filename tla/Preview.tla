------------------------------ MODULE Preview ------------------------------
(***************************************************************************)
(* modules/vgss.c: the life of the infrared preview.  init creates the     *)
(* image processor, the capture interface and a thread that sends frames   *)
(* from one to the other; deinit stops the thread, joins it and destroys   *)
(* both.  The thread sets the state too: to pause when it starts, to stop  *)
(* when a frame fails.  The state is read and written without the mutex.   *)
(*                                                                         *)
(* A view is what the interface holds; the operators give the view after a *)
(* call, or the set of views it may leave.  Frames, stabilizer, zoom and   *)
(* the external video output are left out.                                 *)
(***************************************************************************)

States  == {"stop", "pause", "run"}
Threads == {"none", "begin", "on", "ended"}   \* none: nothing to join
Objects == {"null", "live", "freed"}          \* freed: the pointer is kept

Views == [state : States, thread : Threads, camif : Objects, ipu : Objects,
          sane : BOOLEAN]   \* history: nothing was freed or joined twice

vgss_create == [state |-> "stop", thread |-> "none", camif |-> "null",
                ipu |-> "null", sane |-> TRUE]

Freed(object) == IF object = "live" THEN "freed" ELSE object

(* camif_destroy and ipu_destroy: a null pointer is refused, a freed one is not. *)
Destroyed(v) ==
  [v EXCEPT !.camif = Freed(@), !.ipu = Freed(@),
            !.sane = @ /\ "freed" \notin {v.camif, v.ipu}]

Opened(v, ipu, camif) == [v EXCEPT !.ipu = ipu, !.camif = camif]

(* vgss_init_preview: without an image processor the capture interface is what
   the last preview left. *)
InitPreview(v) ==
  [Opened(v, "live", "live") EXCEPT !.state = "pause", !.thread = "begin"]

InitFails(v) ==
  {Destroyed(w) : w \in {Opened(v, "null", v.camif), Opened(v, "live", "null"),
                         Opened(v, "live", "live")}}

(* vgss_run_preview: whether there is a thread or not. *)
RunPreview(v) == [v EXCEPT !.state = "run"]

StopPreview(v) == [v EXCEPT !.state = "stop"]

(* Mutant: the capture interface is destroyed while the thread still uses it. *)
CanJoinAnyTime(v) == TRUE

(* vgss_deinit_preview behind vgss_stop_preview: pthread_join returns when the
   thread has ended; without a thread it is undefined. *)
CanJoin(v) == v.thread \in {"ended", "none"}

JoinPreview(v) ==
  [Destroyed(v) EXCEPT !.thread = "none", !.sane = @ /\ v.thread = "ended"]

-----------------------------------------------------------------------------
(* vgss_process_preview, the thread. *)

(* The state is set to pause whatever the main thread has made of it since; if
   the stream does not start, the thread is gone and the state stays. *)
Started(v) == [v EXCEPT !.state = "pause", !.thread = "on"]

NotStarted(v) == [v EXCEPT !.state = "pause", !.thread = "ended"]

(* No frame in time, or one that cannot be dequeued, drawn or queued again. *)
FrameFails(v) == [v EXCEPT !.state = "stop"]

Ended(v) == [v EXCEPT !.thread = "ended"]

=============================================================================
