------------------------- MODULE ExecutionStatuses -------------------------
(***************************************************************************)
(* The life of one execution, as packages/core/src/execution-store.js      *)
(* allows it.  "absent" stands for an id the store does not hold.          *)
(***************************************************************************)

Statuses == {"proposed", "approved", "running", "completed", "failed", "cancelled"}

(* TRANSITIONS: from each status, the statuses transition() accepts next.  *)
Transitions ==
  [absent    |-> {},
   proposed  |-> {"approved", "cancelled"},
   approved  |-> {"running", "cancelled"},
   running   |-> {"completed", "failed", "cancelled"},
   completed |-> {},
   failed    |-> {},
   cancelled |-> {}]

(* The statuses an execution may have had before.                          *)
Earlier ==
  [absent    |-> {},
   proposed  |-> {"absent"},
   approved  |-> {"absent", "proposed"},
   running   |-> {"absent", "proposed", "approved"},
   completed |-> {"absent", "proposed", "approved", "running"},
   failed    |-> {"absent", "proposed", "approved", "running"},
   cancelled |-> {"absent", "proposed", "approved", "running"}]

Finished == {"completed", "failed", "cancelled"}

Live == {"proposed", "approved", "running"}
=============================================================================
