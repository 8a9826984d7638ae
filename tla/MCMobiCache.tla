---------------------------- MODULE MCMobiCache -----------------------------
(* Small instances of MobiCache for TLC. *)
EXTENDS MobiCache

CONSTANTS x, y, z

\* Me hears x and y; x, y and z hear each other.
MCRoute ==
  {<<Me, x>>, <<Me, x, y>>, <<Me, x, z>>, <<Me, x, y, z>>,
   <<Me, y>>, <<Me, y, z>>}

\* Routes in overheard replies: through this node, from it, to it, past it.
MCHeard ==
  {<<x, Me, y, z>>, <<y, Me, x, z>>, <<Me, x, y>>,
   <<z, x, Me>>, <<x, y, z>>}

=============================================================================
