--------------------------- MODULE MCRemoteInput ---------------------------
(***************************************************************************)
(* Coordinates are multiples of 16: two divisions by 4 or four by 2 stay   *)
(* exact.  Frames aim, press, drag, scroll and set the camera, alone and   *)
(* together; one zoom is beyond the limits.                                *)
(***************************************************************************)
EXTENDS RemoteInput

NoInput == [camera |-> <<>>, mouse |-> <<>>, left |-> <<>>, right |-> <<>>, scroll |-> 0]

MCInputs ==
    {[NoInput EXCEPT !.mouse = <<48>>],
     [NoInput EXCEPT !.mouse = <<-16>>, !.right = <<TRUE>>],
     [NoInput EXCEPT !.camera = <<[x |-> 32, z |-> 4]>>, !.mouse = <<48>>, !.scroll = 1],
     [NoInput EXCEPT !.camera = <<[x |-> 16, z |-> 1]>>, !.left = <<TRUE>>],
     [NoInput EXCEPT !.scroll = 1, !.left = <<FALSE>>],
     [NoInput EXCEPT !.scroll = -1, !.right = <<FALSE>>]}

MCWheels == {-1, 0, 1}
=============================================================================
