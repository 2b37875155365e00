------------------------------ MODULE MCParts ------------------------------
(***************************************************************************)
(* Loader, snprintf, keyboard and viewer in one run for TLC.  They share   *)
(* no variable, so a behaviour of all four is an interleaving of one of    *)
(* each, and every property is about one of them: it is enough that in a   *)
(* behaviour one part moves while the others rest.                         *)
(***************************************************************************)
EXTENDS MCLoader, MCPrintf, MCKeyboard, Viewer

VARIABLE part   \* the part that moves

parts == <<vars, printf_vars, keyboard_vars, viewer_vars, part>>

\* a loader that found no kernel
LoaderRests ==
    /\ mode = "hang" /\ image = CHOOSE im \in Kernels : TRUE
    /\ i = 1 /\ mem = [b \in Bytes |-> JUNK] /\ ptr = 0 /\ sect = 0
    /\ rights = [v \in VPages |-> "none"] /\ room = (CHOOSE r \in Rooms : TRUE) /\ brk = 0

\* a call that has returned: there was no room
PrintfRests ==
    /\ caller = "snprintf" /\ size = 0 /\ buf = Blank /\ s = 0 /\ stage = "done"
    /\ fmt = (CHOOSE f \in Formats : TRUE) /\ todo = fmt

\* the first exception was the exit of the only process
ViewerRests ==
    /\ alive = {} /\ display_status = {1} /\ current = 0 /\ disp_global = TRUE /\ ticks = 0
    /\ view = memshow_virtual_animate(FirstView, 0, {1}) /\ picture = 1

\* switched off with q, the first key pressed
KeyboardRests ==
    /\ modifiers = {} /\ last_escape = FALSE /\ queue = <<>> /\ down = {}
    /\ status = "off" /\ program = setup("")

PartsInit ==
    \/ part = "loader" /\ Init /\ PrintfRests /\ KeyboardRests /\ ViewerRests
    \/ part = "printf" /\ LoaderRests /\ PrintfInit /\ KeyboardRests /\ ViewerRests
    \/ part = "keyboard" /\ LoaderRests /\ PrintfRests /\ KeyboardInit /\ ViewerRests
    \/ part = "viewer" /\ LoaderRests /\ PrintfRests /\ KeyboardRests /\ ViewerInit

PartsNext ==
    /\ UNCHANGED part
    /\ \/ part = "loader" /\ Next /\ UNCHANGED <<printf_vars, keyboard_vars, viewer_vars>>
       \/ part = "printf" /\ PrintfNext /\ UNCHANGED <<vars, keyboard_vars, viewer_vars>>
       \/ part = "keyboard" /\ KeyboardNext /\ UNCHANGED <<vars, printf_vars, viewer_vars>>
       \/ part = "viewer" /\ ViewerNext /\ UNCHANGED <<vars, printf_vars, keyboard_vars>>

\* the fairness of the parts: what rests has none of these steps to take
PartsSpec ==
    /\ PartsInit /\ [][PartsNext]_parts
    /\ WF_vars(Next) /\ WF_keyboard_vars(CheckKeyboard) /\ WF_viewer_vars(Timer)

=============================================================================
