---------------------------- MODULE MCGattNotify ----------------------------
(***************************************************************************)
(* Small instances of GattNotify: which thread calls which operations, and *)
(* the bytes they write.  The dispatcher runs the D-Bus handlers, and      *)
(* StartNotify, StopNotify and Get("Notifying") through the operation each *)
(* of them wraps.                                                          *)
(***************************************************************************)
EXTENDS GattNotify, TLC

CONSTANTS app, app2, dispatcher

MCCharWrites == {<<7>>, <<9, 0>>}
OneCharWrite == {<<7>>}
Off == <<0, 0>>
Notify == <<1, 0>>
Indicate == <<2, 0>>
\* a CCCD value without a zero byte arrives whole
OnOff == {Off, Notify}
MCDescWrites == {Off, Indicate}
RemoteWrite == {<<2, 1>>}

WithReadCallbacks == [o \in Objects |-> TRUE]
NoReadCallback == [o \in Objects |-> FALSE]

\* Two application threads beside the dispatcher, between them every kind of step of
\* the characteristic; a client writes and reads the CCCD, whose read callback comes
\* and goes.
AllOps ==
       app        :> {"setValue", "startNotify"}
    @@ app2       :> {"setValue", "getValue", "descSetReadCallback", "descClearReadCallback"}
    @@ dispatcher :> {"ReadValue", "WriteValue", "stopNotify",
                      "descReadValue", "descWriteValue"}

\* Two threads write the CCCD, one of them sets the value too, and a client
\* switches notifications off itself.
CccdWritersOps ==
       app        :> {"descSetValue"}
    @@ app2       :> {"descSetValue", "setValue"}
    @@ dispatcher :> {"stopNotify"}

\* The CCCD is written by the peer only.
RemoteCccdWriterOps ==
       app        :> {"setValue"}
    @@ dispatcher :> {"descWriteValue"}

\* The application sets the value while a client subscribes and reads it.
SetAndReadOps ==
       app        :> {"setValue"}
    @@ dispatcher :> {"startNotify", "ReadValue"}
=============================================================================
