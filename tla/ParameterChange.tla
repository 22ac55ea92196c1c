-------------------------- MODULE ParameterChange --------------------------
(***************************************************************************)
(* A parameter which is changed by clients: the request is imported,       *)
(* validated, assigned, and the new value is exported for the reply        *)
(* (protocol/dispatcher.py, and the write wrapper of frappy/modulebase.py).*)
(***************************************************************************)
EXTENDS DataTypes

CONSTANTS
    Types,      \* data types of the parameter
    Wires,      \* values in requests
    Readings    \* values the code of the module assigns

VARIABLES dt, value, reply
vars == <<dt, value, reply>>

-----------------------------------------------------------------------------
(* the parameter *)

NoReply == [to |-> NoValue, ok |-> TRUE]

Init == dt \in Types /\ value = Default(dt) /\ reply = NoReply

\* Dispatcher._setParameterValue and the write wrapper of the module, which
\* validates again without a previous value; the reply is the exported value
Change(w) ==
    LET imported == Import(dt, w)
        checked == IF imported.ok THEN Validate(dt, imported.v, value) ELSE Error
        written == IF checked.ok THEN Validate(dt, checked.v, NoValue) ELSE Error
    IN /\ value' = IF written.ok THEN written.v ELSE value
       /\ reply' = [to |-> w, ok |-> written.ok /\ Export(dt, written.v).ok]
       /\ UNCHANGED dt

\* a value from the hardware is converted; the limits are for changes only
Assign(v) ==
    /\ Call(dt, v).ok
    /\ value' = Call(dt, v).v /\ reply' = NoReply
    /\ UNCHANGED dt

Next == (\E w \in Wires : Change(w)) \/ (\E v \in Readings : Assign(v))

Spec == Init /\ [][Next]_vars

-----------------------------------------------------------------------------
\* A change does what was asked for, or is refused and changes nothing, whatever the
\* value was before.
DoesWhatIsAsked ==
    [][reply' # NoReply =>
         IF reply'.ok THEN value' \in Asked(dt, reply'.to, value) ELSE value' = value]_vars

\* A client which knows the type from the description only sees the value the
\* server has: get_datatype is the "inverse of <DataType>.export_datatype()".
ClientSees ==
    LET sent == Export(dt, value) IN sent.ok => Import(Described(dt), sent.v) = Ok(value)

\* compatible() accepts an other type only when all own values are valid there:
\* it has to raise when "there exists a value which is valid for ourselfs, but not
\* for <other>".
SoundFor(o) ==
    Compatible(dt, o) /\ Validate(dt, value, NoValue).ok => Validate(o, value, NoValue).ok

CompatibleSound == \A o \in Types : SoundFor(o)

\* It does, but for a bool and a range without 0 or 1, optional members of a struct
\* which are mandatory there, and a tuple and limits: the proxy and Writable, which
\* use it, are right for numbers, strings, enums and arrays and tuples of them.
CompatibleMostly ==
    \A o \in Types : dt.kind \notin {"bool", "struct"} /\ o.kind # "limit" => SoundFor(o)
=============================================================================
