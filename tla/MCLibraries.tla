----------------------------- MODULE MCLibraries -----------------------------
(***************************************************************************)
(* Instances of the modules that model one component and one thread each.  *)
(* A behaviour drives one of them, its subject; the variables of the       *)
(* others stay as they are created.                                        *)
(***************************************************************************)
EXTENDS RingBuffer, Dict, Sds, SdsArgs, AeLoop, ClientInput, TLC

CONSTANTS
    Subjects,       \* the components to be driven
    k1, k2          \* keys

VARIABLE subject

\* Two keys whose buckets differ only in a table of four or more.
HashOf == (k1 :> 0) @@ (k2 :> 2)
TwoOne == <<2, 1>>
\* A descriptor that is only written to, and one for both directions.
OneBoth == (0 :> {"writable"}) @@ (1 :> Bits)

\* A text; a GET with and one without a query; a POST with a field more than it
\* needs; a handshake with frames; two requests at once; an empty frame.
Field(name, value) == <<name, "colon", "sp", value, "cr", "lf">>
FirstLineOf(method, uri) == method \o <<"sp">> \o uri \o <<"sp", "v", "cr", "lf">>
Part(bytes, message) == [bytes |-> bytes, message |-> message]
End == <<"cr", "lf">>
Plain == Part(<<"x", "y">>, <<"x", "y">>)
Get1 == Part(FirstLineOf(GET, <<"u", "?", "x">>) \o Field("host", "v") \o End, <<"x">>)
Get2 == Part(FirstLineOf(GET, <<"u">>) \o End, <<>>)
Post == Part(FirstLineOf(POST, <<"u">>) \o Field("host", "v") \o Field("length", "2") \o End
                \o <<"sp", "y">>, <<"sp", "y">>)
Upgrade == Part(FirstLineOf(GET, <<"u">>) \o Field("upgrade", "v") \o Field("key", "v")
                   \o Field("version", "v") \o Field("extensions", "v") \o End, NoMessage)
NoExtensions == Part(FirstLineOf(GET, <<"u">>) \o Field("upgrade", "v") \o Field("key", "v")
                        \o Field("version", "v") \o End, NoMessage)
Short == Part(<<"text", "1", "mask", "mx">>, <<"x">>)
Long == Part(<<"text", "126", "2", "mask", "mx", "my">>, <<"x", "y">>)
Ping == Part(<<"ping", "0", "mask">>, <<>>)
ClientScripts ==
    {<<Plain, Plain>>, <<Get1>>, <<Get2, Get1>>, <<Post>>, <<Upgrade, Short, Long>>, <<NoExtensions>>,
     <<Upgrade, Ping, Short>>}
NumberOf == ("2" :> 2)
LengthOf == ("0" :> 0) @@ ("1" :> 1) @@ ("2" :> 2)
MaskedAs == ("mx" :> "x") @@ ("my" :> "y") @@ ("x" :> "mx") @@ ("mask" :> "mask") @@ ("2" :> "2")

LibInit ==
    /\ subject \in Subjects
    /\ Init /\ DictInit /\ SdsInit /\ ArgsInit /\ AeInit
    /\ subject # "dict" => watched = k1
    /\ subject # "sds" => want = <<>>
    /\ InputInit
    /\ subject # "input" => script = <<Get1>> /\ protocolType = "mix"

\* Once the client's bytes are not understood any more, only the next client is
\* of interest: what follows is excused by every invariant.
LibNext ==
    /\ \/ subject = "ring" /\ Next /\ UNCHANGED <<dictVars, sdsVars, argVars, aeVars, inputVars>>
       \/ subject = "dict" /\ DictNext /\ UNCHANGED <<vars, sdsVars, argVars, aeVars, inputVars>>
       \/ subject = "sds" /\ SdsNext /\ UNCHANGED <<vars, dictVars, argVars, aeVars, inputVars>>
       \/ subject = "args" /\ ArgsNext /\ UNCHANGED <<vars, dictVars, sdsVars, aeVars, inputVars>>
       \/ subject = "ae" /\ AeNext /\ UNCHANGED <<vars, dictVars, sdsVars, argVars, inputVars>>
       \/ /\ subject = "input" /\ InputNext /\ UNCHANGED <<vars, dictVars, sdsVars, argVars, aeVars>>
          /\ cause # {} /\ ~aborted => cause' = {}
    /\ UNCHANGED subject

LibSpec == LibInit /\ [][LibNext]_<<subject, vars, dictVars, sdsVars, argVars, aeVars, inputVars>>
=============================================================================
