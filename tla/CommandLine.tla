---------------------------- MODULE CommandLine ----------------------------
(***************************************************************************)
(* CommandLineArguments::initialize: from argv to the options main reads.  *)
(* boost::program_options is external: it stores what it can parse, then   *)
(* notify assigns the values and asks for the required ones.               *)
(***************************************************************************)
EXTENDS Integers, Sequences

CONSTANTS
    Requests,   \* command lines, each with the file it names and the build
    Absent      \* the value of an option that is not given

VARIABLES request, opt, pc

cliVars == <<request, opt, pc>>

ModeTokens == {"sync", "bucket", "bucketa", "unguided", "rand", "bucketsharp"}

(* The command and the indicator of each --ssat-tool. *)
Tools ==
    [dsharp   |-> <<"dsharp -noIBCP", "Models counted after projection:">>,
     clasp    |-> <<"clasp", "Model Count: ">>,
     sharpsat |-> <<"sharpSAT", "">>,
     approxmc |-> <<"approxmc-p.py", "">>]

Given(value, default) == IF value = Absent THEN default ELSE value

(* po::store: an unknown option and a mode that operator>> rejects end the *)
(* program, also next to --help.                                           *)
Store ==
    /\ pc = "store"
    /\ pc' = IF request.unknown \/ request.mode \notin ModeTokens \cup {Absent}
             THEN "exit1" ELSE "notify"
    /\ UNCHANGED <<request, opt>>

Help ==
    /\ pc = "notify" /\ request.help
    /\ pc' = "exit0"
    /\ UNCHANGED <<request, opt>>

(* A tool that operator>> does not know is NONE: it leaves what            *)
(* --ssat-command and --ssat-indicator say, or the empty strings.          *)
Notify ==
    /\ pc = "notify" /\ ~request.help
    /\ IF request.file = Absent
       THEN pc' = "exit1" /\ UNCHANGED opt
       ELSE /\ pc' = "open"
            /\ opt' = [mode |-> Given(request.mode, "bucket"),
                       tool |-> IF request.tool \in DOMAIN Tools
                                THEN Tools[request.tool]
                                ELSE <<Given(request.command, ""),
                                       Given(request.indicator, "")>>]
    /\ UNCHANGED request

CommandLineInit == request \in Requests /\ opt = <<>> /\ pc = "store"

CommandLineNext == Store \/ Help \/ Notify

=============================================================================
