---------------------------- MODULE MCKeyChecks ----------------------------
(***************************************************************************)
(* The computations that depend on nothing but their input, over all       *)
(* inputs up to a bound: every key with one or two subkeys goes through    *)
(* the checks (the first subkey is the primary), and with one key every    *)
(* prefix of four small bytes and every number up to MaxNumber, which is a *)
(* message size, an uptime in seconds and a memory size in kilobytes.      *)
(***************************************************************************)
EXTENDS KeyVerdict, Codec, Metrics

CONSTANT MaxNumber

ASSUME MaxNumberAssumption == MaxNumber \in Int

VARIABLES prefix, number

input == <<prefix, number>>

SmallKeys == {k \in [defects: SUBSET Defects, hasSecret: BOOLEAN, canEncrypt: BOOLEAN,
                     subkeys: UNION {[1..n -> Subkey] : n \in 1..2}] : WellFormed(k)}

ZeroPrefix == <<0, 0, 0, 0>>

OneKey == [defects |-> {}, hasSecret |-> TRUE, canEncrypt |-> TRUE,
           subkeys |-> <<[defects |-> {}, canEncrypt |-> TRUE, isSecret |-> TRUE]>>]

MCInit ==
  \/ VerdictInit /\ prefix = ZeroPrefix /\ number = 0
  \/ /\ key = OneKey /\ verdict = "none"
     /\ \/ prefix \in Prefix /\ number = 0
        \/ prefix = ZeroPrefix /\ number \in -1..MaxNumber

MCSpec == MCInit /\ [][VerdictNext /\ UNCHANGED input]_<<verdictVars, input>>

\* The size a program writes in front of a message is the size the other reads,
\* and the server passes a prefix on as it came.
SizesSurvive == (number >= 0 => PrefixIsSize(number)) /\ PrefixSurvives(prefix)

\* The dashboard shows the time the server has run.
UptimeIsShown == number >= 0 => UptimeAddsUp(number)

\* The dashboard shows the memory the server uses, below 2 GiB only.
MemoryShownBelowLimit == MemoryIsShown(number)

\* What the dashboard computes is what the kernel said, at every boundary of the
\* units and of the int it computes with.
MetricsAreRight == UptimeIsShown /\ MemoryShownBelowLimit
=============================================================================
