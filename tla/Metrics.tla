------------------------------- MODULE Metrics -------------------------------
(***************************************************************************)
(* The numbers on the server's dashboard: the uptime and the memory of     *)
(* src/src/server/resources_config.cpp, and what ProcessInfo.cpp of        *)
(* src/cmake/sys_info reads for them from the kernel.                      *)
(***************************************************************************)
EXTENDS Integers

CONSTANTS
  IntMax,   \* INT_MAX, the largest int
  Kilo      \* 1024, bytes of a kilobyte

ASSUME MetricsAssumption ==
  /\ IntMax \in Nat
  /\ Kilo \in Nat \ {0}

\* getUptime: hours, minutes and seconds.
getUptime(seconds) ==
  [hour |-> seconds \div 3600,
   minute |-> (seconds % 3600) \div 60,
   second |-> seconds % 60]

\* x as an int of the machine keeps it.
ToInt(x) == ((x + IntMax + 1) % (2 * (IntMax + 1))) - (IntMax + 1)

\* Mistake: kilobytes are taken for bytes.
UsageInKilobytes(kb) == {ToInt(kb)}

\* ProcessInfo::GetMemoryUsage, a product of two ints that is returned as a
\* 64-bit number: kb is the VmRSS line of /proc/self/status, -1 if there is none.
\* A product that does not fit an int is undefined: the build may compute it in
\* 32 bits or in 64.
GetMemoryUsage(kb) == {ToInt(kb * Kilo), kb * Kilo}

\* C++ division rounds towards zero.
Quotient(x, y) == IF x >= 0 THEN x \div y ELSE -((-x) \div y)

\* currentMemoryBytes: what the dashboard may show, in megabytes.
currentMemory(kb) == {Quotient(usage, Kilo * Kilo) : usage \in GetMemoryUsage(kb)}

-----------------------------------------------------------------------------
\* The clock of the dashboard: hours, minutes and seconds that add up, with
\* minutes and seconds below 60.
UptimeAddsUp(seconds) ==
  LET t == getUptime(seconds) IN
    /\ t.hour * 3600 + t.minute * 60 + t.second = seconds
    /\ t.minute \in 0..59 /\ t.second \in 0..59

\* The memory shown is what the kernel says, in megabytes, as long as the bytes
\* fit an int (2 GiB); beyond, a build may show less, and a negative number first.
\* A server that learns nothing shows 0.
MemoryIsShown(kb) ==
  /\ kb \in Nat /\ kb * Kilo <= IntMax => currentMemory(kb) = {kb \div Kilo}
  /\ kb \in Nat /\ kb * Kilo > IntMax => \E m \in currentMemory(kb) : m < kb \div Kilo
  /\ kb = -1 /\ Kilo > 1 /\ Kilo <= IntMax => currentMemory(kb) = {0}
=============================================================================
