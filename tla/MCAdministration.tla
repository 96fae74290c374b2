--------------------------- MODULE MCAdministration ---------------------------
(* Small instances of Administration for TLC. *)
EXTENDS Administration

CONSTANTS t1, t2, timer, key, a, b, example, org

\* Two protocols, one of which needs a server name of its own.
MCAsked == <<"vless-reality", "tuic">>

\* Two releases; a manifest may leave out where the kernel is, or a range that has it.
\* `mentions': the versions whose text is in what it prints.
Printing(version, mentions) ==
  [name |-> "sing-box", version |-> version, whole |-> TRUE, mentions |-> mentions]
Kernel(version) == Printing(version, {version})
Control(version) == [name |-> "sbctl", version |-> version, whole |-> TRUE, mentions |-> {}]

Manifest(schema, control, kernel, urls, ranges) ==
  [schema |-> schema,
   artifacts |-> [n \in {"sbctl", "sing-box"} |->
      IF n = "sbctl" THEN [version |-> control.version, digest |-> control]
      ELSE [version |-> kernel.version, digest |-> kernel]],
   urls |-> urls, matrix |-> ranges, signature |-> None]

From(version) == [min |-> version, max |-> None]

MCDrafts ==
  {Manifest(1, Control(<<1>>), Kernel(<<1, 12, 0>>), {"sbctl", "sing-box"}, {From(<<1, 11>>)}),
   Manifest(1, Control(<<2>>), Kernel(<<1, 13, 1>>), {"sbctl"}, {From(<<1, 13, 1>>)}),
   Manifest(1, Control(<<1>>), Printing(<<1, 13, 10>>, {<<1, 13, 10>>, <<1, 13, 1>>}),
            {"sbctl", "sing-box"}, {From(<<1, 14>>)})}

\* A release with a digest, one without, one whose digest has another form, one that has
\* no archive for this host, one tagged with two numbers and one that is not stable.
Release(tag, arch, digest) == [tag |-> tag, assets |-> {[name |-> <<tag, arch>>, digest |-> digest]}]

MCOfficial ==
  {Release(<<1, 12, 0>>, "amd64", Kernel(<<1, 12, 0>>)), Release(<<1, 13, 1>>, "amd64", None),
   Release(<<1, 12, 0>>, "amd64", Malformed), Release(<<1, 13, 2>>, "arm64", None),
   Release(<<1, 13>>, "amd64", None), Release(<<1, 13, Letters>>, "amd64", None)}

\* A day has four hours.  Clocks that are never
\* changed, that skip the first hour of a month and repeat an hour in the next, that
\* skip half an hour, and that repeat the last hour of a month.
Timezone(offset, shifts) == [offset |-> offset, shifts |-> shifts]
Shift(at, offset) == [at |-> at, offset |-> offset]

MCTimezones ==
  {Timezone(2, {}), Timezone(0, {Shift(56, 2), Shift(78, 0)}),
   Timezone(0, {Shift(40, 1)}), Timezone(0, {Shift(56, -2)})}

\* None of the changes goes across the beginning of a month.
Instants(zone) == {t \in -2..145 : Local(zone, t) \in 0..143}
ASSUME \A s \in Schedules : MonthsInOrder(s, Instants(s.timezone))

MCMonthDays == <<4, 3, 5, 2, 4>>

MCHosts == {<<a, example, org>>, <<b, example, org>>}
=============================================================================
