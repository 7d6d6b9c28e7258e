--------------------------- MODULE MCCollectors ---------------------------
EXTENDS Collectors

MCCandidates == <<"stable", "preview", "unpackaged">>
MCProviders == <<"npm", "cargo", "winget">>
\* Two distros where answers of one could be taken for the other's: all caches by
\* distro have the same key.
MCPlaces ==
  [s \in Subjects |-> CASE s = "zone" -> {"Ubuntu", "Debian"}
                        [] s \in {"terminal", "dns", "distros", "packages", "memory"} -> {"host"}
                        [] OTHER -> {"Ubuntu"}]
\* Long enough for an answer, its ageing, a change and two refreshes where a cache
\* is kept; a question where nothing is.
MCMaxSteps ==
  [s \in Subjects |-> IF s \in {"dns", "hermes", "resources", "memory"} THEN 3
                      ELSE IF s \in {"docker"} \union CachedSubjects THEN 4 ELSE 1]
\* The parsers alone, over all their worlds: what SaysNothingFalse is proved from.
ASSUME ParsersAssumption == AnswersAreTrue
===========================================================================
