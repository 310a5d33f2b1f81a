\* Two projects, whose repositories may move at any time; the script and one detour
\* (the script run again from the top, another program or one with --force), a kill.
SPECIFICATION FairSpec
CONSTANTS
  Project = {a, b}
  Limit = 2
  LastRev = 2
  MaxDetours = 1
  MaxKills = 1
INVARIANTS TypeOK RevisionsTrue IndexedRevision SourcesOnly
PROPERTIES FetchedKept ProgramsEnd
CHECK_DEADLOCK FALSE
