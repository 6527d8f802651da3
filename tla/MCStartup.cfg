SPECIFICATION Spec
CONSTANTS
 Words <- MCWords
 Lower <- MCLower
 Number <- MCNumber
 Files <- MCFiles
 Garbage={75535}
 Taken={40000}
 Ephemeral={40000, 40001, 40002}
 LineLength=3
INVARIANTS InBuffer ReadsWhatTheFileSays StartsOnConfiguredPorts
PROPERTY StartupEnds
