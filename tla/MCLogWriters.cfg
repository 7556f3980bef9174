SPECIFICATION Spec
CONSTANTS
  c1 = c1
  c2 = c2
  c3 = c3
  NoDatabase = NoDatabase
  Databases = {sqlite, server}
  SqliteFiles = {sqlite}
  Contacts = {c1, c2, c3}
  LiveContacts = {c3}
  Files <- MCFiles
  BatchSize = 2
  Faults = {"open", "fetch", "insert", "begin", "busy", "commit", "count"}
INVARIANTS
  WritersExclude
  ActionsComeBack
  ImportIsReported
  CopyIsOfLog
PROPERTIES
  SwitchKeepsLog
  ImportEnds
