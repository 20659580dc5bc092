SPECIFICATION StorageSpec
CONSTANTS
  Unset = Unset
  NoTask = NoTask
  scopedQuery = scopedQuery
  openQuery = openQuery
  insert = insert
  delete = delete
  host = host
  workspace = workspace
  x = x
  y = y
  d1 = d1
  d2 = d2
  Queries <- MCQueries
  Inserts <- MCInserts
  Deletes <- MCDeletes
  Keys <- MCKeys
  Values <- MCValues
  Docs <- MCDocs
  Settings <- MCSettings
  Selected <- MCSelected
INVARIANTS OwnSettings SettingsRestored AnswersInScope
PROPERTIES QueriesEnd
