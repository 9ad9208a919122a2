\* Two clients, one file of up to two chunks, and an operator who changes the settings once.
CONSTANTS
  Files = {f1}
  Clients = {q1, q2}
  Elsewhere = elsewhere
  AppEnvs = {{"local"}, {"prod"}, {"local", "prod_llm"}}
  KeySets = {{"GROQ_API_KEY"}, {"GEMMA_API_KEY"}, {"GEMMA_API_KEY", "GEMMA_BASE_URL"}}
  Compose = FALSE
  PipelineServer = "local"
  MaxResults = 2
  MaxStored = 2
  MaxRestarts = 1
SPECIFICATION FairSpec
INVARIANT TypeOK
INVARIANT LoadedIsFindable
INVARIANT SourcesStand
PROPERTY QueryEnds
