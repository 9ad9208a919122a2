\* The container of docker-compose.yaml, and an .env with the keys of Gemma.
CONSTANTS
  Files = {f1}
  Clients = {q1}
  Elsewhere = elsewhere
  AppEnvs = {{"local"}, {"local", "prod_llm"}, {"prod"}}
  KeySets = {{"GROQ_API_KEY"}, {"GEMMA_API_KEY", "GEMMA_BASE_URL"}}
  Compose = TRUE
  PipelineServer = "local"
  MaxResults = 1
  MaxStored = 1
  MaxRestarts = 1
SPECIFICATION Spec
INVARIANT ProdUsesGemma
