SPECIFICATION Spec
CONSTANTS
  Harnesses = {"opencode", "zcode", "codex", "hermes"}
  Opencode = "opencode"
  Addable = {"opencode", "zcode", "hermes"}
  RootOnly = {"zcode"} YamlConfig = {"hermes"}
  Versions = {"1.0"} Tags = {"latest", "next"}
  Unlisted <- SomeUnlisted
  Installs <- SomeInstalls
  Capabilities <- SomeCapabilities
  Manifests <- SomeManifests
  Configs <- SomeConfigs
  Answers <- SomeAnswers Planes = {"vault.env", "b.env"}
  MaxEdits = 1 MaxRuns = 2 MaxFaults = 1
INVARIANTS TypeOK NothingLost Converges DoctorHonest
PROPERTIES NeverClobbers
CHECK_DEADLOCK FALSE
