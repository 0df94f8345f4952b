CONSTANT Configs <- AllConfigs
SPECIFICATION Spec
INVARIANTS
  TypeOK
  ServesOnlyWhatPassed
  ExitsHaveCause
PROPERTY SelfProbeGoesOn
